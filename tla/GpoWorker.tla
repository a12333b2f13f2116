------------------------------ MODULE GpoWorker ------------------------------
(***************************************************************************)
(* Apply, rollback, verification and the rollback preview as the worker on *)
(* the domain controller executes them (GpoWorkflow.Worker.ps1), for one   *)
(* GPO.  Every process keeps its own copy of the manifest it read or made  *)
(* and saves that copy; only apply and rollback take the lock file.  The   *)
(* service waits for one gated process at a time; a process it has given   *)
(* up on (a timeout, a restart of the service) keeps running on the DC.    *)
(* Administrators edit the GPO with other tools at any time.               *)
(***************************************************************************)
EXTENDS Naturals, FiniteSets

CONSTANTS
    Op,         \* operations: one plan, one run and one manifest each
    NoOp,
    Item,       \* Op -> the values its mapping writes, no value twice
    Foreign,    \* what other tools may add to, or remove from, the GPO
    Proc,       \* worker processes
    NoProc,
    Orphan,     \* the operations whose process may outlive the service's wait
    Inspect,    \* the rollback preview, which passes no gate, may run
    Overlap,    \* whose changes may fall between a comparison that one process
                \* makes and the fingerprint it then saves: "none", "edits" (of
                \* other tools) or "processes" (of the program; no edits at all)
    LinkedAtStart, \* whether the GPO may be linked to the scope at first
    MaxRev,     \* bound: changes of the GPO
    MaxStops    \* bound: processes killed or given up on

Kind == {"apply", "rollback", "verify", "inspect"}

ASSUME WorkerAssumption ==
    /\ NoOp \notin Op
    /\ NoProc \notin Proc
    /\ \A o \in Op : Foreign \notin Item[o]
    /\ \A o, p \in Op : o # p => Item[o] \cap Item[p] = {}
    /\ Orphan \subseteq Kind
    /\ Inspect \in BOOLEAN
    /\ Overlap \in {"none", "edits", "processes"}
    /\ LinkedAtStart \subseteq BOOLEAN
    /\ MaxRev \in Nat /\ MaxStops \in Nat

VARIABLES
    gpo,        \* the live GPO; every change gives it a new fingerprint, rev
    plan,       \* the reviewed preview of each operation
    manifest,   \* manifest.json of each operation
    lock,       \* the process that holds the GPO's lock file
    awaited,    \* the process the service waits for under its gate
    proc,       \* the worker processes
    own,        \* history: the fingerprint each operation's own work last left
    wrote,      \* history: the operations that changed the GPO
    starts,     \* history: how often an operation began to write
    stops       \* processes killed or given up on so far

vars == <<gpo, plan, manifest, lock, awaited, proc, own, wrote, starts,
          stops>>

Phase == {"none", "BACKUP_STARTED", "BACKED_UP", "FAILED_SAFE", "WRITING",
          "PUBLICATION_PENDING", "PUBLISHED", "VERIFY_MISMATCH",
          "REVIEW_REQUIRED", "ROLLING_BACK", "ROLLED_BACK",
          "ROLLBACK_REVIEW_REQUIRED", "ROLLBACK_DRIFT_DETECTED"}
Unwritten == {"BACKUP_STARTED", "BACKED_UP"}
RollingBack == {"ROLLING_BACK", "ROLLED_BACK", "ROLLBACK_REVIEW_REQUIRED",
                "ROLLBACK_DRIFT_DETECTED"}
Restorable == {"PUBLISHED", "VERIFY_MISMATCH", "ROLLED_BACK"}

Content == {Foreign} \cup UNION {Item[o] : o \in Op}

\* Fingerprints are positive; 0 stands for a field that was not saved.
NoManifest == [phase |-> "none", backup |-> FALSE, before |-> {}, saved |-> {},
               post |-> 0, restored |-> 0, atCheck |-> FALSE,
               restoreFailed |-> FALSE]
NoPlan == [fp |-> 0, content |-> {}, linked |-> FALSE]
Off == [pc |-> "off", kind |-> "verify", op |-> NoOp, anchor |-> NoOp,
        expect |-> 0, m |-> NoManifest, seen |-> FALSE]

Init ==
    /\ gpo \in [content : {{}}, linked : LinkedAtStart, rev : {1}]
    /\ plan = [o \in Op |-> NoPlan]
    /\ manifest = [o \in Op |-> NoManifest]
    /\ lock = NoProc
    /\ awaited = NoProc
    /\ proc = [w \in Proc |-> Off]
    /\ own = [o \in Op |-> 0]
    /\ wrote = {}
    /\ starts = [o \in Op |-> 0]
    /\ stops = 0

-----------------------------------------------------------------------------
(* What the processes share.                                               *)

\* Verify-Published and Verify-Rollback: the read-back may also fail to
\* establish a match (AD/SYSVOL versions, unreadable evidence).
Applied(o) == Item[o] \subseteq gpo.content /\ gpo.linked
\* (Variant: the link is not compared.)
RestoredContent(o, m) == gpo.content = m.before
Restored(o, m) == gpo.content = m.before /\ gpo.linked = plan[o].linked

\* Publication-Review and Reconcile-Publication: an apply that stopped after
\* its durable checkpoint, over an unchanged GPO, was a publication.
PublicationReview(m) ==
    \/ m.phase = "PUBLICATION_PENDING"
    \/ m.phase = "REVIEW_REQUIRED" /\ m.atCheck
Reconciles(o, m) ==
    PublicationReview(m) /\ Applied(o) /\ m.post # 0 /\ m.post = gpo.rev

At(w, pc) == proc[w].pc = pc
OpOf(w) == proc[w].op

Goto(w, pc) == proc' = [proc EXCEPT ![w].pc = pc]
Save(w, m) == manifest' = [manifest EXCEPT ![OpOf(w)] = m]
SaveAndGoto(w, m, pc) ==
    /\ Save(w, m)
    /\ proc' = [proc EXCEPT ![w].m = m, ![w].pc = pc]

\* The end of a process, on any path: its lock and the service's wait end.
Ends(w) ==
    /\ proc' = [proc EXCEPT ![w] = Off]
    /\ lock' = IF lock = w THEN NoProc ELSE lock
    /\ awaited' = IF awaited = w THEN NoProc ELSE awaited

Quiet == UNCHANGED <<gpo, plan, own, wrote, starts, stops>>
Running(w) == UNCHANGED <<lock, awaited>>

\* A change of the GPO by w.  The history of its operation follows only while
\* nobody else has changed the GPO since the last step of that operation (or,
\* for an anchored restore, of the anchor).
Changes(w, after, content, linked) ==
    /\ gpo.rev < MaxRev
    /\ Overlap # "none" \/ \A v \in Proc \ {w} : ~At(v, "conclude")
    /\ gpo' = [content |-> content, linked |-> linked, rev |-> gpo.rev + 1]
    /\ own' = IF gpo.rev = own[after] THEN [own EXCEPT ![OpOf(w)] = gpo.rev + 1]
              ELSE own

-----------------------------------------------------------------------------
(* The service and other tools.                                            *)

\* A preview is kept as the plan of an operation that has not been executed.
Preview(o) ==
    /\ plan[o] = NoPlan
    /\ plan' = [plan EXCEPT ![o] = [fp |-> gpo.rev, content |-> gpo.content,
                                    linked |-> gpo.linked]]
    /\ own' = [own EXCEPT ![o] = gpo.rev]
    /\ UNCHANGED <<gpo, manifest, lock, awaited, proc, wrote, starts, stops>>

\* A batch recovery anchors the restore on the post-state reported for its last
\* operation.  The rollback preview runs outside the gate.
Launch(w, kind, o, anchor) ==
    /\ At(w, "off")
    /\ plan[o] # NoPlan
    /\ anchor # NoOp =>
         kind = "rollback" /\ anchor # o /\ manifest[anchor].post # 0
    /\ IF kind = "inspect" THEN Inspect /\ UNCHANGED awaited
       ELSE awaited = NoProc /\ awaited' = w
    /\ proc' = [proc EXCEPT ![w] = [Off EXCEPT !.pc = "start", !.kind = kind,
                  !.op = o, !.anchor = anchor,
                  !.expect = IF anchor = NoOp THEN 0 ELSE manifest[anchor].post]]
    /\ Quiet /\ UNCHANGED <<manifest, lock>>

Stops ==
    /\ stops < MaxStops
    /\ stops' = stops + 1
    /\ UNCHANGED <<gpo, plan, own, wrote, starts>>

\* The service stops waiting; the process on the DC does not stop.
GiveUp(w) ==
    /\ awaited = w
    /\ proc[w].kind \in Orphan
    /\ awaited' = NoProc
    /\ Stops /\ UNCHANGED <<manifest, lock, proc>>

\* The process ends without another instruction; the lock file is closed.
Killed(w) ==
    /\ ~At(w, "off")
    /\ Ends(w)
    /\ Stops /\ UNCHANGED manifest

\* Between a change or comparison and the fingerprint that is saved for it.
InWindow(w) == proc[w].pc \in {"writing", "linking", "marking", "checking",
                 "publishing", "access", "import", "relink", "readback",
                 "restored", "conclude"}

Edit ==
    /\ gpo.rev < MaxRev
    /\ \/ Overlap = "edits"
       \/ Overlap = "none" /\ \A w \in Proc : ~InWindow(w)
    /\ gpo' = [gpo EXCEPT !.rev = @ + 1,
                 !.content = IF Foreign \in @ THEN @ \ {Foreign}
                             ELSE @ \cup {Foreign}]
    /\ UNCHANGED <<plan, manifest, lock, awaited, proc, own, wrote, starts, stops>>

-----------------------------------------------------------------------------
(* gpoApply.                                                               *)

ApplyLocks(w) ==
    /\ At(w, "start") /\ proc[w].kind = "apply"
    /\ IF lock # NoProc THEN Ends(w)
       ELSE lock' = w /\ Goto(w, "preflight") /\ UNCHANGED awaited
    /\ Quiet /\ UNCHANGED manifest

\* Variant of the next definition: an existing manifest is overwritten.
StartableAgain(o) == plan[o].fp = gpo.rev /\ ~Applied(o)

\* Nothing is kept when the preflight refuses or nothing has to change.
Startable(o) ==
    /\ manifest[o].phase = "none"
    /\ plan[o].fp = gpo.rev
    /\ ~Applied(o)

ApplyPreflight(w) ==
    /\ At(w, "preflight")
    /\ \/ Ends(w)
       \/ Startable(OpOf(w)) /\ Goto(w, "record") /\ Running(w)
    /\ Quiet /\ UNCHANGED manifest

ApplyRecords(w) ==
    /\ At(w, "record")
    /\ SaveAndGoto(w, [NoManifest EXCEPT !.phase = "BACKUP_STARTED",
                                         !.before = gpo.content], "backup")
    /\ Quiet /\ Running(w)

ApplyBacksUp(w) ==
    /\ At(w, "backup")
    /\ SaveAndGoto(w, [proc[w].m EXCEPT !.phase = "BACKED_UP", !.backup = TRUE,
                                        !.saved = gpo.content], "recheck")
    /\ Quiet /\ Running(w)

\* Variants of the next action: the phase is not saved before the writes, and
\* the fingerprint is not compared again.
ApplyStartsWritingUnsaved(w) ==
    /\ At(w, "recheck")
    /\ gpo.rev = plan[OpOf(w)].fp
    /\ proc' = [proc EXCEPT ![w].m.phase = "WRITING", ![w].pc = "writing"]
    /\ starts' = [starts EXCEPT ![OpOf(w)] = IF @ < 2 THEN @ + 1 ELSE @]
    /\ UNCHANGED <<gpo, plan, own, wrote, stops, manifest>> /\ Running(w)
ApplyStartsWritingUnchecked(w) ==
    /\ At(w, "recheck")
    /\ SaveAndGoto(w, [proc[w].m EXCEPT !.phase = "WRITING"], "writing")
    /\ starts' = [starts EXCEPT ![OpOf(w)] = IF @ < 2 THEN @ + 1 ELSE @]
    /\ UNCHANGED <<gpo, plan, own, wrote, stops>> /\ Running(w)

\* The fingerprint is compared once more before the first write.
ApplyStartsWriting(w) ==
    /\ At(w, "recheck")
    /\ gpo.rev = plan[OpOf(w)].fp
    /\ SaveAndGoto(w, [proc[w].m EXCEPT !.phase = "WRITING"], "writing")
    /\ starts' = [starts EXCEPT ![OpOf(w)] = IF @ < 2 THEN @ + 1 ELSE @]
    /\ UNCHANGED <<gpo, plan, own, wrote, stops>> /\ Running(w)

ApplyWrites(w) ==
    /\ At(w, "writing")
    /\ LET o == OpOf(w)
           missing == Item[o] \ gpo.content
       IN  IF missing = {}
           THEN Goto(w, "linking") /\ Quiet
           ELSE /\ \E i \in missing :
                     Changes(w, o, gpo.content \cup {i}, gpo.linked)
                /\ wrote' = wrote \cup {o}
                /\ UNCHANGED <<plan, starts, stops, proc>>
    /\ UNCHANGED manifest /\ Running(w)

ApplyLinks(w) ==
    /\ At(w, "linking")
    /\ Goto(w, "marking")
    /\ IF gpo.linked THEN Quiet
       ELSE /\ Changes(w, OpOf(w), gpo.content, TRUE)
            /\ wrote' = wrote \cup {OpOf(w)}
            /\ UNCHANGED <<plan, starts, stops>>
    /\ UNCHANGED manifest /\ Running(w)

\* The durable checkpoint before publication is verified.
ApplyMarks(w) ==
    /\ At(w, "marking")
    /\ SaveAndGoto(w, [proc[w].m EXCEPT !.phase = "PUBLICATION_PENDING",
                                        !.post = gpo.rev], "checking")
    /\ Quiet /\ Running(w)

ApplyChecks(w) ==
    /\ At(w, "checking")
    /\ \E seen \in {FALSE, Applied(OpOf(w))} :
         proc' = [proc EXCEPT ![w].seen = seen, ![w].pc = "publishing"]
    /\ Quiet /\ UNCHANGED manifest /\ Running(w)

\* The fingerprint is read again, after the check, and saved.
ApplyPublishes(w) ==
    /\ At(w, "publishing")
    /\ Save(w, [proc[w].m EXCEPT !.post = gpo.rev,
                  !.phase = IF proc[w].seen THEN "PUBLISHED" ELSE "VERIFY_MISMATCH"])
    /\ Ends(w)
    /\ Quiet

\* The catch block: an exception at any stage once there is a manifest.
ApplyFails(w) ==
    /\ proc[w].pc \in {"backup", "recheck", "writing", "linking", "marking",
                       "checking", "publishing"}
    /\ Save(w, [proc[w].m EXCEPT
                  !.phase = IF @ \in Unwritten THEN "FAILED_SAFE"
                            ELSE "REVIEW_REQUIRED",
                  !.atCheck = proc[w].pc \in {"checking", "publishing"}])
    /\ Ends(w)
    /\ Quiet

-----------------------------------------------------------------------------
(* gpoRollback.                                                            *)

\* The manifest is read before the lock is taken.
RollbackReads(w) ==
    /\ At(w, "start") /\ proc[w].kind = "rollback"
    /\ IF manifest[OpOf(w)].backup
       THEN /\ proc' = [proc EXCEPT ![w].m = manifest[OpOf(w)], ![w].pc = "locking"]
            /\ Running(w)
       ELSE Ends(w)
    /\ Quiet /\ UNCHANGED manifest

RollbackLocks(w) ==
    /\ At(w, "locking")
    /\ IF lock # NoProc THEN Ends(w)
       ELSE lock' = w /\ Goto(w, "reconcile") /\ UNCHANGED awaited
    /\ Quiet /\ UNCHANGED manifest

RollbackReconciles(w) ==
    /\ At(w, "reconcile")
    /\ \/ /\ Reconciles(OpOf(w), proc[w].m)
          /\ SaveAndGoto(w, [proc[w].m EXCEPT !.phase = "PUBLISHED"], "compare")
       \/ /\ Goto(w, "compare")
          /\ UNCHANGED manifest
    /\ Quiet /\ Running(w)

\* The state the live fingerprint must still have; 0 when there is none.
Expected(w) ==
    LET m == proc[w].m
        a == proc[w].anchor
    IN  IF m.phase = "ROLLED_BACK" THEN m.restored
        ELSE IF a = NoOp THEN m.post
        ELSE IF manifest[a].phase = "PUBLISHED" /\ manifest[a].post = proc[w].expect
             THEN proc[w].expect ELSE 0

\* Variant of the next action: the live fingerprint is not compared.
RollbackComparesPhase(w) ==
    /\ At(w, "compare")
    /\ proc[w].m.post # 0
    /\ IF proc[w].m.phase \in Restorable
       THEN Goto(w, "access") /\ Running(w)
       ELSE Ends(w)
    /\ Quiet /\ UNCHANGED manifest

\* ROLLBACK_CONFLICT leaves the manifest alone.
RollbackCompares(w) ==
    /\ At(w, "compare")
    /\ proc[w].m.post # 0
    /\ IF proc[w].m.phase \in Restorable /\ Expected(w) = gpo.rev
       THEN Goto(w, "access") /\ Running(w)
       ELSE Ends(w)
    /\ Quiet /\ UNCHANGED manifest

\* Without a post-state (ROLLBACK_VERSION_UNKNOWN), or with another exception
\* before the restore begins, the process saves its own copy of the manifest.
RollbackStopsEarly(w) ==
    /\ proc[w].pc \in {"reconcile", "compare", "access"}
    /\ Save(w, [proc[w].m EXCEPT !.restoreFailed = TRUE])
    /\ Ends(w)
    /\ Quiet

RollbackStarts(w) ==
    /\ At(w, "access")
    /\ SaveAndGoto(w, [proc[w].m EXCEPT !.phase = "ROLLING_BACK"], "import")
    /\ Quiet /\ Running(w)

Basis(w) == IF proc[w].anchor = NoOp \/ own[OpOf(w)] = gpo.rev THEN OpOf(w)
            ELSE proc[w].anchor

RollbackImports(w) ==
    /\ At(w, "import")
    /\ Changes(w, Basis(w), proc[w].m.saved, gpo.linked)
    /\ Goto(w, "relink")
    /\ UNCHANGED <<plan, manifest, wrote, starts, stops>> /\ Running(w)

RollbackRelinks(w) ==
    /\ At(w, "relink")
    /\ Goto(w, "readback")
    /\ IF gpo.linked = plan[OpOf(w)].linked THEN Quiet
       ELSE /\ Changes(w, OpOf(w), gpo.content, plan[OpOf(w)].linked)
            /\ UNCHANGED <<plan, wrote, starts, stops>>
    /\ UNCHANGED manifest /\ Running(w)

RollbackReadsBack(w) ==
    /\ At(w, "readback")
    /\ \E seen \in {FALSE, Restored(OpOf(w), proc[w].m)} :
         proc' = [proc EXCEPT ![w].seen = seen, ![w].pc = "restored"]
    /\ Quiet /\ UNCHANGED manifest /\ Running(w)

RollbackConcludes(w) ==
    /\ At(w, "restored")
    /\ Save(w, IF proc[w].seen
               THEN [proc[w].m EXCEPT !.phase = "ROLLED_BACK", !.restored = gpo.rev]
               ELSE [proc[w].m EXCEPT !.phase = "ROLLBACK_REVIEW_REQUIRED"])
    /\ Ends(w)
    /\ Quiet

RollbackFails(w) ==
    /\ proc[w].pc \in {"import", "relink", "readback", "restored"}
    /\ Save(w, [proc[w].m EXCEPT !.phase = "ROLLBACK_REVIEW_REQUIRED",
                                 !.restoreFailed = TRUE])
    /\ Ends(w)
    /\ Quiet

-----------------------------------------------------------------------------
(* gpoVerify and gpoRollbackInspect: no lock.                              *)

\* Which of the two comparisons applies to the manifest that was read.
LooksRestored(kind, m) ==
    \/ m.phase \in RollingBack
    \/ kind = "verify" /\ m.restoreFailed /\ m.phase \in {"PUBLISHED", "VERIFY_MISMATCH"}

CheckReads(w) ==
    /\ At(w, "start") /\ proc[w].kind \in {"verify", "inspect"}
    /\ IF manifest[OpOf(w)].phase = "none" THEN Ends(w)
       ELSE /\ proc' = [proc EXCEPT ![w].m = manifest[OpOf(w)], ![w].pc = "look"]
            /\ Running(w)
    /\ Quiet /\ UNCHANGED manifest

\* The comparison; an interrupted publication is reconciled against the saved
\* fingerprint, everything else that is not a restore is only reported.
CheckLooks(w) ==
    LET o == OpOf(w)
        m == proc[w].m
    IN  /\ At(w, "look")
        /\ \/ /\ LooksRestored(proc[w].kind, m)
              /\ \E seen \in {FALSE, Restored(o, m)} :
                   proc' = [proc EXCEPT ![w].seen = seen, ![w].pc = "conclude"]
              /\ UNCHANGED manifest /\ Running(w)
           \/ /\ ~LooksRestored(proc[w].kind, m)
              /\ Reconciles(o, m)
              /\ Save(w, [m EXCEPT !.phase = "PUBLISHED"])
              /\ Ends(w)
           \/ /\ ~LooksRestored(proc[w].kind, m)
              /\ UNCHANGED manifest
              /\ Ends(w)
        /\ Quiet

\* Variant of the next definition: a drift saves the state of a published change.
ConcludedDrift(kind, m, seen) ==
    CASE seen -> {[m EXCEPT !.phase = "ROLLED_BACK", !.restored = gpo.rev]}
      [] ~seen /\ (kind = "inspect" \/ m.phase \notin RollingBack) -> {}
      [] OTHER -> {[m EXCEPT !.phase = IF m.phase = "ROLLED_BACK"
                      THEN "DRIFT_DETECTED" ELSE "ROLLBACK_REVIEW_REQUIRED"]}

\* What is saved after a comparison with the snapshot, if anything.  Only a
\* difference that was found turns an earlier verified restore into drift.  The
\* fingerprint of a confirmed restore is read after the comparison.
Concluded(kind, m, seen) ==
    LET verified == m.phase = "ROLLED_BACK"
               \/ (m.phase = "ROLLBACK_DRIFT_DETECTED" /\ m.restored # 0)
    IN  CASE seen -> {[m EXCEPT !.phase = "ROLLED_BACK", !.restored = gpo.rev]}
          [] ~seen /\ (kind = "inspect" \/ m.phase \notin RollingBack) -> {}
          [] OTHER -> IF verified
                      THEN {m, [m EXCEPT !.phase = "ROLLBACK_DRIFT_DETECTED"]}
                      ELSE {[m EXCEPT !.phase = "ROLLBACK_REVIEW_REQUIRED"]}

CheckConcludes(w) ==
    LET saved == Concluded(proc[w].kind, proc[w].m, proc[w].seen)
    IN  /\ At(w, "conclude")
        /\ IF saved = {} THEN UNCHANGED manifest
           ELSE \E m \in saved : Save(w, m)
        /\ Ends(w)
        /\ Quiet

-----------------------------------------------------------------------------
ApplyStep(w) ==
    \/ ApplyLocks(w) \/ ApplyPreflight(w) \/ ApplyRecords(w) \/ ApplyBacksUp(w)
    \/ ApplyStartsWriting(w) \/ ApplyWrites(w) \/ ApplyLinks(w) \/ ApplyMarks(w)
    \/ ApplyChecks(w) \/ ApplyPublishes(w) \/ ApplyFails(w)
RollbackStep(w) ==
    \/ RollbackReads(w) \/ RollbackLocks(w) \/ RollbackReconciles(w)
    \/ RollbackCompares(w) \/ RollbackStopsEarly(w) \/ RollbackStarts(w)
    \/ RollbackImports(w) \/ RollbackRelinks(w) \/ RollbackReadsBack(w)
    \/ RollbackConcludes(w) \/ RollbackFails(w)
CheckStep(w) == CheckReads(w) \/ CheckLooks(w) \/ CheckConcludes(w)

Next ==
    \/ \E o \in Op : Preview(o)
    \/ \E w \in Proc :
         \/ \E kind \in Kind, o \in Op, anchor \in Op \cup {NoOp} :
              Launch(w, kind, o, anchor)
         \/ GiveUp(w) \/ Killed(w)
         \/ ApplyStep(w) \/ RollbackStep(w) \/ CheckStep(w)
    \/ Edit

Spec == Init /\ [][Next]_vars

-----------------------------------------------------------------------------
(* Correctness.                                                            *)

PlanRecord == [fp : Nat, content : SUBSET Content, linked : BOOLEAN]
ManifestRecord == [phase : Phase, backup : BOOLEAN, before : SUBSET Content,
                   saved : SUBSET Content, post : Nat, restored : Nat,
                   atCheck : BOOLEAN, restoreFailed : BOOLEAN]
Pc == {"off", "start", "preflight", "record", "backup", "recheck", "writing",
       "linking", "marking", "checking", "publishing", "locking", "reconcile",
       "compare", "access", "import", "relink", "readback", "restored", "look",
       "conclude"}
ProcRecord == [pc : Pc, kind : Kind, op : Op \cup {NoOp}, anchor : Op \cup {NoOp},
               expect : Nat, m : ManifestRecord, seen : BOOLEAN]

\* Every variable has its type.
TypeOK ==
    /\ gpo \in [content : SUBSET Content, linked : BOOLEAN, rev : Nat]
    /\ plan \in [Op -> PlanRecord]
    /\ manifest \in [Op -> ManifestRecord]
    /\ lock \in Proc \cup {NoProc}
    /\ awaited \in Proc \cup {NoProc}
    /\ proc \in [Proc -> ProcRecord]
    /\ own \in [Op -> Nat]
    /\ wrote \subseteq Op
    /\ starts \in [Op -> 0..2]
    /\ stops \in Nat

\* The manifest on disk is ahead of the GPO: while it says that nothing was
\* written, nothing was, whatever process was killed and at whatever point.
\* (A rollback that stops early may save an older copy; it marks it.)
WriteAhead ==
    \A o \in wrote :
        /\ manifest[o].phase # "none"
        /\ manifest[o].phase \in Unwritten \cup {"FAILED_SAFE"}
           => manifest[o].restoreFailed

\* Once an operation has written, its manifest holds a complete backup of the
\* very content that was reviewed, and no process ever loses it again.
SnapshotFaithful ==
    \A o \in wrote :
        /\ manifest[o].backup
        /\ manifest[o].saved = plan[o].content
        /\ manifest[o].before = plan[o].content

\* An operation begins to write at most once, however many processes are
\* started for it and wherever they end.
NotReplayed == \A o \in Op : starts[o] <= 1

\* A saved fingerprint that still matches proves the state it was saved for:
\* the published values and link, or the restored snapshot and link.
FingerprintProves ==
    \A o \in Op :
        LET m == manifest[o]
        IN  /\ m.phase = "PUBLISHED" /\ m.post = gpo.rev =>
                 Item[o] \subseteq gpo.content /\ gpo.linked
            /\ m.phase = "ROLLED_BACK" /\ m.restored = gpo.rev =>
                 gpo.content = m.before /\ gpo.linked = plan[o].linked

\* A restore is only begun over the state that the operation (or the anchor of
\* its batch) left itself, or over the snapshot: no change of anybody else is
\* overwritten (docs/ARCHITECTURE.md:35, "External changes block automatic
\* rollback").
RestoreLosesNothing ==
    [][\A w \in Proc :
         proc[w].pc = "compare" /\ proc'[w].pc = "access" =>
            \/ gpo.rev = own[Basis(w)]
            \/ Restored(OpOf(w), proc[w].m)]_vars

\* Where a process may change the GPO.
Writing == {"writing", "linking", "marking", "checking", "publishing"}
Restoring == {"access", "import", "relink", "readback", "restored"}

\* What a process may do to the GPO at its stage; only a restore can rest on
\* the work of another operation, the anchor of its batch.
NoRole == [op |-> NoOp, basis |-> NoOp, does |-> "nothing"]
Role(w) ==
    IF proc[w].pc \in Writing
    THEN [op |-> OpOf(w), basis |-> OpOf(w), does |-> "apply"]
    ELSE IF proc[w].pc \in Restoring
    THEN [op |-> OpOf(w), does |-> "restore",
          basis |-> IF proc[w].anchor = NoOp THEN OpOf(w) ELSE proc[w].anchor]
    ELSE NoRole
Begun == {o \in Op : starts[o] # 0}
Writer == IF lock = NoProc THEN NoRole ELSE Role(lock)

\* What the program may do to the GPO (ProtectedGpo), whatever processes were
\* given up on, killed or started again: the lock admits one writer, the last
\* comparison of the fingerprint is what its first write relies on, and a
\* restore puts the reviewed snapshot back, over nobody else's work.
Protected == INSTANCE ProtectedGpo WITH begun <- Begun, writer <- Writer
GpoIsProtected == Protected!ProtectedSpec
=============================================================================
