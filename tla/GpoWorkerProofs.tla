---------------------------- MODULE GpoWorkerProofs ---------------------------
(***************************************************************************)
(* What the manifests on the domain controller say of the GPO, for any     *)
(* operations, values, processes and bounds.                               *)
(***************************************************************************)
EXTENDS GpoWorker, TLAPS

-----------------------------------------------------------------------------
(* The inductive invariant.                                                *)

Early == Unwritten \cup {"FAILED_SAFE"}
Locked == {"preflight", "record", "backup", "recheck", "reconcile", "compare"}
          \cup Writing \cup Restoring

\* A manifest, on disk or as a process remembers it: from BACKED_UP on it has
\* a backup, and the backup is of the reviewed content from the moment that
\* matters: when the operation has begun, or still could.
CopySafe(o, m) ==
    /\ m.phase = "none" => ~m.backup
    /\ m.phase \notin {"none", "BACKUP_STARTED", "FAILED_SAFE"} => m.backup
    /\ m.phase # "none" => plan[o].fp # 0
    /\ m.post # 0 => starts[o] # 0
    /\ m.backup /\ (starts[o] # 0 \/ gpo.rev = plan[o].fp) =>
          m.saved = plan[o].content /\ m.before = plan[o].content

\* A running process: its copy, and what each of its stages relies on.
Sound(p) ==
    /\ p.op \in Op /\ plan[p.op].fp # 0 /\ CopySafe(p.op, p.m)
    /\ p.pc \in {"backup", "recheck"} => starts[p.op] = 0
    /\ p.pc = "backup" =>
          /\ p.m.phase = "BACKUP_STARTED" /\ p.m.post = 0
          /\ gpo.rev = plan[p.op].fp => p.m.before = plan[p.op].content
    /\ p.pc = "recheck" => p.m.phase = "BACKED_UP"
    /\ p.pc \in Writing =>
          starts[p.op] # 0 /\ p.m.phase \in {"WRITING", "PUBLICATION_PENDING"}
    /\ p.pc \in {"locking", "reconcile", "compare"} => p.m.backup
    /\ p.pc \in Restoring => p.m.backup /\ p.m.post # 0
    /\ p.pc = "look" => p.m.phase # "none"
    /\ p.pc = "conclude" => LooksRestored(p.kind, p.m)

\* What may be on disk.
Kept(o, m) ==
    /\ CopySafe(o, m)
    /\ starts[o] # 0 => m.backup /\ (m.phase \in Early => m.restoreFailed)

GpoSound ==
    /\ gpo.rev # 0
    /\ \A o \in Op :
          /\ plan[o] # NoPlan => plan[o].fp # 0
          /\ plan[o].fp <= gpo.rev
          /\ plan[o].fp = gpo.rev => plan[o].content = gpo.content
DiskSound ==
    \A o \in Op : /\ Kept(o, manifest[o]) /\ starts[o] \in {0, 1}
                  /\ o \in wrote => starts[o] # 0
ProcSound ==
    \A w \in Proc :
        LET p == proc[w]
        IN  p.pc # "off" =>
              /\ Sound(p)
              /\ p.pc \in Locked => lock = w
              /\ p.m.phase # "none" => manifest[p.op].phase # "none"
              /\ p.pc = "record" => manifest[p.op].phase = "none"

WorkerInv == TypeOK /\ GpoSound /\ DiskSound /\ ProcSound

\* Nothing is on disk and nothing runs at the start.
LEMMA InitialRecords ==
  /\ NoManifest \in ManifestRecord /\ NoManifest.phase = "none" /\ ~NoManifest.backup
  /\ NoManifest.post = 0 /\ NoManifest.restored = 0
  /\ Off \in ProcRecord /\ Off.pc = "off" /\ Off.m = NoManifest
  /\ NoPlan \in PlanRecord /\ NoPlan.fp = 0
<1>1. NoManifest \in ManifestRecord
  BY DEF NoManifest, ManifestRecord, Phase
<1>2. Off \in ProcRecord
  BY <1>1 DEF Off, ProcRecord, Pc, Kind
<1> QED
  BY <1>1, <1>2 DEF NoManifest, Off, NoPlan, PlanRecord

\* The invariant holds at the start.
LEMMA WorkerInitInv == Init => WorkerInv
<1> SUFFICES ASSUME Init PROVE WorkerInv
  OBVIOUS
<1>1. /\ gpo.rev = 1 /\ gpo.content = {} /\ plan = [o \in Op |-> NoPlan]
      /\ manifest = [o \in Op |-> NoManifest] /\ proc = [w \in Proc |-> Off]
      /\ starts = [o \in Op |-> 0] /\ wrote = {}
  BY DEF Init
<1>2. TypeOK
  <2>1. gpo \in [content : SUBSET Content, linked : BOOLEAN, rev : Nat]
    BY WorkerAssumption DEF Init
  <2> QED
    BY <2>1, InitialRecords DEF Init, TypeOK
<1>3. GpoSound
  BY <1>1, InitialRecords DEF GpoSound
<1>4. DiskSound
  BY <1>1, InitialRecords DEF DiskSound, Kept, CopySafe
<1>5. ProcSound
  BY <1>1, InitialRecords DEF ProcSound
<1> QED
  BY <1>2, <1>3, <1>4, <1>5 DEF WorkerInv

-----------------------------------------------------------------------------
(* Steps of one process that leave the GPO alone.                           *)

\* What is held for a copy stays true while GPO, plans and starts stay.
LEMMA CopiesHeld ==
  ASSUME UNCHANGED <<gpo, plan, starts>>
  PROVE  /\ \A o, m : CopySafe(o, m)' <=> CopySafe(o, m)
         /\ \A o, m : Kept(o, m)' <=> Kept(o, m)
         /\ \A p : Sound(p)' <=> Sound(p)
<1>1. ASSUME NEW o, NEW m PROVE CopySafe(o, m)' <=> CopySafe(o, m)
  BY DEF CopySafe
<1>2. ASSUME NEW o, NEW m PROVE Kept(o, m)' <=> Kept(o, m)
  BY <1>1 DEF Kept
<1>3. ASSUME NEW p PROVE Sound(p)' <=> Sound(p)
  BY <1>1 DEF Sound
<1> QED
  BY <1>1, <1>2, <1>3

\* A process w goes on as p (or ends) and leaves m on disk.
LEMMA MoveStep ==
  ASSUME WorkerInv, NEW w \in Proc, NEW o \in Op,
         NEW p \in ProcRecord, NEW m \in ManifestRecord,
         proc' = [proc EXCEPT ![w] = p], manifest' = [manifest EXCEPT ![o] = m],
         UNCHANGED <<gpo, plan, own, wrote, starts>>, stops' \in Nat,
         lock' \in Proc \cup {NoProc}, lock' = lock \/ lock \in {NoProc, w},
         awaited' \in Proc \cup {NoProc},
         \/ p.pc = "off"
         \/ /\ p.op = o /\ Sound(p) /\ (p.pc \in Locked => lock' = w)
            /\ p.m.phase # "none" => m.phase # "none"
            /\ p.pc = "record" => m.phase = "none",
         Kept(o, m),
         manifest[o].phase # "none" => m.phase # "none",
         manifest[o].phase = "none" /\ m.phase # "none" => lock = w
  PROVE  WorkerInv'
<1>1. /\ proc \in [Proc -> ProcRecord] /\ manifest \in [Op -> ManifestRecord]
  BY DEF WorkerInv, TypeOK
<1>2. /\ proc' \in [Proc -> ProcRecord] /\ manifest' \in [Op -> ManifestRecord]
      /\ proc'[w] = p /\ \A v \in Proc \ {w} : proc'[v] = proc[v]
      /\ manifest'[o] = m /\ \A q \in Op \ {o} : manifest'[q] = manifest[q]
  BY <1>1
<1>3. TypeOK'
  BY <1>2 DEF WorkerInv, TypeOK
<1>4. GpoSound'
  BY DEF WorkerInv, GpoSound
<1>5. DiskSound'
  <2> SUFFICES ASSUME NEW q \in Op
               PROVE  /\ Kept(q, manifest[q])' /\ starts'[q] \in {0, 1}
                      /\ q \in wrote' => starts'[q] # 0
    BY DEF DiskSound
  <2>1. Kept(q, manifest'[q])
    BY <1>2 DEF WorkerInv, DiskSound
  <2> QED
    BY <2>1, CopiesHeld DEF WorkerInv, DiskSound
<1>6. ProcSound'
  <2> SUFFICES ASSUME NEW v \in Proc, proc'[v].pc # "off"
               PROVE  /\ Sound(proc[v])'
                      /\ proc'[v].pc \in Locked => lock' = v
                      /\ proc'[v].m.phase # "none" =>
                            manifest'[proc'[v].op].phase # "none"
                      /\ proc'[v].pc = "record" => manifest'[proc'[v].op].phase = "none"
    BY DEF ProcSound
  <2>1. CASE v = w
    BY <1>2, <2>1, CopiesHeld
  <2>2. CASE v # w
    <3>1. /\ proc'[v] = proc[v] /\ Sound(proc[v]) /\ proc[v].op \in Op
          /\ proc[v].pc \in Locked => lock = v
          /\ proc[v].m.phase # "none" => manifest[proc[v].op].phase # "none"
          /\ proc[v].pc = "record" => manifest[proc[v].op].phase = "none"
      BY <1>2, <2>2 DEF WorkerInv, ProcSound, Sound
    <3>2. v # NoProc
      BY WorkerAssumption
    <3>3. proc[v].pc \in Locked => lock' = v
      BY <2>2, <3>1, <3>2
    <3>4. proc[v].m.phase # "none" => manifest'[proc[v].op].phase # "none"
      BY <1>2, <3>1
    <3>5. proc[v].pc = "record" => manifest'[proc[v].op].phase = "none"
      <4>1. "record" \in Locked
        BY DEF Locked
      <4> QED
        BY <1>2, <2>2, <3>1, <4>1
    <3> QED
      BY <3>1, <3>3, <3>4, <3>5, CopiesHeld
  <2> QED
    BY <2>1, <2>2
<1> QED
  BY <1>3, <1>4, <1>5, <1>6 DEF WorkerInv

\* The same for a process that was running and is not stopped from outside.
LEMMA QuietStep ==
  ASSUME WorkerInv, NEW w \in Proc, proc[w].pc # "off", NEW o \in Op, o = proc[w].op,
         NEW p \in ProcRecord, NEW m \in ManifestRecord,
         proc' = [proc EXCEPT ![w] = p], manifest' = [manifest EXCEPT ![o] = m],
         UNCHANGED <<gpo, plan, own, wrote, starts, stops>>,
         lock' \in Proc \cup {NoProc}, lock' = lock \/ lock \in {NoProc, w},
         awaited' \in Proc \cup {NoProc},
         \/ p.pc = "off"
         \/ /\ p.op = o /\ Sound(p) /\ (p.pc \in Locked => lock' = w)
            /\ p.m.phase # "none" => m.phase # "none"
            /\ p.pc = "record" => m.phase = "none",
         Kept(o, m),
         manifest[o].phase # "none" => m.phase # "none",
         manifest[o].phase = "none" /\ m.phase # "none" => lock = w
  PROVE  WorkerInv'
<1>1. stops' \in Nat
  BY DEF WorkerInv, TypeOK
<1> QED
  BY <1>1, MoveStep

\* What is known of a process that runs.
LEMMA RunningFacts ==
  ASSUME WorkerInv, NEW w \in Proc, proc[w].pc # "off"
  PROVE  /\ proc[w] \in ProcRecord /\ proc[w].m \in ManifestRecord
         /\ proc[w].op \in Op /\ Sound(proc[w]) /\ CopySafe(proc[w].op, proc[w].m)
         /\ manifest[proc[w].op] \in ManifestRecord
         /\ Kept(proc[w].op, manifest[proc[w].op])
         /\ CopySafe(proc[w].op, manifest[proc[w].op])
         /\ manifest = [manifest EXCEPT ![proc[w].op] = manifest[proc[w].op]]
         /\ proc[w].pc \in Locked => lock = w
         /\ proc[w].m.phase # "none" => manifest[proc[w].op].phase # "none"
         /\ proc[w].pc = "record" => manifest[proc[w].op].phase = "none"
         /\ lock \in Proc \cup {NoProc} /\ awaited \in Proc \cup {NoProc}
<1>1. proc[w] \in ProcRecord /\ manifest \in [Op -> ManifestRecord]
  BY DEF WorkerInv, TypeOK
<1>2. proc[w].m \in ManifestRecord
  BY <1>1 DEF ProcRecord
<1>3. Sound(proc[w])
  BY DEF WorkerInv, ProcSound
<1>4. proc[w].op \in Op /\ CopySafe(proc[w].op, proc[w].m)
  BY <1>3 DEF Sound
<1>5. Kept(proc[w].op, manifest[proc[w].op])
  BY <1>4 DEF WorkerInv, DiskSound
<1> QED
  BY <1>1, <1>2, <1>3, <1>4, <1>5 DEF WorkerInv, TypeOK, ProcSound, Kept

\* A process that goes on without a save.
LEMMA GotoStep ==
  ASSUME WorkerInv, NEW w \in Proc, proc[w].pc # "off", NEW p \in ProcRecord,
         proc' = [proc EXCEPT ![w] = p], UNCHANGED manifest,
         UNCHANGED <<gpo, plan, own, wrote, starts, stops>>, UNCHANGED awaited,
         lock' = lock \/ (lock = NoProc /\ lock' = w),
         p.op = proc[w].op, Sound(p), p.pc \in Locked => lock' = w,
         p.m.phase # "none" => manifest[proc[w].op].phase # "none",
         p.pc = "record" => manifest[proc[w].op].phase = "none"
  PROVE  WorkerInv'
  BY RunningFacts, QuietStep

\* A process that saves its copy and goes on, under the lock.
LEMMA SaveStep ==
  ASSUME WorkerInv, NEW w \in Proc, proc[w].pc # "off", NEW m \in ManifestRecord, NEW x \in Pc,
         SaveAndGoto(w, m, x), UNCHANGED <<gpo, plan, own, wrote, starts, stops>>,
         UNCHANGED <<lock, awaited>>, lock = w,
         Sound([proc[w] EXCEPT !.m = m, !.pc = x]), Kept(proc[w].op, m),
         m.phase # "none", x # "record"
  PROVE  WorkerInv'
<1> DEFINE p == [proc[w] EXCEPT !.m = m, !.pc = x]
<1>1. p \in ProcRecord /\ p.op = proc[w].op /\ p.pc = x /\ p.m = m
  BY RunningFacts DEF ProcRecord
<1>2. proc' = [proc EXCEPT ![w] = p] /\ manifest' = [manifest EXCEPT ![proc[w].op] = m]
  BY DEF SaveAndGoto, Save, OpOf, WorkerInv, TypeOK
<1>3. Sound(p)
  OBVIOUS
<1> HIDE DEF p
<1> QED
  BY <1>1, <1>2, <1>3, RunningFacts, QuietStep

\* A process that ends, leaving m on disk.
LEMMA EndStep ==
  ASSUME WorkerInv, NEW w \in Proc, proc[w].pc # "off", NEW m \in ManifestRecord,
         Ends(w), manifest' = [manifest EXCEPT ![proc[w].op] = m],
         UNCHANGED <<gpo, plan, own, wrote, starts, stops>>,
         Kept(proc[w].op, m),
         m = manifest[proc[w].op] \/ (m.phase # "none" /\ proc[w].m.phase # "none")
  PROVE  WorkerInv'
<1> DEFINE p == Off
           o == proc[w].op
<1>1. /\ proc' = [proc EXCEPT ![w] = p] /\ p \in ProcRecord /\ p.pc = "off"
      /\ manifest' = [manifest EXCEPT ![o] = m]
      /\ lock' \in Proc \cup {NoProc} /\ (lock' = lock \/ lock \in {NoProc, w})
      /\ awaited' \in Proc \cup {NoProc}
  BY InitialRecords, RunningFacts DEF Ends
<1>2. /\ o \in Op /\ o = proc[w].op /\ Kept(o, m)
      /\ manifest[o].phase # "none" => m.phase # "none"
      /\ manifest[o].phase = "none" /\ m.phase # "none" => lock = w
  BY RunningFacts
<1> HIDE DEF p, o
<1> QED
  BY <1>1, <1>2, QuietStep

\* A process that ends and saves nothing.
LEMMA QuitStep ==
  ASSUME WorkerInv, NEW w \in Proc, proc[w].pc # "off", Ends(w), UNCHANGED manifest,
         UNCHANGED <<gpo, plan, own, wrote, starts, stops>>
  PROVE  WorkerInv'
  BY RunningFacts, EndStep

-----------------------------------------------------------------------------
(* gpoApply.                                                               *)

\* The lock is taken, or the process ends.
LEMMA ApplyLocksStep ==
  ASSUME WorkerInv, NEW w \in Proc, ApplyLocks(w)
  PROVE  WorkerInv'
<1>1. proc[w].pc = "start" /\ UNCHANGED manifest
      /\ UNCHANGED <<gpo, plan, own, wrote, starts, stops>>
  BY DEF ApplyLocks, At, Quiet
<1>2. CASE Ends(w)
  BY <1>1, <1>2, QuitStep
<1>3. CASE lock = NoProc /\ lock' = w /\ Goto(w, "preflight") /\ UNCHANGED awaited
  <2> DEFINE p == [proc[w] EXCEPT !.pc = "preflight"]
  <2>1. p \in ProcRecord /\ p.pc = "preflight" /\ p.op = proc[w].op /\ p.m = proc[w].m
    BY <1>1, RunningFacts DEF ProcRecord, Pc
  <2>2. proc' = [proc EXCEPT ![w] = p]
    BY <1>3 DEF Goto, WorkerInv, TypeOK
  <2> HIDE DEF p
  <2>3. Sound(p)
    BY <1>1, <2>1, RunningFacts DEF Sound, Writing, Restoring
  <2> QED
    BY <1>1, <1>3, <2>1, <2>2, <2>3, RunningFacts, GotoStep
<1> QED
  BY <1>2, <1>3 DEF ApplyLocks

\* Only an operation without a manifest goes on.
LEMMA ApplyPreflightStep ==
  ASSUME WorkerInv, NEW w \in Proc, ApplyPreflight(w)
  PROVE  WorkerInv'
<1>1. proc[w].pc = "preflight" /\ UNCHANGED manifest
      /\ UNCHANGED <<gpo, plan, own, wrote, starts, stops>>
  BY DEF ApplyPreflight, At, Quiet
<1>2. CASE Ends(w)
  BY <1>1, <1>2, QuitStep
<1>3. CASE Startable(OpOf(w)) /\ Goto(w, "record") /\ Running(w)
  <2> DEFINE p == [proc[w] EXCEPT !.pc = "record"]
  <2>1. p \in ProcRecord /\ p.pc = "record" /\ p.op = proc[w].op /\ p.m = proc[w].m
    BY <1>1, RunningFacts DEF ProcRecord, Pc
  <2>2. proc' = [proc EXCEPT ![w] = p] /\ UNCHANGED <<lock, awaited>>
    BY <1>3 DEF Goto, Running, WorkerInv, TypeOK
  <2> HIDE DEF p
  <2>3. Sound(p)
    BY <1>1, <2>1, RunningFacts DEF Sound, Writing, Restoring
  <2>4. manifest[proc[w].op].phase = "none" /\ lock = w
    BY <1>1, <1>3, RunningFacts DEF Startable, OpOf, Locked
  <2> QED
    BY <1>1, <2>1, <2>2, <2>3, <2>4, RunningFacts, GotoStep
<1> QED
  BY <1>2, <1>3 DEF ApplyPreflight

\* The first record of an operation.
LEMMA ApplyRecordsStep ==
  ASSUME WorkerInv, NEW w \in Proc, ApplyRecords(w)
  PROVE  WorkerInv'
<1> DEFINE o == proc[w].op
           m == [NoManifest EXCEPT !.phase = "BACKUP_STARTED", !.before = gpo.content]
           p == [proc[w] EXCEPT !.m = m, !.pc = "backup"]
<1>1. /\ proc[w].pc = "record" /\ SaveAndGoto(w, m, "backup")
      /\ UNCHANGED <<gpo, plan, own, wrote, starts, stops>> /\ UNCHANGED <<lock, awaited>>
  BY DEF ApplyRecords, At, Quiet, Running
<1>2. gpo.content \in SUBSET Content
  BY DEF WorkerInv, TypeOK
<1>3. /\ m \in ManifestRecord /\ m.phase = "BACKUP_STARTED" /\ m.before = gpo.content
      /\ m.backup = FALSE /\ m.post = 0
  BY <1>2 DEF NoManifest, ManifestRecord, Phase
<1>4. starts[o] = 0 /\ o \in Op /\ plan[o].fp # 0 /\ lock = w
  <2>1. manifest[o].phase = "none" /\ Kept(o, manifest[o]) /\ o \in Op /\ lock = w
    BY <1>1, RunningFacts DEF Locked
  <2> QED
    BY <1>1, <2>1, RunningFacts DEF Kept, CopySafe, Sound
<1>5. p.op = o /\ p.pc = "backup" /\ p.m = m
  BY <1>1, RunningFacts DEF ProcRecord
<1> HIDE DEF m
<1>6. CopySafe(o, m) /\ Kept(o, m)
  BY <1>3, <1>4 DEF Kept, CopySafe, Early, Unwritten
<1> HIDE DEF p
<1>7. gpo.rev = plan[o].fp => m.before = plan[o].content
  BY <1>3, <1>4 DEF WorkerInv, GpoSound
<1> HIDE DEF o
<1>8. Sound(p)
  BY <1>3, <1>4, <1>5, <1>6, <1>7 DEF Sound, Writing, Restoring
<1> QED
  BY <1>1, <1>3, <1>4, <1>6, <1>8, SaveStep DEF Pc, o, p

\* The backup is of what the plan was made for, if the plan still stands.
LEMMA ApplyBacksUpStep ==
  ASSUME WorkerInv, NEW w \in Proc, ApplyBacksUp(w)
  PROVE  WorkerInv'
<1> DEFINE o == proc[w].op
           m == [proc[w].m EXCEPT !.phase = "BACKED_UP", !.backup = TRUE,
                                  !.saved = gpo.content]
           p == [proc[w] EXCEPT !.m = m, !.pc = "recheck"]
<1>1. /\ proc[w].pc = "backup" /\ SaveAndGoto(w, m, "recheck")
      /\ UNCHANGED <<gpo, plan, own, wrote, starts, stops>> /\ UNCHANGED <<lock, awaited>>
  BY DEF ApplyBacksUp, At, Quiet, Running
<1>2. gpo.content \in SUBSET Content
  BY DEF WorkerInv, TypeOK
<1>3. /\ m \in ManifestRecord /\ m.phase = "BACKED_UP" /\ m.before = proc[w].m.before
      /\ m.backup = TRUE /\ m.saved = gpo.content /\ m.post = proc[w].m.post
  BY <1>1, <1>2, RunningFacts DEF ManifestRecord, Phase
<1>4. /\ starts[o] = 0 /\ o \in Op /\ plan[o].fp # 0 /\ lock = w /\ proc[w].m.post = 0
      /\ gpo.rev = plan[o].fp => proc[w].m.before = plan[o].content
  BY <1>1, RunningFacts DEF Sound, Locked
<1>5. p.op = o /\ p.pc = "recheck" /\ p.m = m
  BY <1>1, RunningFacts DEF ProcRecord
<1> HIDE DEF m
<1>6. gpo.rev = plan[o].fp => gpo.content = plan[o].content
  BY <1>4 DEF WorkerInv, GpoSound
<1>7. CopySafe(o, m) /\ Kept(o, m)
  BY <1>3, <1>4, <1>6 DEF Kept, CopySafe, Early, Unwritten
<1> HIDE DEF o, p
<1>8. Sound(p)
  BY <1>3, <1>4, <1>5, <1>7 DEF Sound, Writing, Restoring
<1> QED
  BY <1>1, <1>3, <1>4, <1>7, <1>8, SaveStep DEF Pc, o, p

\* The operation begins: from here on every copy with a backup has the
\* reviewed content, because the plan stood when the first write was allowed.
LEMMA BeginStep ==
  ASSUME WorkerInv, NEW w \in Proc, proc[w].pc = "recheck",
         NEW o \in Op, o = proc[w].op, NEW m \in ManifestRecord, NEW p \in ProcRecord,
         gpo.rev = plan[o].fp, UNCHANGED <<gpo, plan, own, wrote, stops, lock, awaited>>,
         proc' = [proc EXCEPT ![w] = p], manifest' = [manifest EXCEPT ![o] = m],
         starts' = [starts EXCEPT ![o] = 1],
         p.op = o, p.pc = "writing", p.m = m, m.phase = "WRITING",
         m.backup = proc[w].m.backup, m.before = proc[w].m.before,
         m.saved = proc[w].m.saved, m.post = proc[w].m.post
  PROVE  WorkerInv'
<1>3. /\ starts[o] = 0 /\ plan[o].fp # 0 /\ lock = w
      /\ proc[w].m.phase = "BACKED_UP" /\ CopySafe(o, proc[w].m)
      /\ manifest[o].phase # "none"
  BY RunningFacts DEF Sound, Locked
<1>6. /\ proc \in [Proc -> ProcRecord] /\ manifest \in [Op -> ManifestRecord]
      /\ starts \in [Op -> 0..2]
  BY DEF WorkerInv, TypeOK
<1>8. /\ proc' \in [Proc -> ProcRecord] /\ manifest' \in [Op -> ManifestRecord]
      /\ starts' \in [Op -> 0..2]
      /\ proc'[w] = p /\ \A v \in Proc \ {w} : proc'[v] = proc[v]
      /\ manifest'[o] = m /\ starts'[o] = 1
      /\ \A q \in Op \ {o} : manifest'[q] = manifest[q] /\ starts'[q] = starts[q]
  BY <1>6
<1>9. TypeOK' /\ GpoSound'
  BY <1>8 DEF WorkerInv, TypeOK, GpoSound
\* What was safe to keep stays so, for this operation as the plan stands.
<1>10. ASSUME NEW q \in Op, NEW c, CopySafe(q, c) PROVE CopySafe(q, c)'
  <2>1. CASE q = o
    <3>1. starts'[q] # 0
      BY <1>8, <2>1
    <3>2. c.backup => c.saved = plan[q].content /\ c.before = plan[q].content
      BY <1>10, <2>1 DEF CopySafe
    <3> QED
      BY <1>10, <3>1, <3>2 DEF CopySafe
  <2>2. CASE q # o
    BY <1>8, <1>10, <2>2 DEF CopySafe
  <2> QED
    BY <2>1, <2>2
<1>11. CopySafe(o, m)
  BY <1>3 DEF CopySafe, Early, Unwritten
<1>12. DiskSound'
  <2> SUFFICES ASSUME NEW q \in Op
               PROVE  /\ Kept(q, manifest[q])' /\ starts'[q] \in {0, 1}
                      /\ q \in wrote' => starts'[q] # 0
    BY DEF DiskSound
  <2>1. CASE q = o
    <3>1. m.backup /\ m.phase \notin Early
      BY <1>3 DEF CopySafe, Early, Unwritten
    <3>2. CopySafe(q, manifest[q])'
      BY <1>3, <1>8, <1>10, <1>11, <2>1
    <3> QED
      BY <1>8, <2>1, <3>1, <3>2 DEF Kept
  <2>2. CASE q # o
    <3>1. CopySafe(q, manifest[q])
      BY DEF WorkerInv, DiskSound, Kept
    <3>2. CopySafe(q, manifest[q])'
      BY <1>8, <1>10, <2>2, <3>1
    <3> QED
      BY <1>8, <2>2, <3>2 DEF WorkerInv, DiskSound, Kept
  <2> QED
    BY <2>1, <2>2
<1>13. ProcSound'
  <2> SUFFICES ASSUME NEW v \in Proc, proc'[v].pc # "off"
               PROVE  /\ Sound(proc[v])'
                      /\ proc'[v].pc \in Locked => lock' = v
                      /\ proc'[v].m.phase # "none" =>
                            manifest'[proc'[v].op].phase # "none"
                      /\ proc'[v].pc = "record" => manifest'[proc'[v].op].phase = "none"
    BY DEF ProcSound
  <2>1. CASE v = w
    <3>1. CopySafe(o, m)'
      BY <1>3, <1>10, <1>11
    <3>2. Sound(p)'
      BY <1>3, <1>8, <3>1 DEF Sound, Writing, Restoring
    <3> QED
      BY <1>3, <1>8, <2>1, <3>2
  <2>2. CASE v # w
    <3>1. /\ proc'[v] = proc[v] /\ proc[v].op \in Op /\ Sound(proc[v])
          /\ proc[v].pc \in Locked => lock = v
          /\ proc[v].m.phase # "none" => manifest[proc[v].op].phase # "none"
          /\ proc[v].pc = "record" => manifest[proc[v].op].phase = "none"
      BY <1>8, <2>2 DEF WorkerInv, ProcSound, Sound
    <3>2. proc[v].pc \notin Locked
      BY <1>3, <2>2, <3>1
    <3>3. CopySafe(proc[v].op, proc[v].m)'
      BY <1>10, <3>1 DEF Sound
    <3>4. Sound(proc[v])'
      BY <3>1, <3>2, <3>3 DEF Sound, Locked
    <3>5. proc[v].m.phase # "none" => manifest'[proc[v].op].phase # "none"
      BY <1>8, <3>1
    <3>6. proc[v].pc # "record"
      BY <3>2 DEF Locked
    <3> QED
      BY <3>1, <3>2, <3>4, <3>5, <3>6
  <2> QED
    BY <2>1, <2>2
<1> QED
  BY <1>9, <1>12, <1>13 DEF WorkerInv

\* The manifest says WRITING, its copy taken, before the first value is written.
LEMMA ApplyStartsWritingStep ==
  ASSUME WorkerInv, NEW w \in Proc, ApplyStartsWriting(w)
  PROVE  WorkerInv'
<1> DEFINE o == proc[w].op
           m == [proc[w].m EXCEPT !.phase = "WRITING"]
           p == [proc[w] EXCEPT !.m = m, !.pc = "writing"]
<1>1. /\ proc[w].pc = "recheck" /\ gpo.rev = plan[o].fp /\ SaveAndGoto(w, m, "writing")
      /\ UNCHANGED <<gpo, plan, own, wrote, stops, lock, awaited>>
  BY DEF ApplyStartsWriting, At, Running, OpOf
<1>2. /\ m \in ManifestRecord /\ m.phase = "WRITING" /\ m.backup = proc[w].m.backup
      /\ m.before = proc[w].m.before /\ m.saved = proc[w].m.saved /\ m.post = proc[w].m.post
  BY <1>1, RunningFacts DEF ManifestRecord, Phase
<1>3. starts[o] = 0 /\ o \in Op
  BY <1>1, RunningFacts DEF Sound
<1>4. p \in ProcRecord /\ p.op = o /\ p.pc = "writing" /\ p.m = m
  BY <1>1, <1>2, RunningFacts DEF ProcRecord, Pc
<1>5. starts' = [starts EXCEPT ![o] = 1]
  <2>1. starts' = [starts EXCEPT ![o] = IF starts[o] < 2 THEN starts[o] + 1 ELSE starts[o]]
    BY DEF ApplyStartsWriting, OpOf, WorkerInv, TypeOK
  <2>2. starts[o] < 2 /\ starts[o] + 1 = 1
    BY <1>3
  <2> QED
    BY <2>1, <2>2
<1>6. proc \in [Proc -> ProcRecord] /\ manifest \in [Op -> ManifestRecord]
  BY DEF WorkerInv, TypeOK
<1>7. proc' = [proc EXCEPT ![w] = p] /\ manifest' = [manifest EXCEPT ![o] = m]
  BY <1>1, <1>6 DEF SaveAndGoto, Save, OpOf
<1> HIDE DEF o, m, p
<1>8. o = proc[w].op
  BY DEF o
<1> QED
  BY <1>1, <1>2, <1>3, <1>4, <1>5, <1>7, <1>8, BeginStep

\* A change of the GPO outdates every plan, and nothing that is held depends
\* on more than that.
LEMMA CopiesOutlive ==
  ASSUME WorkerInv, gpo'.rev = gpo.rev + 1, UNCHANGED <<plan, starts>>
  PROVE  /\ \A o \in Op : \A m : CopySafe(o, m) => CopySafe(o, m)'
         /\ \A o \in Op : \A m : Kept(o, m) => Kept(o, m)'
         /\ \A p : Sound(p) => Sound(p)'
         /\ GpoSound'
<1>1. gpo.rev \in Nat /\ \A o \in Op : plan[o].fp \in Nat
  BY DEF WorkerInv, TypeOK, PlanRecord
<1>2. \A o \in Op : plan[o].fp # gpo'.rev /\ plan[o].fp <= gpo'.rev
  BY <1>1 DEF WorkerInv, GpoSound
<1>3. ASSUME NEW o \in Op, NEW m, CopySafe(o, m) PROVE CopySafe(o, m)'
  BY <1>2, <1>3 DEF CopySafe
<1>4. ASSUME NEW o \in Op, NEW m, Kept(o, m) PROVE Kept(o, m)'
  BY <1>3, <1>4 DEF Kept
<1>5. ASSUME NEW p, Sound(p) PROVE Sound(p)'
  BY <1>2, <1>3, <1>5 DEF Sound
<1>6. GpoSound'
  <2>1. gpo'.rev # 0
    BY <1>1
  <2> QED
    BY <1>2, <2>1 DEF WorkerInv, GpoSound
<1> QED
  BY <1>3, <1>4, <1>5, <1>6

\* A process changes the GPO and goes on as p.
LEMMA ChangeStep ==
  ASSUME WorkerInv, NEW w \in Proc, proc[w].pc # "off", NEW p \in ProcRecord,
         proc' = [proc EXCEPT ![w] = p], UNCHANGED <<plan, manifest, lock, awaited, starts, stops>>,
         gpo' \in [content : SUBSET Content, linked : BOOLEAN, rev : Nat],
         gpo'.rev = gpo.rev + 1, own' \in [Op -> Nat],
         wrote' = wrote \/ (wrote' = wrote \cup {proc[w].op} /\ starts[proc[w].op] # 0),
         p.op = proc[w].op, p.m = proc[w].m, Sound(p), p.pc \in Locked => lock = w,
         p.pc # "record"
  PROVE  WorkerInv'
<1>1. /\ proc \in [Proc -> ProcRecord] /\ proc[w].op \in Op
      /\ proc[w].m.phase # "none" => manifest[proc[w].op].phase # "none"
  BY RunningFacts DEF WorkerInv, TypeOK
<1>2. /\ proc' \in [Proc -> ProcRecord]
      /\ proc'[w] = p /\ \A v \in Proc \ {w} : proc'[v] = proc[v]
  BY <1>1
<1>3. TypeOK'
  BY <1>1, <1>2 DEF WorkerInv, TypeOK
<1>4. DiskSound'
  <2> SUFFICES ASSUME NEW q \in Op
               PROVE  /\ Kept(q, manifest[q])' /\ starts'[q] \in {0, 1}
                      /\ q \in wrote' => starts'[q] # 0
    BY DEF DiskSound
  <2>1. Kept(q, manifest[q])
    BY DEF WorkerInv, DiskSound
  <2>2. Kept(q, manifest[q])'
    BY <2>1, CopiesOutlive
  <2> QED
    BY <2>2 DEF WorkerInv, DiskSound
<1>5. ProcSound'
  <2> SUFFICES ASSUME NEW v \in Proc, proc'[v].pc # "off"
               PROVE  /\ Sound(proc[v])'
                      /\ proc'[v].pc \in Locked => lock' = v
                      /\ proc'[v].m.phase # "none" =>
                            manifest'[proc'[v].op].phase # "none"
                      /\ proc'[v].pc = "record" => manifest'[proc'[v].op].phase = "none"
    BY DEF ProcSound
  <2>1. CASE v = w
    <3>1. Sound(p)'
      BY CopiesOutlive
    <3> QED
      BY <1>1, <1>2, <2>1, <3>1
  <2>2. CASE v # w
    <3>1. /\ proc'[v] = proc[v] /\ Sound(proc[v])
          /\ proc[v].pc \in Locked => lock = v
          /\ proc[v].m.phase # "none" => manifest[proc[v].op].phase # "none"
          /\ proc[v].pc = "record" => manifest[proc[v].op].phase = "none"
      BY <1>2, <2>2 DEF WorkerInv, ProcSound
    <3>2. Sound(proc[v])'
      BY <3>1, CopiesOutlive
    <3> QED
      BY <3>1, <3>2
  <2> QED
    BY <2>1, <2>2
<1> QED
  BY <1>3, <1>4, <1>5, CopiesOutlive DEF WorkerInv

\* What a change makes of the GPO.
LEMMA ChangesFacts ==
  ASSUME WorkerInv, NEW w \in Proc, proc[w].pc # "off", NEW a,
         NEW content \in SUBSET Content, NEW linked \in BOOLEAN,
         Changes(w, a, content, linked)
  PROVE  /\ gpo' \in [content : SUBSET Content, linked : BOOLEAN, rev : Nat]
         /\ gpo'.rev = gpo.rev + 1 /\ gpo'.content = content /\ gpo'.linked = linked
         /\ own' \in [Op -> Nat]
<1>1. gpo.rev \in Nat /\ own \in [Op -> Nat]
  BY DEF WorkerInv, TypeOK
<1>2. gpo.rev + 1 \in Nat
  BY <1>1
<1>3. gpo' = [content |-> content, linked |-> linked, rev |-> gpo.rev + 1]
  BY DEF Changes
<1> DEFINE n == gpo.rev + 1
<1>4. own' = own \/ own' = [own EXCEPT ![proc[w].op] = n]
  BY DEF Changes, OpOf
<1>5. n \in Nat
  BY <1>2
<1> HIDE DEF n
<1>6. own' \in [Op -> Nat]
  BY <1>1, <1>4, <1>5
<1> QED
  BY <1>2, <1>3, <1>6

\* The next missing value is written; with none missing the link is next.
LEMMA ApplyWritesStep ==
  ASSUME WorkerInv, NEW w \in Proc, ApplyWrites(w)
  PROVE  WorkerInv'
<1>1. /\ proc[w].pc = "writing" /\ UNCHANGED <<manifest, lock, awaited>>
  BY DEF ApplyWrites, At, Running
<1>2. starts[proc[w].op] # 0 /\ proc[w].op \in Op /\ lock = w
  BY <1>1, RunningFacts DEF Sound, Writing, Locked
<1>3. CASE Goto(w, "linking") /\ Quiet
  <2> DEFINE p == [proc[w] EXCEPT !.pc = "linking"]
  <2>1. p \in ProcRecord /\ p.pc = "linking" /\ p.op = proc[w].op /\ p.m = proc[w].m
    BY <1>1, RunningFacts DEF ProcRecord, Pc
  <2>2. proc' = [proc EXCEPT ![w] = p] /\ UNCHANGED <<gpo, plan, own, wrote, starts, stops>>
    BY <1>3 DEF Goto, Quiet, WorkerInv, TypeOK
  <2> HIDE DEF p
  <2>3. Sound(p)
    BY <1>1, <2>1, RunningFacts DEF Sound, Writing, Restoring
  <2> QED
    BY <1>1, <1>2, <2>1, <2>2, <2>3, RunningFacts, GotoStep
<1>4. CASE /\ \E i \in Item[proc[w].op] : Changes(w, proc[w].op, gpo.content \cup {i}, gpo.linked)
           /\ wrote' = wrote \cup {proc[w].op} /\ UNCHANGED <<plan, starts, stops, proc>>
  <2>1. PICK i \in Item[proc[w].op] :
          Changes(w, proc[w].op, gpo.content \cup {i}, gpo.linked)
    BY <1>4
  <2>2. gpo.content \cup {i} \in SUBSET Content /\ gpo.linked \in BOOLEAN
    BY <1>2 DEF WorkerInv, TypeOK, Content
  <2>3. /\ gpo' \in [content : SUBSET Content, linked : BOOLEAN, rev : Nat]
        /\ gpo'.rev = gpo.rev + 1 /\ own' \in [Op -> Nat]
    BY <1>1, <2>1, <2>2, ChangesFacts
  <2>4. proc' = [proc EXCEPT ![w] = proc[w]]
    BY <1>4 DEF WorkerInv, TypeOK
  <2> QED
    BY <1>1, <1>2, <1>4, <2>3, <2>4, RunningFacts, ChangeStep
<1> QED
  <2>1. Item[proc[w].op] \ gpo.content \subseteq Item[proc[w].op]
    OBVIOUS
  <2> QED
    BY <1>3, <1>4, <2>1 DEF ApplyWrites, OpOf

\* A process that changes the link, if it has to, and goes to stage x.
LEMMA LinkStep ==
  ASSUME WorkerInv, NEW w \in Proc, proc[w].pc # "off", NEW x \in Pc, NEW linked \in BOOLEAN,
         Goto(w, x), UNCHANGED <<manifest, lock, awaited>>, lock = w, x # "record",
         Sound([proc[w] EXCEPT !.pc = x]),
         \/ Quiet
         \/ /\ Changes(w, proc[w].op, gpo.content, linked) /\ UNCHANGED <<plan, starts, stops>>
            /\ (wrote' = wrote \/
                  (wrote' = wrote \cup {proc[w].op} /\ starts[proc[w].op] # 0))
  PROVE  WorkerInv'
<1> DEFINE p == [proc[w] EXCEPT !.pc = x]
<1>1. p \in ProcRecord /\ p.pc = x /\ p.op = proc[w].op /\ p.m = proc[w].m
  BY RunningFacts DEF ProcRecord
<1>2. proc' = [proc EXCEPT ![w] = p]
  BY DEF Goto, WorkerInv, TypeOK
<1>3. Sound(p)
  OBVIOUS
<1> HIDE DEF p
<1>4. CASE Quiet
  <2>1. UNCHANGED <<gpo, plan, own, wrote, starts, stops>>
    BY <1>4 DEF Quiet
  <2> QED
    BY <1>1, <1>2, <1>3, <2>1, RunningFacts, GotoStep
<1>5. CASE /\ Changes(w, proc[w].op, gpo.content, linked) /\ UNCHANGED <<plan, starts, stops>>
           /\ (wrote' = wrote \/
                 (wrote' = wrote \cup {proc[w].op} /\ starts[proc[w].op] # 0))
  <2>1. gpo.content \in SUBSET Content
    BY DEF WorkerInv, TypeOK
  <2>2. /\ gpo' \in [content : SUBSET Content, linked : BOOLEAN, rev : Nat]
        /\ gpo'.rev = gpo.rev + 1 /\ own' \in [Op -> Nat]
    BY <1>5, <2>1, ChangesFacts
  <2> QED
    BY <1>1, <1>2, <1>3, <1>5, <2>2, ChangeStep
<1> QED
  BY <1>4, <1>5

\* Linking changes the GPO or leaves it; the manifest stays WRITING.
LEMMA ApplyLinksStep ==
  ASSUME WorkerInv, NEW w \in Proc, ApplyLinks(w)
  PROVE  WorkerInv'
<1>1. proc[w].pc = "linking" /\ Goto(w, "marking") /\ UNCHANGED <<manifest, lock, awaited>>
  BY DEF ApplyLinks, At, Running
<1>2. starts[proc[w].op] # 0 /\ lock = w
  BY <1>1, RunningFacts DEF Sound, Writing, Locked
<1>3. \/ Quiet
      \/ /\ Changes(w, proc[w].op, gpo.content, TRUE) /\ UNCHANGED <<plan, starts, stops>>
         /\ wrote' = wrote \cup {proc[w].op}
  BY DEF ApplyLinks, OpOf
<1> DEFINE p == [proc[w] EXCEPT !.pc = "marking"]
<1>4. p \in ProcRecord /\ p.pc = "marking" /\ p.op = proc[w].op /\ p.m = proc[w].m
  BY <1>1, RunningFacts DEF ProcRecord, Pc
<1> HIDE DEF p
<1>5. Sound(p)
  BY <1>1, <1>4, RunningFacts DEF Sound, Writing, Restoring
<1> QED
  BY <1>1, <1>2, <1>3, <1>5, LinkStep DEF p, Pc

\* The durable checkpoint.
LEMMA ApplyMarksStep ==
  ASSUME WorkerInv, NEW w \in Proc, ApplyMarks(w)
  PROVE  WorkerInv'
<1> DEFINE o == proc[w].op
           m == [proc[w].m EXCEPT !.phase = "PUBLICATION_PENDING", !.post = gpo.rev]
           p == [proc[w] EXCEPT !.m = m, !.pc = "checking"]
<1>1. /\ proc[w].pc = "marking" /\ SaveAndGoto(w, m, "checking")
      /\ UNCHANGED <<gpo, plan, own, wrote, starts, stops>> /\ UNCHANGED <<lock, awaited>>
  BY DEF ApplyMarks, At, Quiet, Running
<1>2. gpo.rev \in Nat
  BY DEF WorkerInv, TypeOK
<1>3. /\ m \in ManifestRecord /\ m.phase = "PUBLICATION_PENDING" /\ m.backup = proc[w].m.backup
      /\ m.before = proc[w].m.before /\ m.saved = proc[w].m.saved
  BY <1>1, <1>2, RunningFacts DEF ManifestRecord, Phase
<1>4. /\ starts[o] # 0 /\ o \in Op /\ lock = w /\ CopySafe(o, proc[w].m) /\ plan[o].fp # 0
      /\ proc[w].m.phase \in {"WRITING", "PUBLICATION_PENDING"}
  BY <1>1, RunningFacts DEF Sound, Writing, Locked
<1>5. p.op = o /\ p.pc = "checking" /\ p.m = m
  BY <1>1, RunningFacts DEF ProcRecord
<1> HIDE DEF m, p, o
<1>6. CopySafe(o, m)
  BY <1>3, <1>4 DEF CopySafe
<1>7. m.backup /\ m.phase \notin Early
  BY <1>3, <1>6 DEF CopySafe, Early, Unwritten
<1>8. Kept(o, m)
  BY <1>6, <1>7 DEF Kept
<1>9. Sound(p)
  BY <1>3, <1>4, <1>5, <1>6 DEF Sound, Writing, Restoring
<1> QED
  BY <1>1, <1>3, <1>4, <1>8, <1>9, SaveStep DEF Pc, o, p

\* The health check writes nothing: the manifest stays what was saved.
LEMMA ApplyChecksStep ==
  ASSUME WorkerInv, NEW w \in Proc, ApplyChecks(w)
  PROVE  WorkerInv'
<1>1. /\ proc[w].pc = "checking" /\ UNCHANGED <<manifest, lock, awaited>>
      /\ UNCHANGED <<gpo, plan, own, wrote, starts, stops>>
  BY DEF ApplyChecks, At, Quiet, Running
<1>2. PICK seen \in {FALSE, Applied(OpOf(w))} :
        proc' = [proc EXCEPT ![w].seen = seen, ![w].pc = "publishing"]
  BY DEF ApplyChecks
<1>3. seen \in BOOLEAN
  BY <1>2 DEF Applied, WorkerInv, TypeOK
<1> DEFINE p == [proc[w] EXCEPT !.seen = seen, !.pc = "publishing"]
<1>4. p \in ProcRecord /\ p.pc = "publishing" /\ p.op = proc[w].op /\ p.m = proc[w].m
  BY <1>1, <1>3, RunningFacts DEF ProcRecord, Pc
<1>5. proc' = [proc EXCEPT ![w] = p]
  BY <1>2 DEF WorkerInv, TypeOK
<1> HIDE DEF p
<1>6. Sound(p) /\ lock = w
  BY <1>1, <1>4, RunningFacts DEF Sound, Writing, Restoring, Locked
<1> QED
  BY <1>1, <1>4, <1>5, <1>6, RunningFacts, GotoStep

\* The apply ends with a publication, a mismatch or, on an exception, with what
\* the stage it had reached allows it to say.
LEMMA ApplyEndsStep ==
  ASSUME WorkerInv, NEW w \in Proc, ApplyPublishes(w) \/ ApplyFails(w)
  PROVE  WorkerInv'
<1> DEFINE o == proc[w].op
<1>1. proc[w].pc # "off" /\ proc[w].pc \in {"backup", "recheck"} \cup Writing /\ Ends(w)
      /\ UNCHANGED <<gpo, plan, own, wrote, starts, stops>>
  BY DEF ApplyPublishes, ApplyFails, At, Quiet, Writing
<1>2. gpo.rev \in Nat
  BY DEF WorkerInv, TypeOK
<1>3. CASE ApplyPublishes(w)
  <2> DEFINE m == [proc[w].m EXCEPT !.post = gpo.rev,
                     !.phase = IF proc[w].seen THEN "PUBLISHED" ELSE "VERIFY_MISMATCH"]
  <2>1. proc[w].pc = "publishing" /\ manifest' = [manifest EXCEPT ![o] = m]
    BY <1>3 DEF ApplyPublishes, At, Save, OpOf
  <2>2. /\ m \in ManifestRecord /\ m.phase \in {"PUBLISHED", "VERIFY_MISMATCH"}
        /\ m.backup = proc[w].m.backup
        /\ m.before = proc[w].m.before /\ m.saved = proc[w].m.saved
    BY <1>1, <1>2, RunningFacts DEF ManifestRecord, Phase
  <2>3. /\ starts[o] # 0 /\ o \in Op /\ CopySafe(o, proc[w].m) /\ plan[o].fp # 0
        /\ proc[w].m.phase \in {"WRITING", "PUBLICATION_PENDING"}
    BY <2>1, RunningFacts DEF Sound, Writing
  <2> HIDE DEF m, o
  <2>4. CopySafe(o, m)
    BY <2>2, <2>3 DEF CopySafe
  <2>5. m.backup /\ m.phase \notin Early
    BY <2>2, <2>4 DEF CopySafe, Early, Unwritten
  <2>6. Kept(o, m)
    BY <2>4, <2>5 DEF Kept
  <2> QED
    BY <1>1, <2>1, <2>2, <2>3, <2>6, EndStep DEF o
<1>4. CASE ApplyFails(w)
  <2> DEFINE x == IF proc[w].m.phase \in Unwritten THEN "FAILED_SAFE" ELSE "REVIEW_REQUIRED"
             b == proc[w].pc \in {"checking", "publishing"}
             m == [proc[w].m EXCEPT !.phase = x, !.atCheck = b]
  <2>1. manifest' = [manifest EXCEPT ![o] = m]
    BY <1>4 DEF ApplyFails, Save, OpOf
  <2>0. x \in Phase /\ b \in BOOLEAN
    BY DEF Phase
  <2> HIDE DEF x, b
  <2>2. /\ m \in ManifestRecord
        /\ m.phase = IF proc[w].m.phase \in Unwritten THEN "FAILED_SAFE" ELSE "REVIEW_REQUIRED"
        /\ m.backup = proc[w].m.backup /\ m.post = proc[w].m.post
        /\ m.before = proc[w].m.before /\ m.saved = proc[w].m.saved
    BY <1>1, <2>0, RunningFacts DEF ManifestRecord, x
  <2>3. /\ o \in Op /\ CopySafe(o, proc[w].m) /\ plan[o].fp # 0
        /\ \/ starts[o] = 0 /\ proc[w].m.phase \in Unwritten
           \/ starts[o] # 0 /\ proc[w].m.phase \in {"WRITING", "PUBLICATION_PENDING"}
    BY <1>1, RunningFacts DEF Sound, Unwritten
  <2> HIDE DEF m, o
  <2>4. CopySafe(o, m)
    BY <2>2, <2>3 DEF CopySafe, Unwritten
  <2>5. starts[o] # 0 => m.backup /\ m.phase \notin Early
    BY <2>2, <2>3, <2>4 DEF CopySafe, Early, Unwritten
  <2>6. Kept(o, m)
    BY <2>4, <2>5 DEF Kept
  <2>7. m.phase # "none" /\ proc[w].m.phase # "none"
    BY <2>2, <2>3 DEF Unwritten
  <2> QED
    BY <1>1, <2>1, <2>2, <2>6, <2>7, EndStep DEF o
<1> QED
  BY <1>3, <1>4

-----------------------------------------------------------------------------
(* gpoRollback.                                                            *)

\* A copy with a backup may be saved under a later phase, or marked.
LEMMA LaterCopy ==
  ASSUME NEW o, NEW c, NEW m, CopySafe(o, c), c.backup, m.backup = c.backup, m.post = c.post,
         m.before = c.before, m.saved = c.saved, m.phase # "none",
         m.phase \notin Early \/ m.restoreFailed
  PROVE  CopySafe(o, m) /\ Kept(o, m)
  BY DEF CopySafe, Kept

\* The manifest is read without the lock.
LEMMA RollbackReadsStep ==
  ASSUME WorkerInv, NEW w \in Proc, RollbackReads(w)
  PROVE  WorkerInv'
<1> DEFINE o == proc[w].op
           p == [proc[w] EXCEPT !.m = manifest[o], !.pc = "locking"]
<1>1. /\ proc[w].pc = "start" /\ UNCHANGED manifest
      /\ UNCHANGED <<gpo, plan, own, wrote, starts, stops>>
  BY DEF RollbackReads, At, Quiet
<1>2. CASE Ends(w)
  BY <1>1, <1>2, QuitStep
<1>3. CASE /\ manifest[o].backup /\ Running(w)
           /\ proc' = [proc EXCEPT ![w].m = manifest[o], ![w].pc = "locking"]
  <2>1. /\ p \in ProcRecord /\ p.pc = "locking" /\ p.op = o /\ p.m = manifest[o]
    BY <1>1, RunningFacts DEF ProcRecord, Pc
  <2>2. proc' = [proc EXCEPT ![w] = p] /\ UNCHANGED <<lock, awaited>>
    BY <1>3 DEF Running, WorkerInv, TypeOK
  <2> HIDE DEF p
  <2>3. /\ CopySafe(o, manifest[o]) /\ o \in Op /\ plan[o].fp # 0
    BY <1>1, RunningFacts DEF Sound
  <2>4. Sound(p)
    BY <1>3, <2>1, <2>3 DEF Sound, Writing, Restoring
  <2>5. "locking" \notin Locked
    BY DEF Locked, Writing, Restoring
  <2> QED
    BY <1>1, <2>1, <2>2, <2>4, <2>5, GotoStep
<1> QED
  BY <1>2, <1>3 DEF RollbackReads, OpOf

\* The lock is taken after the manifest is read.
LEMMA RollbackLocksStep ==
  ASSUME WorkerInv, NEW w \in Proc, RollbackLocks(w)
  PROVE  WorkerInv'
<1>1. proc[w].pc = "locking" /\ UNCHANGED manifest
      /\ UNCHANGED <<gpo, plan, own, wrote, starts, stops>>
  BY DEF RollbackLocks, At, Quiet
<1>2. CASE Ends(w)
  BY <1>1, <1>2, QuitStep
<1>3. CASE lock = NoProc /\ lock' = w /\ Goto(w, "reconcile") /\ UNCHANGED awaited
  <2> DEFINE p == [proc[w] EXCEPT !.pc = "reconcile"]
  <2>1. p \in ProcRecord /\ p.pc = "reconcile" /\ p.op = proc[w].op /\ p.m = proc[w].m
    BY <1>1, RunningFacts DEF ProcRecord, Pc
  <2>2. proc' = [proc EXCEPT ![w] = p]
    BY <1>3 DEF Goto, WorkerInv, TypeOK
  <2> HIDE DEF p
  <2>3. Sound(p)
    BY <1>1, <2>1, RunningFacts DEF Sound, Writing, Restoring
  <2> QED
    BY <1>1, <1>3, <2>1, <2>2, <2>3, RunningFacts, GotoStep
<1> QED
  BY <1>2, <1>3 DEF RollbackLocks

\* An interrupted publication becomes one, or the copy stays as it was read.
LEMMA RollbackReconcilesStep ==
  ASSUME WorkerInv, NEW w \in Proc, RollbackReconciles(w)
  PROVE  WorkerInv'
<1> DEFINE o == proc[w].op
           m == [proc[w].m EXCEPT !.phase = "PUBLISHED"]
<1>1. /\ proc[w].pc = "reconcile" /\ UNCHANGED <<lock, awaited>>
      /\ UNCHANGED <<gpo, plan, own, wrote, starts, stops>>
      /\ \/ SaveAndGoto(w, m, "compare")
         \/ Goto(w, "compare") /\ UNCHANGED manifest
  BY DEF RollbackReconciles, At, Quiet, Running
<1>2. /\ CopySafe(o, proc[w].m) /\ proc[w].m.backup /\ lock = w
      /\ o \in Op /\ plan[o].fp # 0
  BY <1>1, RunningFacts DEF Sound, Locked
<1>3. CASE SaveAndGoto(w, m, "compare")
  <2> DEFINE p == [proc[w] EXCEPT !.m = m, !.pc = "compare"]
  <2>1. /\ m \in ManifestRecord /\ m.phase = "PUBLISHED" /\ m.backup = proc[w].m.backup
        /\ m.before = proc[w].m.before /\ m.saved = proc[w].m.saved
        /\ m.post = proc[w].m.post
    BY <1>1, RunningFacts DEF ManifestRecord, Phase
  <2>2. p.op = o /\ p.pc = "compare" /\ p.m = m
    BY <1>1, RunningFacts DEF ProcRecord
  <2> HIDE DEF m, p, o
  <2>3. m.phase \notin Early
    BY <2>1 DEF Early, Unwritten
  <2>4. CopySafe(o, m) /\ Kept(o, m)
    BY <1>2, <2>1, <2>3, LaterCopy
  <2>5. Sound(p)
    BY <1>2, <2>1, <2>2, <2>4 DEF Sound, Writing, Restoring
  <2> QED
    BY <1>1, <1>2, <1>3, <2>1, <2>4, <2>5, SaveStep DEF Pc, o, p
<1>4. CASE Goto(w, "compare") /\ UNCHANGED manifest
  <2> DEFINE p == [proc[w] EXCEPT !.pc = "compare"]
  <2>1. p \in ProcRecord /\ p.pc = "compare" /\ p.op = proc[w].op /\ p.m = proc[w].m
    BY <1>1, RunningFacts DEF ProcRecord, Pc
  <2>2. proc' = [proc EXCEPT ![w] = p]
    BY <1>4 DEF Goto, WorkerInv, TypeOK
  <2> HIDE DEF p
  <2>3. Sound(p)
    BY <1>1, <2>1, RunningFacts DEF Sound, Writing, Restoring
  <2> QED
    BY <1>1, <1>2, <1>4, <2>1, <2>2, <2>3, RunningFacts, GotoStep
<1> QED
  BY <1>1, <1>3, <1>4

\* The comparison only decides; the manifest it read stays the one on disk.
LEMMA RollbackComparesStep ==
  ASSUME WorkerInv, NEW w \in Proc, RollbackCompares(w)
  PROVE  WorkerInv'
<1>1. proc[w].pc = "compare" /\ UNCHANGED manifest /\ proc[w].m.post # 0
      /\ UNCHANGED <<gpo, plan, own, wrote, starts, stops>>
  BY DEF RollbackCompares, At, Quiet
<1>2. CASE Ends(w)
  BY <1>1, <1>2, QuitStep
<1>3. CASE Goto(w, "access") /\ Running(w)
  <2> DEFINE p == [proc[w] EXCEPT !.pc = "access"]
  <2>1. p \in ProcRecord /\ p.pc = "access" /\ p.op = proc[w].op /\ p.m = proc[w].m
    BY <1>1, RunningFacts DEF ProcRecord, Pc
  <2>2. proc' = [proc EXCEPT ![w] = p] /\ UNCHANGED <<lock, awaited>>
    BY <1>3 DEF Goto, Running, WorkerInv, TypeOK
  <2> HIDE DEF p
  <2>3. Sound(p) /\ lock = w
    BY <1>1, <2>1, RunningFacts DEF Sound, Writing, Restoring, Locked
  <2> QED
    BY <1>1, <2>1, <2>2, <2>3, RunningFacts, GotoStep
<1> QED
  BY <1>2, <1>3 DEF RollbackCompares

\* ROLLING_BACK is saved before the copy is imported.
LEMMA RollbackStartsStep ==
  ASSUME WorkerInv, NEW w \in Proc, RollbackStarts(w)
  PROVE  WorkerInv'
<1> DEFINE o == proc[w].op
           m == [proc[w].m EXCEPT !.phase = "ROLLING_BACK"]
           p == [proc[w] EXCEPT !.m = m, !.pc = "import"]
<1>1. /\ proc[w].pc = "access" /\ SaveAndGoto(w, m, "import") /\ UNCHANGED <<lock, awaited>>
      /\ UNCHANGED <<gpo, plan, own, wrote, starts, stops>>
  BY DEF RollbackStarts, At, Quiet, Running
<1>2. /\ CopySafe(o, proc[w].m) /\ proc[w].m.backup /\ lock = w
      /\ o \in Op /\ plan[o].fp # 0 /\ proc[w].m.post # 0
  BY <1>1, RunningFacts DEF Sound, Restoring, Locked
<1>3. /\ m \in ManifestRecord /\ m.phase = "ROLLING_BACK" /\ m.backup = proc[w].m.backup
      /\ m.before = proc[w].m.before /\ m.saved = proc[w].m.saved
      /\ m.post = proc[w].m.post
  BY <1>1, RunningFacts DEF ManifestRecord, Phase
<1>4. p.op = o /\ p.pc = "import" /\ p.m = m
  BY <1>1, RunningFacts DEF ProcRecord
<1> HIDE DEF m, p, o
<1>5. m.phase \notin Early
  BY <1>3 DEF Early, Unwritten
<1>6. CopySafe(o, m) /\ Kept(o, m)
  BY <1>2, <1>3, <1>5, LaterCopy
<1>7. Sound(p)
  BY <1>2, <1>3, <1>4, <1>6 DEF Sound, Writing, Restoring
<1> QED
  BY <1>1, <1>2, <1>3, <1>6, <1>7, SaveStep DEF Pc, o, p

\* The snapshot is imported.
LEMMA RollbackImportsStep ==
  ASSUME WorkerInv, NEW w \in Proc, RollbackImports(w)
  PROVE  WorkerInv'
<1> DEFINE p == [proc[w] EXCEPT !.pc = "relink"]
<1>1. /\ proc[w].pc = "import" /\ Goto(w, "relink") /\ UNCHANGED <<manifest, lock, awaited>>
      /\ Changes(w, Basis(w), proc[w].m.saved, gpo.linked)
      /\ UNCHANGED <<plan, wrote, starts, stops>>
  BY DEF RollbackImports, At, Running
<1>2. proc[w].m.saved \in SUBSET Content /\ gpo.linked \in BOOLEAN
  BY <1>1, RunningFacts DEF ManifestRecord, WorkerInv, TypeOK
<1>3. /\ gpo' \in [content : SUBSET Content, linked : BOOLEAN, rev : Nat]
      /\ gpo'.rev = gpo.rev + 1 /\ own' \in [Op -> Nat]
  BY <1>1, <1>2, ChangesFacts
<1>4. p \in ProcRecord /\ p.pc = "relink" /\ p.op = proc[w].op /\ p.m = proc[w].m
  BY <1>1, RunningFacts DEF ProcRecord, Pc
<1>5. proc' = [proc EXCEPT ![w] = p]
  BY <1>1 DEF Goto, WorkerInv, TypeOK
<1> HIDE DEF p
<1>6. Sound(p) /\ lock = w
  BY <1>1, <1>4, RunningFacts DEF Sound, Writing, Restoring, Locked
<1> QED
  BY <1>1, <1>3, <1>4, <1>5, <1>6, ChangeStep

\* The link is set back while the manifest says ROLLING_BACK.
LEMMA RollbackRelinksStep ==
  ASSUME WorkerInv, NEW w \in Proc, RollbackRelinks(w)
  PROVE  WorkerInv'
<1> DEFINE p == [proc[w] EXCEPT !.pc = "readback"]
           linked == plan[proc[w].op].linked
<1>1. proc[w].pc = "relink" /\ Goto(w, "readback") /\ UNCHANGED <<manifest, lock, awaited>>
  BY DEF RollbackRelinks, At, Running
<1>2. \/ Quiet
      \/ /\ Changes(w, proc[w].op, gpo.content, linked) /\ UNCHANGED <<plan, starts, stops>>
         /\ wrote' = wrote
  BY DEF RollbackRelinks, OpOf
<1>3. linked \in BOOLEAN
  BY <1>1, RunningFacts DEF WorkerInv, TypeOK, PlanRecord
<1>4. p \in ProcRecord /\ p.pc = "readback" /\ p.op = proc[w].op /\ p.m = proc[w].m
  BY <1>1, RunningFacts DEF ProcRecord, Pc
<1> HIDE DEF p, linked
<1>5. Sound(p) /\ lock = w
  BY <1>1, <1>4, RunningFacts DEF Sound, Writing, Restoring, Locked
<1> QED
  BY <1>1, <1>2, <1>3, <1>5, LinkStep DEF p, Pc

\* Reading back writes nothing: the phases of the manifest stay.
LEMMA RollbackReadsBackStep ==
  ASSUME WorkerInv, NEW w \in Proc, RollbackReadsBack(w)
  PROVE  WorkerInv'
<1>1. /\ proc[w].pc = "readback" /\ UNCHANGED <<manifest, lock, awaited>>
      /\ UNCHANGED <<gpo, plan, own, wrote, starts, stops>>
  BY DEF RollbackReadsBack, At, Quiet, Running
<1>2. PICK seen \in {FALSE, Restored(OpOf(w), proc[w].m)} :
        proc' = [proc EXCEPT ![w].seen = seen, ![w].pc = "restored"]
  BY DEF RollbackReadsBack
<1>3. seen \in BOOLEAN
  BY <1>2 DEF Restored
<1> DEFINE p == [proc[w] EXCEPT !.seen = seen, !.pc = "restored"]
<1>4. p \in ProcRecord /\ p.pc = "restored" /\ p.op = proc[w].op /\ p.m = proc[w].m
  BY <1>1, <1>3, RunningFacts DEF ProcRecord, Pc
<1>5. proc' = [proc EXCEPT ![w] = p]
  BY <1>2 DEF WorkerInv, TypeOK
<1> HIDE DEF p
<1>6. Sound(p) /\ lock = w
  BY <1>1, <1>4, RunningFacts DEF Sound, Writing, Restoring, Locked
<1> QED
  BY <1>1, <1>4, <1>5, <1>6, RunningFacts, GotoStep

\* A rollback that ends saves its own copy, with a phase of its own or marked.
LEMMA RollbackEndsStep ==
  ASSUME WorkerInv, NEW w \in Proc,
         RollbackStopsEarly(w) \/ RollbackConcludes(w) \/ RollbackFails(w)
  PROVE  WorkerInv'
<1> DEFINE o == proc[w].op
<1>1. /\ proc[w].pc \in {"reconcile", "compare"} \cup Restoring /\ proc[w].pc # "off"
      /\ Ends(w) /\ UNCHANGED <<gpo, plan, own, wrote, starts, stops>>
  BY DEF RollbackStopsEarly, RollbackConcludes, RollbackFails, At, Quiet, Restoring
<1>2. CopySafe(o, proc[w].m) /\ proc[w].m.backup /\ o \in Op
  BY <1>1, RunningFacts DEF Sound
<1>3. proc[w].m.phase # "none"
  BY <1>2 DEF CopySafe
<1>4. gpo.rev \in Nat
  BY DEF WorkerInv, TypeOK
<1>5. PICK m \in ManifestRecord :
        /\ manifest' = [manifest EXCEPT ![o] = m]
        /\ m.backup = proc[w].m.backup /\ m.before = proc[w].m.before
        /\ m.saved = proc[w].m.saved /\ m.post = proc[w].m.post
        /\ \/ m.phase = proc[w].m.phase /\ m.restoreFailed
           \/ m.phase \in {"ROLLED_BACK", "ROLLBACK_REVIEW_REQUIRED"}
  <2>1. CASE RollbackStopsEarly(w)
    <3> DEFINE m == [proc[w].m EXCEPT !.restoreFailed = TRUE]
    <3>1. /\ m \in ManifestRecord /\ m.phase = proc[w].m.phase /\ m.restoreFailed
          /\ m.backup = proc[w].m.backup /\ m.before = proc[w].m.before
          /\ m.saved = proc[w].m.saved /\ m.post = proc[w].m.post
      BY <1>1, RunningFacts DEF ManifestRecord
    <3>2. manifest' = [manifest EXCEPT ![o] = m]
      BY <2>1 DEF RollbackStopsEarly, Save, OpOf
    <3> HIDE DEF m, o
    <3> QED
      BY <3>1, <3>2
  <2>2. CASE RollbackConcludes(w)
    <3> DEFINE a == [proc[w].m EXCEPT !.phase = "ROLLED_BACK", !.restored = gpo.rev]
               b == [proc[w].m EXCEPT !.phase = "ROLLBACK_REVIEW_REQUIRED"]
               m == IF proc[w].seen THEN a ELSE b
    <3>1. \A c \in {a, b} :
             /\ c \in ManifestRecord /\ c.phase \in {"ROLLED_BACK", "ROLLBACK_REVIEW_REQUIRED"}
             /\ c.backup = proc[w].m.backup /\ c.before = proc[w].m.before
             /\ c.saved = proc[w].m.saved /\ c.post = proc[w].m.post
      BY <1>1, <1>4, RunningFacts DEF ManifestRecord, Phase
    <3>2. manifest' = [manifest EXCEPT ![o] = m]
      BY <2>2 DEF RollbackConcludes, Save, OpOf
    <3>3. m \in {a, b}
      OBVIOUS
    <3> HIDE DEF a, b, m, o
    <3> QED
      BY <3>1, <3>2, <3>3
  <2>3. CASE RollbackFails(w)
    <3> DEFINE m == [proc[w].m EXCEPT !.phase = "ROLLBACK_REVIEW_REQUIRED",
                                      !.restoreFailed = TRUE]
    <3>1. /\ m \in ManifestRecord /\ m.phase = "ROLLBACK_REVIEW_REQUIRED"
          /\ m.backup = proc[w].m.backup /\ m.before = proc[w].m.before
          /\ m.saved = proc[w].m.saved /\ m.post = proc[w].m.post
      BY <1>1, RunningFacts DEF ManifestRecord, Phase
    <3>2. manifest' = [manifest EXCEPT ![o] = m]
      BY <2>3 DEF RollbackFails, Save, OpOf
    <3> HIDE DEF m, o
    <3> QED
      BY <3>1, <3>2
  <2> QED
    BY <2>1, <2>2, <2>3
<1>6. m.phase # "none" /\ (m.phase \notin Early \/ m.restoreFailed)
  BY <1>3, <1>5 DEF Early, Unwritten
<1> HIDE DEF o
<1>7. Kept(o, m)
  BY <1>2, <1>5, <1>6, LaterCopy
<1> QED
  BY <1>1, <1>3, <1>5, <1>6, <1>7, EndStep DEF o

-----------------------------------------------------------------------------
(* gpoVerify and gpoRollbackInspect.                                        *)

LEMMA CheckReadsStep ==
  ASSUME WorkerInv, NEW w \in Proc, CheckReads(w)
  PROVE  WorkerInv'
<1> DEFINE o == proc[w].op
           p == [proc[w] EXCEPT !.m = manifest[o], !.pc = "look"]
<1>1. /\ proc[w].pc = "start" /\ UNCHANGED manifest
      /\ UNCHANGED <<gpo, plan, own, wrote, starts, stops>>
  BY DEF CheckReads, At, Quiet
<1>2. CASE Ends(w)
  BY <1>1, <1>2, QuitStep
<1>3. CASE /\ manifest[o].phase # "none" /\ Running(w)
           /\ proc' = [proc EXCEPT ![w].m = manifest[o], ![w].pc = "look"]
  <2>1. /\ p \in ProcRecord /\ p.pc = "look" /\ p.op = o /\ p.m = manifest[o]
    BY <1>1, RunningFacts DEF ProcRecord, Pc
  <2>2. proc' = [proc EXCEPT ![w] = p] /\ UNCHANGED <<lock, awaited>>
    BY <1>3 DEF Running, WorkerInv, TypeOK
  <2> HIDE DEF p
  <2>3. /\ CopySafe(o, manifest[o]) /\ o \in Op /\ plan[o].fp # 0
    BY <1>1, RunningFacts DEF Sound
  <2>4. Sound(p)
    BY <1>3, <2>1, <2>3 DEF Sound, Writing, Restoring
  <2>5. "look" \notin Locked
    BY DEF Locked, Writing, Restoring
  <2> QED
    BY <1>1, <1>3, <2>1, <2>2, <2>4, <2>5, GotoStep
<1> QED
  BY <1>2, <1>3 DEF CheckReads, OpOf

\* The comparison; a reconciled publication is saved without the lock.
LEMMA CheckLooksStep ==
  ASSUME WorkerInv, NEW w \in Proc, CheckLooks(w)
  PROVE  WorkerInv'
<1> DEFINE o == proc[w].op
<1>1. /\ proc[w].pc = "look" /\ UNCHANGED <<gpo, plan, own, wrote, starts, stops>>
  BY DEF CheckLooks, At, Quiet
<1>2. CopySafe(o, proc[w].m) /\ o \in Op /\ proc[w].m.phase # "none"
  BY <1>1, RunningFacts DEF Sound
<1>3. CASE Ends(w) /\ UNCHANGED manifest
  BY <1>1, <1>3, QuitStep
<1>4. CASE /\ Reconciles(o, proc[w].m) /\ Ends(w)
           /\ Save(w, [proc[w].m EXCEPT !.phase = "PUBLISHED"])
  <2> DEFINE m == [proc[w].m EXCEPT !.phase = "PUBLISHED"]
  <2>1. /\ m \in ManifestRecord /\ m.phase = "PUBLISHED" /\ m.backup = proc[w].m.backup
        /\ m.before = proc[w].m.before /\ m.saved = proc[w].m.saved
        /\ m.post = proc[w].m.post
    BY <1>1, RunningFacts DEF ManifestRecord, Phase
  <2>2. manifest' = [manifest EXCEPT ![o] = m]
    BY <1>4 DEF Save, OpOf
  <2> HIDE DEF m, o
  <2>3. proc[w].m.phase \in {"PUBLICATION_PENDING", "REVIEW_REQUIRED"}
    BY <1>4 DEF Reconciles, PublicationReview
  <2>4. proc[w].m.backup
    BY <1>2, <2>3 DEF CopySafe
  <2>5. m.phase \notin Early
    BY <2>1 DEF Early, Unwritten
  <2>6. Kept(o, m)
    BY <1>2, <2>1, <2>4, <2>5, LaterCopy
  <2> QED
    BY <1>1, <1>2, <1>4, <2>1, <2>2, <2>6, EndStep DEF o
<1>5. CASE /\ LooksRestored(proc[w].kind, proc[w].m) /\ UNCHANGED manifest /\ Running(w)
           /\ \E seen \in {FALSE, Restored(o, proc[w].m)} :
                 proc' = [proc EXCEPT ![w].seen = seen, ![w].pc = "conclude"]
  <2>1. PICK seen \in {FALSE, Restored(o, proc[w].m)} :
          proc' = [proc EXCEPT ![w].seen = seen, ![w].pc = "conclude"]
    BY <1>5
  <2>2. seen \in BOOLEAN
    BY <2>1 DEF Restored
  <2> DEFINE p == [proc[w] EXCEPT !.seen = seen, !.pc = "conclude"]
  <2>3. /\ p \in ProcRecord /\ p.pc = "conclude" /\ p.op = o /\ p.m = proc[w].m
        /\ p.kind = proc[w].kind
    BY <1>1, <2>2, RunningFacts DEF ProcRecord, Pc
  <2>4. proc' = [proc EXCEPT ![w] = p] /\ UNCHANGED <<lock, awaited>>
    BY <1>5, <2>1 DEF Running, WorkerInv, TypeOK
  <2> HIDE DEF p
  <2>5. Sound(p)
    BY <1>1, <1>5, <2>3, RunningFacts DEF Sound, Writing, Restoring
  <2>6. "conclude" \notin Locked
    BY DEF Locked, Writing, Restoring
  <2> QED
    BY <1>1, <1>5, <2>3, <2>4, <2>5, <2>6, RunningFacts, GotoStep
<1> QED
  BY <1>3, <1>4, <1>5 DEF CheckLooks, OpOf

\* What a comparison saves is a restore, or a restore to be reviewed.
LEMMA ConcludedCopies ==
  ASSUME NEW c \in ManifestRecord, NEW kind, NEW seen \in BOOLEAN, LooksRestored(kind, c),
         gpo.rev \in Nat, NEW m \in Concluded(kind, c, seen)
  PROVE  /\ m \in ManifestRecord /\ m.backup = c.backup /\ m.before = c.before
         /\ m.saved = c.saved /\ m.post = c.post /\ m.phase \in RollingBack
         /\ c.phase \in RollingBack \cup {"PUBLISHED", "VERIFY_MISMATCH"}
         /\ \/ m = c
            \/ m.phase = "ROLLED_BACK" /\ m.restored = gpo.rev /\ seen
            \/ m.phase # "ROLLED_BACK" /\ m.restored = c.restored
<1> DEFINE r == [c EXCEPT !.phase = "ROLLED_BACK", !.restored = gpo.rev]
           d == [c EXCEPT !.phase = "ROLLBACK_DRIFT_DETECTED"]
           v == [c EXCEPT !.phase = "ROLLBACK_REVIEW_REQUIRED"]
<1>1. \/ m = r /\ seen
      \/ m = c /\ c.phase \in RollingBack
      \/ m \in {d, v}
  BY DEF Concluded, RollingBack
<1>2. /\ r \in ManifestRecord /\ r.backup = c.backup /\ r.before = c.before
      /\ r.saved = c.saved /\ r.post = c.post /\ r.phase = "ROLLED_BACK" /\ r.restored = gpo.rev
  BY DEF ManifestRecord, Phase
<1>3. \A x \in {d, v} :
         /\ x \in ManifestRecord /\ x.backup = c.backup /\ x.before = c.before
         /\ x.saved = c.saved /\ x.post = c.post /\ x.restored = c.restored
         /\ x.phase \in {"ROLLBACK_DRIFT_DETECTED", "ROLLBACK_REVIEW_REQUIRED"}
  BY DEF ManifestRecord, Phase
<1>4. c.phase \in RollingBack \cup {"PUBLISHED", "VERIFY_MISMATCH"}
  BY DEF LooksRestored
<1> HIDE DEF r, d, v
<1>5. CASE m = r /\ seen
  BY <1>2, <1>4, <1>5 DEF RollingBack
<1>6. CASE m = c /\ c.phase \in RollingBack
  BY <1>4, <1>6
<1>7. CASE m \in {d, v}
  BY <1>3, <1>4, <1>7 DEF RollingBack
<1> QED
  BY <1>1, <1>5, <1>6, <1>7

\* What the check concludes is saved over the manifest it had read.
LEMMA CheckConcludesStep ==
  ASSUME WorkerInv, NEW w \in Proc, CheckConcludes(w)
  PROVE  WorkerInv'
<1> DEFINE o == proc[w].op
<1>1. /\ proc[w].pc = "conclude" /\ Ends(w)
      /\ UNCHANGED <<gpo, plan, own, wrote, starts, stops>>
  BY DEF CheckConcludes, At, Quiet
<1>2. /\ CopySafe(o, proc[w].m) /\ o \in Op /\ LooksRestored(proc[w].kind, proc[w].m)
  BY <1>1, RunningFacts DEF Sound
<1>3. CASE UNCHANGED manifest
  BY <1>1, <1>3, QuitStep
<1>4. CASE \E m \in Concluded(proc[w].kind, proc[w].m, proc[w].seen) : Save(w, m)
  <2>1. PICK m \in Concluded(proc[w].kind, proc[w].m, proc[w].seen) : Save(w, m)
    BY <1>4
  <2>2. gpo.rev \in Nat /\ proc[w].seen \in BOOLEAN
    BY <1>1, RunningFacts DEF WorkerInv, TypeOK, ProcRecord
  <2>3. /\ m \in ManifestRecord /\ m.backup = proc[w].m.backup /\ m.before = proc[w].m.before
        /\ m.saved = proc[w].m.saved /\ m.post = proc[w].m.post /\ m.phase \in RollingBack
        /\ proc[w].m.phase \in RollingBack \cup {"PUBLISHED", "VERIFY_MISMATCH"}
    BY <1>1, <1>2, <2>2, RunningFacts, ConcludedCopies
  <2>4. proc[w].m.backup /\ proc[w].m.phase # "none"
    BY <1>2, <2>3 DEF CopySafe, RollingBack
  <2>5. m.phase \notin Early /\ m.phase # "none"
    BY <2>3 DEF Early, Unwritten, RollingBack
  <2> HIDE DEF o
  <2>6. Kept(o, m)
    BY <1>2, <2>3, <2>4, <2>5, LaterCopy
  <2>7. manifest' = [manifest EXCEPT ![o] = m]
    BY <2>1 DEF Save, OpOf, o
  <2> QED
    BY <1>1, <2>3, <2>4, <2>5, <2>6, <2>7, EndStep DEF o
<1> QED
  BY <1>3, <1>4 DEF CheckConcludes

-----------------------------------------------------------------------------
(* The service and other tools.                                            *)

\* A plan is made once; no copy and no process of its operation exists yet.
LEMMA PreviewStep ==
  ASSUME WorkerInv, NEW o \in Op, Preview(o)
  PROVE  WorkerInv'
<1>1. /\ plan[o] = NoPlan /\ own' = [own EXCEPT ![o] = gpo.rev]
      /\ UNCHANGED <<gpo, manifest, lock, awaited, proc, wrote, starts, stops>>
  BY DEF Preview
<1> DEFINE r == [fp |-> gpo.rev, content |-> gpo.content, linked |-> gpo.linked]
<1>2. plan' = [plan EXCEPT ![o] = r]
  BY DEF Preview
<1>3. plan \in [Op -> PlanRecord] /\ gpo.rev \in Nat /\ own \in [Op -> Nat]
  BY DEF WorkerInv, TypeOK
<1>4. r \in PlanRecord /\ r.fp = gpo.rev /\ r.content = gpo.content
  BY DEF WorkerInv, TypeOK, PlanRecord
<1> HIDE DEF r
<1>5. /\ plan' \in [Op -> PlanRecord] /\ plan'[o] = r
      /\ \A q \in Op \ {o} : plan'[q] = plan[q]
  BY <1>2, <1>3, <1>4
<1>6. plan[o].fp = 0
  BY <1>1, InitialRecords
<1>7. own' \in [Op -> Nat]
  BY <1>1, <1>3
<1>8. TypeOK'
  BY <1>1, <1>5, <1>7 DEF WorkerInv, TypeOK
<1>9. GpoSound'
  <2>1. gpo.rev <= gpo.rev
    BY <1>3
  <2> QED
    BY <1>1, <1>4, <1>5, <2>1 DEF WorkerInv, GpoSound
<1>10. ASSUME NEW q \in Op, NEW c, CopySafe(q, c) PROVE CopySafe(q, c)'
  <2>1. CASE q = o
    <3>1. c.phase = "none" /\ ~c.backup
      BY <1>6, <1>10, <2>1 DEF CopySafe
    <3> QED
      BY <1>1, <1>10, <3>1 DEF CopySafe
  <2>2. CASE q # o
    BY <1>1, <1>5, <1>10, <2>2 DEF CopySafe
  <2> QED
    BY <2>1, <2>2
<1>11. DiskSound'
  <2> SUFFICES ASSUME NEW q \in Op
               PROVE  /\ Kept(q, manifest[q])' /\ starts'[q] \in {0, 1}
                      /\ q \in wrote' => starts'[q] # 0
    BY DEF DiskSound
  <2>1. CopySafe(q, manifest[q])
    BY DEF WorkerInv, DiskSound, Kept
  <2>2. CopySafe(q, manifest[q])'
    BY <1>1, <1>10, <2>1
  <2> QED
    BY <1>1, <2>2 DEF WorkerInv, DiskSound, Kept
<1>12. ProcSound'
  <2> SUFFICES ASSUME NEW v \in Proc, proc[v].pc # "off" PROVE Sound(proc[v])'
    BY <1>1 DEF ProcSound, WorkerInv
  <2>1. Sound(proc[v]) /\ proc[v].op \in Op /\ proc[v].op # o
    BY <1>6, RunningFacts DEF Sound
  <2>2. CopySafe(proc[v].op, proc[v].m)'
    BY <1>1, <1>10, <2>1 DEF Sound
  <2> QED
    BY <1>1, <1>5, <2>1, <2>2 DEF Sound
<1> QED
  BY <1>8, <1>9, <1>11, <1>12 DEF WorkerInv

\* A worker that starts holds no lock and has read no manifest yet.
LEMMA LaunchStep ==
  ASSUME WorkerInv, NEW w \in Proc, NEW kind \in Kind, NEW o \in Op, NEW anchor \in Op \cup {NoOp},
         Launch(w, kind, o, anchor)
  PROVE  WorkerInv'
<1> DEFINE e == IF anchor = NoOp THEN 0 ELSE manifest[anchor].post
           p == [Off EXCEPT !.pc = "start", !.kind = kind, !.op = o, !.anchor = anchor,
                            !.expect = e]
<1>1. /\ plan[o] # NoPlan /\ proc' = [proc EXCEPT ![w] = p]
      /\ UNCHANGED <<gpo, plan, own, wrote, starts, stops, manifest, lock>>
  BY DEF Launch, Quiet
<1>2. awaited' \in Proc \cup {NoProc} /\ lock \in Proc \cup {NoProc} /\ stops \in Nat
      /\ manifest \in [Op -> ManifestRecord]
  BY DEF Launch, WorkerInv, TypeOK
<1>3. e \in Nat
  <2>1. anchor # NoOp => manifest[anchor].post \in Nat
    BY <1>2 DEF ManifestRecord
  <2> QED
    BY <2>1
<1> HIDE DEF e
<1>4. p \in ProcRecord /\ p.pc = "start" /\ p.op = o /\ p.m = NoManifest
  BY <1>3, InitialRecords DEF ProcRecord, Pc
<1> HIDE DEF p
<1>5. plan[o].fp # 0
  BY <1>1 DEF WorkerInv, GpoSound
<1>6. Sound(p)
  BY <1>4, <1>5, InitialRecords DEF Sound, CopySafe, Writing, Restoring
<1>7. "start" \notin Locked
  BY DEF Locked, Writing, Restoring
<1>8. manifest' = [manifest EXCEPT ![o] = manifest[o]] /\ manifest[o] \in ManifestRecord
  BY <1>1, <1>2
<1>9. Kept(o, manifest[o])
  BY DEF WorkerInv, DiskSound
<1> QED
  BY <1>1, <1>2, <1>4, <1>6, <1>7, <1>8, <1>9, InitialRecords, MoveStep

\* The service gives up; a process is killed.
LEMMA StopStep ==
  ASSUME WorkerInv, NEW w \in Proc, GiveUp(w) \/ Killed(w)
  PROVE  WorkerInv'
<1>1. UNCHANGED <<gpo, plan, own, wrote, starts, manifest>> /\ stops' = stops + 1
  BY DEF GiveUp, Killed, Stops
<1>2. stops' \in Nat
  BY <1>1 DEF WorkerInv, TypeOK
<1>3. CASE GiveUp(w)
  <2>1. UNCHANGED <<lock, proc>> /\ awaited' = NoProc
    BY <1>3 DEF GiveUp
  <2>2. TypeOK' /\ GpoSound'
    BY <1>1, <1>2, <2>1 DEF WorkerInv, TypeOK, GpoSound
  <2>3. DiskSound'
    BY <1>1, CopiesHeld DEF WorkerInv, DiskSound
  <2>4. ProcSound'
    <3> SUFFICES ASSUME NEW v \in Proc, proc[v].pc # "off" PROVE Sound(proc[v])'
      BY <1>1, <2>1 DEF ProcSound, WorkerInv
    <3>1. Sound(proc[v])
      BY RunningFacts
    <3> QED
      BY <1>1, <2>1, <3>1 DEF Sound, CopySafe
  <2> QED
    BY <2>2, <2>3, <2>4 DEF WorkerInv
<1>4. CASE Killed(w)
  <2> DEFINE p == Off
             o == proc[w].op
             m == manifest[o]
  <2>1. /\ proc[w].pc # "off" /\ Ends(w)
    BY <1>4 DEF Killed, At
  <2>2. /\ proc' = [proc EXCEPT ![w] = p] /\ p \in ProcRecord /\ p.pc = "off"
        /\ manifest' = [manifest EXCEPT ![o] = m] /\ o \in Op /\ m \in ManifestRecord
        /\ lock' \in Proc \cup {NoProc} /\ (lock' = lock \/ lock \in {NoProc, w})
        /\ awaited' \in Proc \cup {NoProc} /\ Kept(o, m) /\ m = manifest[o]
    BY <1>1, <2>1, InitialRecords, RunningFacts DEF Ends
  <2> HIDE DEF p, o, m
  <2> QED
    BY <1>1, <1>2, <2>2, MoveStep
<1> QED
  BY <1>3, <1>4

\* Another tool changes the GPO.
LEMMA EditStep ==
  ASSUME WorkerInv, Edit
  PROVE  WorkerInv'
<1> DEFINE c == IF Foreign \in gpo.content THEN gpo.content \ {Foreign}
                ELSE gpo.content \cup {Foreign}
<1>1. /\ gpo' = [gpo EXCEPT !.rev = gpo.rev + 1, !.content = c]
      /\ UNCHANGED <<plan, manifest, lock, awaited, proc, own, wrote, starts, stops>>
  BY DEF Edit
<1>2. gpo \in [content : SUBSET Content, linked : BOOLEAN, rev : Nat]
  BY DEF WorkerInv, TypeOK
<1>3. c \in SUBSET Content
  BY <1>2 DEF Content
<1> HIDE DEF c
<1> DEFINE n == gpo.rev + 1
<1>4. n \in Nat
  BY <1>2
<1>5. gpo' = [gpo EXCEPT !.rev = n, !.content = c]
  BY <1>1
<1> HIDE DEF n
<1>6. gpo' \in [content : SUBSET Content, linked : BOOLEAN, rev : Nat] /\ gpo'.rev = n
  BY <1>2, <1>3, <1>4, <1>5
<1>7. gpo'.rev = gpo.rev + 1
  BY <1>6 DEF n
<1>8. TypeOK'
  BY <1>1, <1>6 DEF WorkerInv, TypeOK
<1>9. DiskSound'
  <2> SUFFICES ASSUME NEW q \in Op
               PROVE  /\ Kept(q, manifest[q])' /\ starts'[q] \in {0, 1}
                      /\ q \in wrote' => starts'[q] # 0
    BY DEF DiskSound
  <2>1. Kept(q, manifest[q])
    BY DEF WorkerInv, DiskSound
  <2>2. Kept(q, manifest[q])'
    BY <1>1, <1>7, <2>1, CopiesOutlive
  <2> QED
    BY <1>1, <2>2 DEF WorkerInv, DiskSound
<1>10. ProcSound'
  <2> SUFFICES ASSUME NEW v \in Proc, proc[v].pc # "off" PROVE Sound(proc[v])'
    BY <1>1 DEF ProcSound, WorkerInv
  <2>1. Sound(proc[v])
    BY RunningFacts
  <2> QED
    BY <1>1, <1>7, <2>1, CopiesOutlive
<1> QED
  BY <1>1, <1>7, <1>8, <1>9, <1>10, CopiesOutlive DEF WorkerInv

-----------------------------------------------------------------------------
(* The inductive invariant and what it gives.                               *)

\* Every step of an apply keeps the invariant.
LEMMA ApplyKeeps ==
  ASSUME WorkerInv, NEW w \in Proc, ApplyStep(w)
  PROVE  WorkerInv'
  BY ApplyLocksStep, ApplyPreflightStep, ApplyRecordsStep, ApplyBacksUpStep,
     ApplyStartsWritingStep, ApplyWritesStep, ApplyLinksStep, ApplyMarksStep,
     ApplyChecksStep, ApplyEndsStep DEF ApplyStep

\* Every step of a rollback keeps the invariant.
LEMMA RollbackKeeps ==
  ASSUME WorkerInv, NEW w \in Proc, RollbackStep(w)
  PROVE  WorkerInv'
  BY RollbackReadsStep, RollbackLocksStep, RollbackReconcilesStep, RollbackComparesStep,
     RollbackStartsStep, RollbackImportsStep, RollbackRelinksStep, RollbackReadsBackStep,
     RollbackEndsStep DEF RollbackStep

\* Every step of a status check keeps the invariant.
LEMMA CheckKeeps ==
  ASSUME WorkerInv, NEW w \in Proc, CheckStep(w)
  PROVE  WorkerInv'
  BY CheckReadsStep, CheckLooksStep, CheckConcludesStep DEF CheckStep

\* Every step keeps the invariant, and so does a stutter.
LEMMA WorkerStep ==
  ASSUME WorkerInv, [Next]_vars
  PROVE  WorkerInv'
<1>1. ASSUME NEW o \in Op, Preview(o) PROVE WorkerInv'
  BY <1>1, PreviewStep
<1>2. ASSUME NEW w \in Proc, NEW kind \in Kind, NEW o \in Op, NEW anchor \in Op \cup {NoOp},
             Launch(w, kind, o, anchor)
      PROVE WorkerInv'
  BY <1>2, LaunchStep
<1>3. ASSUME NEW w \in Proc, GiveUp(w) \/ Killed(w) PROVE WorkerInv'
  BY <1>3, StopStep
<1>4. ASSUME NEW w \in Proc, ApplyStep(w) PROVE WorkerInv'
  BY <1>4, ApplyKeeps
<1>5. ASSUME NEW w \in Proc, RollbackStep(w) PROVE WorkerInv'
  BY <1>5, RollbackKeeps
<1>6. ASSUME NEW w \in Proc, CheckStep(w) PROVE WorkerInv'
  BY <1>6, CheckKeeps
<1>7. CASE Edit
  BY <1>7, EditStep
<1>8. CASE UNCHANGED vars
  <2>1. TypeOK' /\ GpoSound'
    BY <1>8 DEF vars, WorkerInv, TypeOK, GpoSound
  <2>2. DiskSound'
    BY <1>8, CopiesHeld DEF vars, WorkerInv, DiskSound
  <2>3. ProcSound'
    <3> SUFFICES ASSUME NEW v \in Proc, proc[v].pc # "off" PROVE Sound(proc[v])'
      BY <1>8 DEF vars, ProcSound, WorkerInv
    <3>1. Sound(proc[v])
      BY RunningFacts
    <3> QED
      BY <1>8, <3>1 DEF vars, Sound, CopySafe
  <2> QED
    BY <2>1, <2>2, <2>3 DEF WorkerInv
<1> QED
  BY <1>1, <1>2, <1>3, <1>4, <1>5, <1>6, <1>7, <1>8 DEF Next

\* The inductive invariant of the worker holds in every reachable state.
THEOREM WorkerInductive == Spec => []WorkerInv
  BY WorkerInitInv, WorkerStep, PTL DEF Spec

\* Every variable keeps its type.
THEOREM WorkerTypes == Spec => []TypeOK
<1>1. WorkerInv => TypeOK
  BY DEF WorkerInv
<1> QED
  BY WorkerInductive, <1>1, PTL

\* The manifest on disk is ahead of the GPO (Set-Phase before each write).
THEOREM ManifestIsAhead == Spec => []WriteAhead
<1>1. WorkerInv => WriteAhead
  <2> SUFFICES ASSUME WorkerInv, NEW o \in wrote
               PROVE  /\ manifest[o].phase # "none"
                      /\ manifest[o].phase \in Early => manifest[o].restoreFailed
    BY DEF WriteAhead, Early
  <2>1. o \in Op /\ Kept(o, manifest[o]) /\ starts[o] # 0
    BY DEF WorkerInv, TypeOK, DiskSound
  <2> QED
    BY <2>1 DEF Kept, CopySafe
<1> QED
  BY WorkerInductive, <1>1, PTL

\* What an operation may have changed can be restored from its manifest.
THEOREM SnapshotIsFaithful == Spec => []SnapshotFaithful
<1>1. WorkerInv => SnapshotFaithful
  <2> SUFFICES ASSUME WorkerInv, NEW o \in wrote
               PROVE  /\ manifest[o].backup /\ manifest[o].saved = plan[o].content
                      /\ manifest[o].before = plan[o].content
    BY DEF SnapshotFaithful
  <2>1. o \in Op /\ Kept(o, manifest[o]) /\ starts[o] # 0
    BY DEF WorkerInv, TypeOK, DiskSound
  <2> QED
    BY <2>1 DEF Kept, CopySafe
<1> QED
  BY WorkerInductive, <1>1, PTL

\* No plan is written twice, whatever processes are started for it.
THEOREM WrittenOnce == Spec => []NotReplayed
<1>1. WorkerInv => NotReplayed
  <2> SUFFICES ASSUME WorkerInv, NEW o \in Op PROVE starts[o] <= 1
    BY DEF NotReplayed
  <2>1. starts[o] \in {0, 1}
    BY DEF WorkerInv, DiskSound
  <2> QED
    BY <2>1
<1> QED
  BY WorkerInductive, <1>1, PTL

-----------------------------------------------------------------------------
(* What a saved fingerprint says of the GPO, while nobody changes it        *)
(* between a comparison and the fingerprint that is saved for it.           *)

\* No saved fingerprint is ahead of the GPO. The one of a publication that is
\* still the GPO's was left by the operation's own work, over the published
\* values; the one of a restore, over the snapshot.
CopyTrue(o, m) ==
    /\ m.post \in 0..gpo.rev /\ m.restored \in 0..gpo.rev
    /\ m.post = gpo.rev => own[o] = gpo.rev
    /\ m.phase = "PUBLISHED" /\ m.post = gpo.rev => Applied(o)
    /\ m.phase = "ROLLED_BACK" /\ m.restored = gpo.rev => Restored(o, m)

\* A running process: its copy; while it writes, the GPO is as it left it; and
\* what it has seen is still so.
Fresh(p) ==
    /\ CopyTrue(p.op, p.m)
    /\ p.pc \in Writing => own[p.op] = gpo.rev
    /\ p.pc = "publishing" /\ p.seen => Applied(p.op)
    /\ p.pc \in {"restored", "conclude"} /\ p.seen => Restored(p.op, p.m)

DiskTrue ==
    \A o \in Op : /\ CopyTrue(o, manifest[o])
                  /\ starts[o] = 0 => own[o] = plan[o].fp
ProcTrue == \A w \in Proc : proc[w].pc # "off" => Fresh(proc[w])

TrueInv == DiskTrue /\ ProcTrue

\* Nothing is saved and nothing runs at the start.
LEMMA TrueInitInv == Init => TrueInv
<1> SUFFICES ASSUME Init PROVE TrueInv
  OBVIOUS
<1>1. /\ gpo.rev = 1 /\ plan = [o \in Op |-> NoPlan] /\ own = [o \in Op |-> 0]
      /\ manifest = [o \in Op |-> NoManifest] /\ proc = [w \in Proc |-> Off]
  BY DEF Init
<1>2. DiskTrue
  BY <1>1, InitialRecords DEF DiskTrue, CopyTrue, NoPlan, NoManifest
<1>3. ProcTrue
  BY <1>1, InitialRecords DEF ProcTrue
<1> QED
  BY <1>2, <1>3 DEF TrueInv

\* What is held for a copy stays true while the GPO and the plans stay.
LEMMA TruthsHeld ==
  ASSUME UNCHANGED <<gpo, plan, own>>
  PROVE  /\ \A o, m : CopyTrue(o, m)' <=> CopyTrue(o, m)
         /\ \A p : Fresh(p)' <=> Fresh(p)
<1>1. ASSUME NEW o, NEW m PROVE CopyTrue(o, m)' <=> CopyTrue(o, m)
  BY DEF CopyTrue, Applied, Restored
<1>2. ASSUME NEW p PROVE Fresh(p)' <=> Fresh(p)
  BY <1>1 DEF Fresh, Applied, Restored
<1> QED
  BY <1>1, <1>2

\* A process w goes on as p (or ends) and leaves m on disk.
LEMMA StillStep ==
  ASSUME WorkerInv, TrueInv, NEW w \in Proc, NEW o \in Op, NEW p, NEW m,
         proc' = [proc EXCEPT ![w] = p], manifest' = [manifest EXCEPT ![o] = m],
         UNCHANGED <<gpo, plan, own>>, \A q \in Op : starts'[q] = 0 => starts[q] = 0,
         p.pc = "off" \/ Fresh(p), CopyTrue(o, m)
  PROVE  TrueInv'
<1>1. /\ proc'[w] = p /\ \A v \in Proc \ {w} : proc'[v] = proc[v]
      /\ manifest'[o] = m /\ \A q \in Op \ {o} : manifest'[q] = manifest[q]
  BY DEF WorkerInv, TypeOK
<1>2. ASSUME NEW q \in Op
      PROVE  CopyTrue(q, manifest[q])' /\ (starts'[q] = 0 => own'[q] = plan'[q].fp)
  <2>1. CopyTrue(q, manifest'[q])
    BY <1>1 DEF TrueInv, DiskTrue
  <2> QED
    BY <2>1, TruthsHeld DEF TrueInv, DiskTrue
<1>3. ASSUME NEW v \in Proc, proc'[v].pc # "off" PROVE Fresh(proc[v])'
  <2>1. Fresh(proc'[v])
    BY <1>1, <1>3 DEF TrueInv, ProcTrue
  <2> QED
    BY <2>1, TruthsHeld
<1> QED
  BY <1>2, <1>3 DEF TrueInv, DiskTrue, ProcTrue

\* What is true of a process that runs.
LEMMA TrueFacts ==
  ASSUME WorkerInv, TrueInv, NEW w \in Proc, proc[w].pc # "off"
  PROVE  /\ proc[w] \in ProcRecord /\ proc[w].m \in ManifestRecord /\ proc[w].op \in Op
         /\ Fresh(proc[w]) /\ CopyTrue(proc[w].op, proc[w].m)
         /\ CopyTrue(proc[w].op, manifest[proc[w].op])
         /\ manifest = [manifest EXCEPT ![proc[w].op] = manifest[proc[w].op]]
<1>1. Fresh(proc[w])
  BY DEF TrueInv, ProcTrue
<1>2. proc[w].op \in Op
  BY RunningFacts
<1> QED
  BY <1>1, <1>2, RunningFacts DEF Fresh, TrueInv, DiskTrue

\* A process that goes on without a save, or with another copy.
LEMMA MoveTrue ==
  ASSUME WorkerInv, TrueInv, NEW w \in Proc, proc[w].pc # "off", NEW p,
         proc' = [proc EXCEPT ![w] = p], UNCHANGED <<gpo, plan, own, starts, manifest>>,
         p.pc = "off" \/ Fresh(p)
  PROVE  TrueInv'
<1> DEFINE o == proc[w].op
           m == manifest[o]
<1>1. o \in Op /\ CopyTrue(o, m) /\ manifest' = [manifest EXCEPT ![o] = m]
  BY TrueFacts
<1> HIDE DEF o, m
<1> QED
  BY <1>1, StillStep

\* A process that ends, or goes on to a stage that relies on nothing new.
LEMMA GotoTrue ==
  ASSUME WorkerInv, TrueInv, NEW w \in Proc, proc[w].pc # "off",
         UNCHANGED <<gpo, plan, own, starts, manifest>>,
         \/ Ends(w)
         \/ \E x : /\ Goto(w, x) /\ x \notin {"publishing", "restored", "conclude"}
                   /\ x \in Writing => proc[w].pc \in Writing
  PROVE  TrueInv'
<1>1. CASE Ends(w)
  <2>1. proc' = [proc EXCEPT ![w] = Off] /\ Off.pc = "off"
    BY <1>1, InitialRecords DEF Ends
  <2> QED
    BY <2>1, MoveTrue
<1>2. ASSUME NEW x, Goto(w, x), x \notin {"publishing", "restored", "conclude"},
             x \in Writing => proc[w].pc \in Writing
      PROVE  TrueInv'
  <2> DEFINE p == [proc[w] EXCEPT !.pc = x]
  <2>1. /\ p.pc = x /\ p.op = proc[w].op /\ p.m = proc[w].m
    BY TrueFacts DEF ProcRecord
  <2>2. proc' = [proc EXCEPT ![w] = p]
    BY <1>2 DEF Goto, WorkerInv, TypeOK
  <2> HIDE DEF p
  <2>3. Fresh(p)
    BY <1>2, <2>1, TrueFacts DEF Fresh
  <2> QED
    BY <2>2, <2>3, MoveTrue
<1> QED
  BY <1>1, <1>2

\* A process that saves m and goes on.
LEMMA SaveTrue ==
  ASSUME WorkerInv, TrueInv, NEW w \in Proc, proc[w].pc # "off", NEW m, NEW x,
         SaveAndGoto(w, m, x), UNCHANGED <<gpo, plan, own>>,
         \A q \in Op : starts'[q] = 0 => starts[q] = 0,
         CopyTrue(proc[w].op, m), x \notin {"publishing", "restored", "conclude"},
         x \in Writing => own[proc[w].op] = gpo.rev
  PROVE  TrueInv'
<1> DEFINE p == [proc[w] EXCEPT !.m = m, !.pc = x]
           o == proc[w].op
<1>1. p.op = o /\ p.pc = x /\ p.m = m /\ o \in Op
  BY TrueFacts DEF ProcRecord
<1>2. proc' = [proc EXCEPT ![w] = p] /\ manifest' = [manifest EXCEPT ![o] = m]
  BY DEF SaveAndGoto, Save, OpOf, WorkerInv, TypeOK
<1>3. CopyTrue(o, m) /\ (x \in Writing => own[o] = gpo.rev)
  OBVIOUS
<1> HIDE DEF p, o
<1>4. Fresh(p)
  BY <1>1, <1>3 DEF Fresh
<1> QED
  BY <1>1, <1>2, <1>3, <1>4, StillStep

\* A process that saves m and ends.
LEMMA EndTrue ==
  ASSUME WorkerInv, TrueInv, NEW w \in Proc, proc[w].pc # "off", NEW m,
         Save(w, m), Ends(w), UNCHANGED <<gpo, plan, own, starts>>,
         CopyTrue(proc[w].op, m)
  PROVE  TrueInv'
<1> DEFINE o == proc[w].op
<1>1. /\ proc' = [proc EXCEPT ![w] = Off] /\ Off.pc = "off" /\ o \in Op
      /\ manifest' = [manifest EXCEPT ![o] = m] /\ CopyTrue(o, m)
  BY TrueFacts, InitialRecords DEF Ends, Save, OpOf
<1> HIDE DEF o
<1> QED
  BY <1>1, StillStep

\* A copy whose fingerprints stay is as true under a phase that claims less.
LEMMA SameTruth ==
  ASSUME NEW o, NEW c, NEW m, CopyTrue(o, c), m.post = c.post, m.restored = c.restored,
         m.before = c.before, m.phase = c.phase \/ m.phase \notin {"PUBLISHED", "ROLLED_BACK"}
  PROVE  CopyTrue(o, m)
  BY DEF CopyTrue, Restored

\* An apply that saves nothing true or false of the GPO yet.
LEMMA ApplyBegins ==
  ASSUME WorkerInv, TrueInv, NEW w \in Proc,
         ApplyLocks(w) \/ ApplyPreflight(w) \/ ApplyRecords(w) \/ ApplyBacksUp(w)
  PROVE  TrueInv'
<1>1. /\ proc[w].pc # "off" /\ UNCHANGED <<gpo, plan, own, starts>>
  BY DEF ApplyLocks, ApplyPreflight, ApplyRecords, ApplyBacksUp, At, Quiet
<1>2. CASE ApplyLocks(w) \/ ApplyPreflight(w)
  <2>1. UNCHANGED manifest
    BY <1>2 DEF ApplyLocks, ApplyPreflight
  <2>2. Ends(w) \/ \E x \in {"preflight", "record"} : Goto(w, x)
    BY <1>2 DEF ApplyLocks, ApplyPreflight
  <2> QED
    BY <1>1, <2>1, <2>2, GotoTrue DEF Writing
<1>3. CASE ApplyRecords(w)
  <2> DEFINE c == gpo.content
             m == [NoManifest EXCEPT !.phase = "BACKUP_STARTED", !.before = c]
  <2>1. SaveAndGoto(w, m, "backup")
    BY <1>3 DEF ApplyRecords
  <2>2. m.post = 0 /\ m.restored = 0 /\ m.phase = "BACKUP_STARTED"
    BY DEF NoManifest
  <2> HIDE DEF m
  <2>3. CopyTrue(proc[w].op, m)
    BY <2>2 DEF CopyTrue, WorkerInv, TypeOK, GpoSound
  <2> QED
    BY <1>1, <2>1, <2>3, SaveTrue DEF Writing
<1>4. CASE ApplyBacksUp(w)
  <2> DEFINE c == gpo.content
             m == [proc[w].m EXCEPT !.phase = "BACKED_UP", !.backup = TRUE, !.saved = c]
  <2>1. SaveAndGoto(w, m, "recheck")
    BY <1>4 DEF ApplyBacksUp
  <2>2. /\ m.post = proc[w].m.post /\ m.restored = proc[w].m.restored
        /\ m.before = proc[w].m.before /\ m.phase = "BACKED_UP"
    BY <1>1, TrueFacts DEF ManifestRecord
  <2> HIDE DEF m
  <2>3. CopyTrue(proc[w].op, m)
    BY <1>1, <2>2, TrueFacts, SameTruth
  <2> QED
    BY <1>1, <2>1, <2>3, SaveTrue DEF Writing
<1> QED
  BY <1>2, <1>3, <1>4

\* An operation that begins to write does so over the GPO of its plan, which
\* its preview left to it.
LEMMA ApplyStartsTrue ==
  ASSUME WorkerInv, TrueInv, NEW w \in Proc, ApplyStartsWriting(w)
  PROVE  TrueInv'
<1> DEFINE o == proc[w].op
           m == [proc[w].m EXCEPT !.phase = "WRITING"]
<1>1. /\ proc[w].pc = "recheck" /\ gpo.rev = plan[o].fp /\ SaveAndGoto(w, m, "writing")
      /\ starts' = [starts EXCEPT ![o] = IF @ < 2 THEN @ + 1 ELSE @]
      /\ UNCHANGED <<gpo, plan, own>>
  BY DEF ApplyStartsWriting, At, OpOf
<1>2. /\ m.post = proc[w].m.post /\ m.restored = proc[w].m.restored
      /\ m.before = proc[w].m.before /\ m.phase = "WRITING"
  BY <1>1, TrueFacts DEF ManifestRecord
<1>3. o \in Op /\ starts[o] = 0
  BY <1>1, RunningFacts DEF Sound
<1>4. own[o] = gpo.rev
  BY <1>1, <1>3 DEF TrueInv, DiskTrue
<1>5. CopyTrue(o, m)
  <2> HIDE DEF m
  <2> QED
    BY <1>1, <1>2, TrueFacts, SameTruth
<1>6. \A q \in Op : starts'[q] = 0 => starts[q] = 0
  BY <1>1, <1>3 DEF WorkerInv, TypeOK
<1> QED
  BY <1>1, <1>4, <1>5, <1>6, SaveTrue

\* The checkpoint has the fingerprint of what the operation itself has left.
LEMMA ApplyMarksTrue ==
  ASSUME WorkerInv, TrueInv, NEW w \in Proc, ApplyMarks(w)
  PROVE  TrueInv'
<1> DEFINE o == proc[w].op
           r == gpo.rev
           m == [proc[w].m EXCEPT !.phase = "PUBLICATION_PENDING", !.post = r]
<1>1. /\ proc[w].pc = "marking" /\ SaveAndGoto(w, m, "checking")
      /\ UNCHANGED <<gpo, plan, own, starts>>
  BY DEF ApplyMarks, At, Quiet
<1>2. r \in Nat
  BY DEF WorkerInv, TypeOK
<1>3. /\ m.post = r /\ m.restored = proc[w].m.restored /\ m.phase = "PUBLICATION_PENDING"
  BY <1>1, TrueFacts DEF ManifestRecord
<1>4. own[o] = gpo.rev /\ CopyTrue(o, proc[w].m)
  BY <1>1, TrueFacts DEF Fresh, Writing
<1>5. CopyTrue(o, m)
  <2> HIDE DEF m
  <2> QED
    BY <1>2, <1>3, <1>4 DEF CopyTrue
<1> QED
  BY <1>1, <1>4, <1>5, SaveTrue

\* The check is of the GPO as it still is when the result is saved.
LEMMA ApplyConcludesTrue ==
  ASSUME WorkerInv, TrueInv, NEW w \in Proc,
         ApplyChecks(w) \/ ApplyPublishes(w) \/ ApplyFails(w)
  PROVE  TrueInv'
<1> DEFINE o == proc[w].op
<1>1. proc[w].pc # "off" /\ UNCHANGED <<gpo, plan, own, starts>>
  BY DEF ApplyChecks, ApplyPublishes, ApplyFails, At, Quiet
<1>2. gpo.rev \in Nat
  BY DEF WorkerInv, TypeOK
<1>3. CASE ApplyChecks(w)
  <2>1. PICK seen \in {FALSE, Applied(OpOf(w))} :
          proc' = [proc EXCEPT ![w].seen = seen, ![w].pc = "publishing"]
    BY <1>3 DEF ApplyChecks
  <2> DEFINE p == [proc[w] EXCEPT !.seen = seen, !.pc = "publishing"]
  <2>2. proc' = [proc EXCEPT ![w] = p]
    BY <2>1 DEF WorkerInv, TypeOK
  <2>3. p.pc = "publishing" /\ p.op = o /\ p.m = proc[w].m /\ (p.seen = seen)
    BY <1>1, TrueFacts DEF ProcRecord
  <2>4. proc[w].pc = "checking" /\ UNCHANGED manifest
    BY <1>3 DEF ApplyChecks, At
  <2>5. CopyTrue(o, proc[w].m) /\ own[o] = gpo.rev
    BY <2>4, TrueFacts DEF Fresh, Writing
  <2> HIDE DEF p
  <2>6. p.seen => Applied(p.op)
    BY <2>1, <2>3 DEF OpOf
  <2>7. Fresh(p)
    BY <2>3, <2>5, <2>6 DEF Fresh
  <2> QED
    BY <1>1, <2>2, <2>4, <2>7, MoveTrue
<1>4. CASE ApplyPublishes(w)
  <2> DEFINE r == gpo.rev
             x == IF proc[w].seen THEN "PUBLISHED" ELSE "VERIFY_MISMATCH"
             m == [proc[w].m EXCEPT !.post = r, !.phase = x]
  <2>1. proc[w].pc = "publishing" /\ Save(w, m) /\ Ends(w)
    BY <1>4 DEF ApplyPublishes, At
  <2>2. /\ m.post = r /\ m.restored = proc[w].m.restored /\ m.phase = x
    BY <1>1, TrueFacts DEF ManifestRecord
  <2>3. /\ own[o] = gpo.rev /\ CopyTrue(o, proc[w].m)
        /\ proc[w].seen => Applied(o)
    BY <1>1, <2>1, TrueFacts DEF Fresh, Writing
  <2> HIDE DEF m
  <2>4. CopyTrue(o, m)
    BY <1>2, <2>2, <2>3 DEF CopyTrue
  <2> QED
    BY <1>1, <2>1, <2>4, EndTrue
<1>5. CASE ApplyFails(w)
  <2> DEFINE x == IF proc[w].m.phase \in Unwritten THEN "FAILED_SAFE" ELSE "REVIEW_REQUIRED"
             b == proc[w].pc \in {"checking", "publishing"}
             m == [proc[w].m EXCEPT !.phase = x, !.atCheck = b]
  <2>1. Save(w, m) /\ Ends(w)
    BY <1>5 DEF ApplyFails
  <2>2. /\ m.post = proc[w].m.post /\ m.restored = proc[w].m.restored
        /\ m.before = proc[w].m.before /\ m.phase \notin {"PUBLISHED", "ROLLED_BACK"}
    BY <1>1, TrueFacts DEF ManifestRecord
  <2> HIDE DEF m
  <2>3. CopyTrue(o, m)
    BY <1>1, <2>2, TrueFacts, SameTruth
  <2> QED
    BY <1>1, <2>1, <2>3, EndTrue
<1> QED
  BY <1>3, <1>4, <1>5

\* A rollback until it changes the GPO. It reconciles an interrupted publication
\* only over the fingerprint that the checkpoint saved.
LEMMA RollbackBegins ==
  ASSUME WorkerInv, TrueInv, NEW w \in Proc,
         \/ RollbackReads(w) \/ RollbackLocks(w) \/ RollbackReconciles(w)
         \/ RollbackCompares(w) \/ RollbackStopsEarly(w) \/ RollbackStarts(w)
  PROVE  TrueInv'
<1> DEFINE o == proc[w].op
<1>1. proc[w].pc # "off" /\ UNCHANGED <<gpo, plan, own, starts>>
  BY DEF RollbackReads, RollbackLocks, RollbackReconciles, RollbackCompares,
         RollbackStopsEarly, RollbackStarts, At, Quiet
<1>2. CASE RollbackReads(w)
  <2>1. UNCHANGED manifest
    BY <1>2 DEF RollbackReads
  <2>2. CASE Ends(w)
    BY <1>1, <2>1, <2>2, GotoTrue
  <2>3. CASE proc' = [proc EXCEPT ![w].m = manifest[OpOf(w)], ![w].pc = "locking"]
    <3> DEFINE p == [proc[w] EXCEPT !.m = manifest[o], !.pc = "locking"]
    <3>1. proc' = [proc EXCEPT ![w] = p]
      BY <2>3 DEF OpOf, WorkerInv, TypeOK
    <3>2. p.pc = "locking" /\ p.op = o /\ p.m = manifest[o]
      BY <1>1, TrueFacts DEF ProcRecord
    <3> HIDE DEF p
    <3>3. Fresh(p)
      BY <1>1, <3>2, TrueFacts DEF Fresh, Writing
    <3> QED
      BY <1>1, <2>1, <3>1, <3>3, MoveTrue
  <2> QED
    BY <1>2, <2>2, <2>3 DEF RollbackReads
<1>3. CASE RollbackLocks(w) \/ RollbackCompares(w)
  <2>1. UNCHANGED manifest
    BY <1>3 DEF RollbackLocks, RollbackCompares
  <2>2. Ends(w) \/ \E x \in {"reconcile", "access"} : Goto(w, x)
    BY <1>3 DEF RollbackLocks, RollbackCompares
  <2> QED
    BY <1>1, <2>1, <2>2, GotoTrue DEF Writing
<1>4. CASE RollbackReconciles(w)
  <2>1. CASE Goto(w, "compare") /\ UNCHANGED manifest
    BY <1>1, <2>1, GotoTrue DEF Writing
  <2> DEFINE m == [proc[w].m EXCEPT !.phase = "PUBLISHED"]
  <2>2. CASE Reconciles(o, proc[w].m) /\ SaveAndGoto(w, m, "compare")
    <3>1. /\ m.post = proc[w].m.post /\ m.restored = proc[w].m.restored
          /\ m.before = proc[w].m.before /\ m.phase = "PUBLISHED"
      BY <1>1, TrueFacts DEF ManifestRecord
    <3>2. CopyTrue(o, proc[w].m) /\ Applied(o)
      BY <1>1, <2>2, TrueFacts DEF Reconciles
    <3>3. SaveAndGoto(w, m, "compare")
      BY <2>2
    <3> HIDE DEF m
    <3>4. CopyTrue(o, m)
      BY <3>1, <3>2 DEF CopyTrue
    <3> QED
      BY <1>1, <3>3, <3>4, SaveTrue DEF Writing
  <2> QED
    BY <1>4, <2>1, <2>2 DEF RollbackReconciles, OpOf
<1>5. CASE RollbackStopsEarly(w)
  <2> DEFINE m == [proc[w].m EXCEPT !.restoreFailed = TRUE]
  <2>1. Save(w, m) /\ Ends(w)
    BY <1>5 DEF RollbackStopsEarly
  <2>2. /\ m.post = proc[w].m.post /\ m.restored = proc[w].m.restored
        /\ m.before = proc[w].m.before /\ m.phase = proc[w].m.phase
    BY <1>1, TrueFacts DEF ManifestRecord
  <2> HIDE DEF m
  <2>3. CopyTrue(o, m)
    BY <1>1, <2>2, TrueFacts, SameTruth
  <2> QED
    BY <1>1, <2>1, <2>3, EndTrue
<1>6. CASE RollbackStarts(w)
  <2> DEFINE m == [proc[w].m EXCEPT !.phase = "ROLLING_BACK"]
  <2>1. SaveAndGoto(w, m, "import")
    BY <1>6 DEF RollbackStarts
  <2>2. /\ m.post = proc[w].m.post /\ m.restored = proc[w].m.restored
        /\ m.before = proc[w].m.before /\ m.phase = "ROLLING_BACK"
    BY <1>1, TrueFacts DEF ManifestRecord
  <2> HIDE DEF m
  <2>3. CopyTrue(o, m)
    BY <1>1, <2>2, TrueFacts, SameTruth
  <2> QED
    BY <1>1, <2>1, <2>3, SaveTrue DEF Writing
<1> QED
  BY <1>2, <1>3, <1>4, <1>5, <1>6

\* A restore is reported over what was read back, under its fingerprint.
LEMMA RollbackConcludesTrue ==
  ASSUME WorkerInv, TrueInv, NEW w \in Proc,
         RollbackReadsBack(w) \/ RollbackConcludes(w) \/ RollbackFails(w)
  PROVE  TrueInv'
<1> DEFINE o == proc[w].op
<1>1. proc[w].pc # "off" /\ UNCHANGED <<gpo, plan, own, starts>>
  BY DEF RollbackReadsBack, RollbackConcludes, RollbackFails, At, Quiet
<1>2. CASE RollbackReadsBack(w)
  <2>1. PICK seen \in {FALSE, Restored(OpOf(w), proc[w].m)} :
          proc' = [proc EXCEPT ![w].seen = seen, ![w].pc = "restored"]
    BY <1>2 DEF RollbackReadsBack
  <2> DEFINE p == [proc[w] EXCEPT !.seen = seen, !.pc = "restored"]
  <2>2. proc' = [proc EXCEPT ![w] = p]
    BY <2>1 DEF WorkerInv, TypeOK
  <2>3. p.pc = "restored" /\ p.op = o /\ p.m = proc[w].m /\ (p.seen = seen)
    BY <1>1, TrueFacts DEF ProcRecord
  <2>4. UNCHANGED manifest /\ CopyTrue(o, proc[w].m)
    BY <1>1, <1>2, TrueFacts DEF RollbackReadsBack
  <2> HIDE DEF p
  <2>5. p.seen => Restored(p.op, p.m)
    BY <2>1, <2>3 DEF OpOf
  <2>6. Fresh(p)
    BY <2>3, <2>4, <2>5 DEF Fresh, Writing
  <2> QED
    BY <1>1, <2>2, <2>4, <2>6, MoveTrue
<1>3. CASE RollbackConcludes(w)
  <2> DEFINE r == gpo.rev
             d == [proc[w].m EXCEPT !.phase = "ROLLED_BACK", !.restored = r]
             q == [proc[w].m EXCEPT !.phase = "ROLLBACK_REVIEW_REQUIRED"]
             m == IF proc[w].seen THEN d ELSE q
  <2>1. proc[w].pc = "restored" /\ Save(w, m) /\ Ends(w)
    BY <1>3 DEF RollbackConcludes, At
  <2>2. /\ d.post = proc[w].m.post /\ d.restored = r
        /\ d.before = proc[w].m.before /\ d.phase = "ROLLED_BACK"
        /\ q.post = proc[w].m.post /\ q.restored = proc[w].m.restored
        /\ q.before = proc[w].m.before /\ q.phase = "ROLLBACK_REVIEW_REQUIRED"
    BY <1>1, TrueFacts DEF ManifestRecord
  <2>3. CopyTrue(o, proc[w].m) /\ (proc[w].seen => Restored(o, proc[w].m)) /\ r \in Nat
    BY <1>1, <2>1, TrueFacts DEF Fresh, WorkerInv, TypeOK
  <2> HIDE DEF d, q
  <2>4. CASE proc[w].seen
    <3>1. CopyTrue(o, d)
      BY <2>2, <2>3, <2>4 DEF CopyTrue, Restored
    <3> QED
      BY <1>1, <2>1, <2>4, <3>1, EndTrue
  <2>5. CASE ~proc[w].seen
    <3>1. CopyTrue(o, q)
      BY <2>2, <2>3, SameTruth
    <3> QED
      BY <1>1, <2>1, <2>5, <3>1, EndTrue
  <2> QED
    BY <2>4, <2>5
<1>4. CASE RollbackFails(w)
  <2> DEFINE m == [proc[w].m EXCEPT !.phase = "ROLLBACK_REVIEW_REQUIRED", !.restoreFailed = TRUE]
  <2>1. Save(w, m) /\ Ends(w)
    BY <1>4 DEF RollbackFails
  <2>2. /\ m.post = proc[w].m.post /\ m.restored = proc[w].m.restored
        /\ m.before = proc[w].m.before /\ m.phase = "ROLLBACK_REVIEW_REQUIRED"
    BY <1>1, TrueFacts DEF ManifestRecord
  <2> HIDE DEF m
  <2>3. CopyTrue(o, m)
    BY <1>1, <2>2, TrueFacts, SameTruth
  <2> QED
    BY <1>1, <2>1, <2>3, EndTrue
<1> QED
  BY <1>2, <1>3, <1>4

\* A status check: what it reads, compares and saves.
LEMMA CheckTrue ==
  ASSUME WorkerInv, TrueInv, NEW w \in Proc, CheckStep(w)
  PROVE  TrueInv'
<1> DEFINE o == proc[w].op
<1>1. proc[w].pc # "off" /\ UNCHANGED <<gpo, plan, own, starts>>
  BY DEF CheckStep, CheckReads, CheckLooks, CheckConcludes, At, Quiet
<1>2. CASE CheckReads(w)
  <2>1. UNCHANGED manifest
    BY <1>2 DEF CheckReads
  <2>2. CASE Ends(w)
    BY <1>1, <2>1, <2>2, GotoTrue
  <2>3. CASE proc' = [proc EXCEPT ![w].m = manifest[OpOf(w)], ![w].pc = "look"]
    <3> DEFINE p == [proc[w] EXCEPT !.m = manifest[o], !.pc = "look"]
    <3>1. proc' = [proc EXCEPT ![w] = p]
      BY <2>3 DEF OpOf, WorkerInv, TypeOK
    <3>2. p.pc = "look" /\ p.op = o /\ p.m = manifest[o]
      BY <1>1, TrueFacts DEF ProcRecord
    <3> HIDE DEF p
    <3>3. Fresh(p)
      BY <1>1, <3>2, TrueFacts DEF Fresh, Writing
    <3> QED
      BY <1>1, <2>1, <3>1, <3>3, MoveTrue
  <2> QED
    BY <1>2, <2>2, <2>3 DEF CheckReads
<1>3. CASE CheckLooks(w)
  <2>1. CASE UNCHANGED manifest /\ Ends(w)
    BY <1>1, <2>1, GotoTrue
  <2>2. CASE UNCHANGED manifest /\ \E seen \in {FALSE, Restored(o, proc[w].m)} :
                proc' = [proc EXCEPT ![w].seen = seen, ![w].pc = "conclude"]
    <3>1. PICK seen \in {FALSE, Restored(o, proc[w].m)} :
            proc' = [proc EXCEPT ![w].seen = seen, ![w].pc = "conclude"]
      BY <2>2
    <3> DEFINE p == [proc[w] EXCEPT !.seen = seen, !.pc = "conclude"]
    <3>2. proc' = [proc EXCEPT ![w] = p]
      BY <3>1 DEF WorkerInv, TypeOK
    <3>3. p.pc = "conclude" /\ p.op = o /\ p.m = proc[w].m /\ (p.seen = seen)
      BY <1>1, TrueFacts DEF ProcRecord
    <3>4. CopyTrue(o, proc[w].m)
      BY <1>1, TrueFacts
    <3> HIDE DEF p
    <3>5. p.seen => Restored(p.op, p.m)
      BY <3>1, <3>3
    <3>6. Fresh(p)
      BY <3>3, <3>4, <3>5 DEF Fresh, Writing
    <3> QED
      BY <1>1, <2>2, <3>2, <3>6, MoveTrue
  <2> DEFINE m == [proc[w].m EXCEPT !.phase = "PUBLISHED"]
  <2>3. CASE Reconciles(o, proc[w].m) /\ Save(w, m) /\ Ends(w)
    <3>1. /\ m.post = proc[w].m.post /\ m.restored = proc[w].m.restored
          /\ m.before = proc[w].m.before /\ m.phase = "PUBLISHED"
      BY <1>1, TrueFacts DEF ManifestRecord
    <3>2. CopyTrue(o, proc[w].m) /\ Applied(o)
      BY <1>1, <2>3, TrueFacts DEF Reconciles
    <3>3. Save(w, m) /\ Ends(w)
      BY <2>3
    <3> HIDE DEF m
    <3>4. CopyTrue(o, m)
      BY <3>1, <3>2 DEF CopyTrue
    <3> QED
      BY <1>1, <3>3, <3>4, EndTrue
  <2> QED
    BY <1>3, <2>1, <2>2, <2>3 DEF CheckLooks, OpOf
<1>4. CASE CheckConcludes(w)
  <2>1. proc[w].pc = "conclude" /\ Ends(w)
    BY <1>4 DEF CheckConcludes, At
  <2>2. CASE UNCHANGED manifest
    BY <1>1, <2>1, <2>2, GotoTrue
  <2>3. CASE \E m \in Concluded(proc[w].kind, proc[w].m, proc[w].seen) : Save(w, m)
    <3>1. PICK m \in Concluded(proc[w].kind, proc[w].m, proc[w].seen) : Save(w, m)
      BY <2>3
    <3> DEFINE c == proc[w].m
    <3>2. CopyTrue(o, c) /\ (proc[w].seen => Restored(o, c))
      BY <1>1, <2>1, TrueFacts DEF Fresh
    <3>4. gpo.rev \in Nat /\ c \in ManifestRecord /\ proc[w].seen \in BOOLEAN
      BY <1>1, TrueFacts DEF ProcRecord, WorkerInv, TypeOK
    <3>5. LooksRestored(proc[w].kind, c)
      BY <1>1, <2>1, RunningFacts DEF Sound
    <3>6. /\ m.before = c.before /\ m.post = c.post /\ m.phase \in RollingBack
          /\ \/ m = c
             \/ m.phase = "ROLLED_BACK" /\ m.restored = gpo.rev /\ proc[w].seen
             \/ m.phase # "ROLLED_BACK" /\ m.restored = c.restored
      BY <3>1, <3>4, <3>5, ConcludedCopies
    <3> HIDE DEF c
    <3>3. CopyTrue(o, m)
      BY <3>2, <3>4, <3>6 DEF CopyTrue, Restored, RollingBack
    <3> QED
      BY <1>1, <2>1, <3>1, <3>3, EndTrue
  <2> QED
    BY <1>4, <2>2, <2>3 DEF CheckConcludes
<1> QED
  BY <1>2, <1>3, <1>4 DEF CheckStep

-----------------------------------------------------------------------------
(* Steps that change the GPO.                                               *)

\* A new fingerprint outdates every saved one.
LEMMA Outdated ==
  ASSUME gpo.rev \in Nat, gpo'.rev = gpo.rev + 1
  PROVE  /\ \A o, m : CopyTrue(o, m) => CopyTrue(o, m)'
         /\ \A p : /\ CopyTrue(p.op, p.m)
                   /\ p.pc \in Writing => own'[p.op] = gpo'.rev
                   /\ p.pc \notin {"publishing", "restored", "conclude"}
                   => Fresh(p)'
<1>1. ASSUME NEW o, NEW m, CopyTrue(o, m) PROVE CopyTrue(o, m)'
  <2>1. m.post \in 0..gpo'.rev /\ m.post # gpo'.rev
    BY <1>1 DEF CopyTrue
  <2>2. m.restored \in 0..gpo'.rev /\ m.restored # gpo'.rev
    BY <1>1 DEF CopyTrue
  <2> QED
    BY <2>1, <2>2 DEF CopyTrue
<1>2. ASSUME NEW p, CopyTrue(p.op, p.m), p.pc \in Writing => own'[p.op] = gpo'.rev,
             p.pc \notin {"publishing", "restored", "conclude"}
      PROVE  Fresh(p)'
  <2>1. CopyTrue(p.op, p.m)'
    BY <1>1, <1>2
  <2> QED
    BY <1>2, <2>1 DEF Fresh
<1> QED
  BY <1>1, <1>2

\* A process under the lock changes the GPO: no other writes, restores or is
\* about to conclude.
LEMMA ChangeTrue ==
  ASSUME Overlap = "none", WorkerInv, TrueInv, NEW w \in Proc, proc[w].pc # "off",
         NEW after, NEW c, NEW linked, Changes(w, after, c, linked),
         UNCHANGED <<plan, manifest, starts>>,
         \/ proc[w].pc \in Writing /\ after = proc[w].op
         \/ proc[w].pc \in Restoring,
         \/ UNCHANGED proc /\ proc[w].pc \notin {"publishing", "restored"}
         \/ \E x : /\ Goto(w, x) /\ x \notin {"publishing", "restored", "conclude"}
                   /\ x \in Writing => proc[w].pc \in Writing
  PROVE  TrueInv'
<1> DEFINE o == proc[w].op
<1>1. /\ gpo'.rev = gpo.rev + 1 /\ gpo.rev \in Nat
      /\ \A v \in Proc \ {w} : proc[v].pc # "conclude"
  BY DEF Changes, At, WorkerInv, TypeOK
<1>2. /\ \A q \in Op \ {o} : own'[q] = own[q]
      /\ gpo.rev = own[after] => own'[o] = gpo'.rev
  <2>1. own \in [Op -> Nat] /\ o \in Op
    BY RunningFacts DEF WorkerInv, TypeOK
  <2> QED
    BY <1>1, <2>1 DEF Changes, OpOf
<1>3. lock = w /\ starts[o] # 0
  BY RunningFacts DEF Locked, Sound, CopySafe
<1>4. DiskTrue'
  <2> SUFFICES ASSUME NEW q \in Op
               PROVE  CopyTrue(q, manifest[q])' /\ (starts'[q] = 0 => own'[q] = plan'[q].fp)
    BY DEF DiskTrue
  <2>1. CopyTrue(q, manifest[q]) /\ (starts[q] = 0 => own[q] = plan[q].fp)
    BY DEF TrueInv, DiskTrue
  <2>2. CopyTrue(q, manifest[q])'
    BY <1>1, <2>1, Outdated
  <2> QED
    BY <1>2, <1>3, <2>1, <2>2
<1>5. ProcTrue'
  <2> SUFFICES ASSUME NEW v \in Proc, proc'[v].pc # "off" PROVE Fresh(proc[v])'
    BY DEF ProcTrue
  <2>1. CASE v = w
    <3>1. /\ proc'[w].op = o /\ proc'[w].m = proc[w].m
          /\ proc'[w].pc \notin {"publishing", "restored", "conclude"}
          /\ proc'[w].pc \in Writing => proc[w].pc \in Writing
      <4>1. proc \in [Proc -> ProcRecord]
        BY DEF WorkerInv, TypeOK
      <4>2. CASE UNCHANGED proc /\ proc[w].pc \notin {"publishing", "restored"}
        BY <4>2 DEF Restoring, Writing
      <4>3. CASE \E x : /\ Goto(w, x) /\ x \notin {"publishing", "restored", "conclude"}
                        /\ x \in Writing => proc[w].pc \in Writing
        BY <4>1, <4>3 DEF Goto, ProcRecord
      <4> QED
        BY <4>2, <4>3
    <3>2. Fresh(proc[w])
      BY TrueFacts
    <3>3. CopyTrue(o, proc[w].m)
      BY <3>2 DEF Fresh
    <3>4. proc'[w].pc \in Writing => own'[o] = gpo'.rev
      <4> SUFFICES ASSUME proc[w].pc \in Writing PROVE own'[o] = gpo'.rev
        BY <3>1
      <4>1. after = o /\ own[o] = gpo.rev
        BY <3>2 DEF Fresh, Writing, Restoring
      <4> QED
        BY <1>2, <4>1
    <3> QED
      BY <1>1, <2>1, <3>1, <3>3, <3>4, Outdated
  <2>2. CASE v # w
    <3>1. proc'[v] = proc[v]
      BY <2>2 DEF Goto, WorkerInv, TypeOK
    <3>2. Fresh(proc[v]) /\ proc[v].pc \notin Locked
      BY <1>3, <2>2, <3>1, RunningFacts, TrueFacts
    <3>3. CopyTrue(proc[v].op, proc[v].m)
      BY <3>2 DEF Fresh
    <3>4. proc[v].pc \notin Writing \cup {"publishing", "restored", "conclude"}
      BY <1>1, <2>2, <3>2 DEF Locked, Writing, Restoring
    <3> QED
      BY <1>1, <3>1, <3>3, <3>4, Outdated
  <2> QED
    BY <2>1, <2>2
<1> QED
  BY <1>4, <1>5 DEF TrueInv

\* An apply changes what its plan and its own writes have left.
LEMMA ApplyChangesTrue ==
  ASSUME Overlap = "none", WorkerInv, TrueInv, NEW w \in Proc, ApplyWrites(w) \/ ApplyLinks(w)
  PROVE  TrueInv'
<1> DEFINE o == proc[w].op
<1>1. /\ proc[w].pc \in {"writing", "linking"} /\ proc[w].pc # "off" /\ proc[w].pc \in Writing
      /\ UNCHANGED manifest
  BY DEF ApplyWrites, ApplyLinks, At, Writing
<1>2. CASE Quiet
  <2>1. UNCHANGED <<gpo, plan, own, starts>>
    BY <1>2 DEF Quiet
  <2>2. \E x \in {"linking", "marking"} : Goto(w, x)
    <3>1. gpo'.rev = gpo.rev /\ gpo.rev \in Nat
      BY <2>1 DEF WorkerInv, TypeOK
    <3> QED
      BY <3>1 DEF ApplyWrites, ApplyLinks, Changes
  <2> QED
    BY <1>1, <2>1, <2>2, GotoTrue
<1>3. CASE ~Quiet
  <2>1. UNCHANGED <<plan, starts>> /\ \E c, linked : Changes(w, o, c, linked)
    BY <1>3 DEF ApplyWrites, ApplyLinks, OpOf
  <2>2. UNCHANGED proc \/ Goto(w, "marking")
    BY <1>3 DEF ApplyWrites, ApplyLinks
  <2> QED
    BY <1>1, <2>1, <2>2, ChangeTrue
<1> QED
  BY <1>2, <1>3

\* A restore changes the GPO.
LEMMA RollbackChangesTrue ==
  ASSUME Overlap = "none", WorkerInv, TrueInv, NEW w \in Proc,
         RollbackImports(w) \/ RollbackRelinks(w)
  PROVE  TrueInv'
<1>1. /\ proc[w].pc # "off" /\ proc[w].pc \in Restoring
      /\ UNCHANGED manifest /\ \E x \in {"relink", "readback"} : Goto(w, x)
  BY DEF RollbackImports, RollbackRelinks, At, Restoring
<1>2. \/ UNCHANGED <<gpo, plan, own, starts>>
      \/ UNCHANGED <<plan, starts>> /\ \E a, c, linked : Changes(w, a, c, linked)
  BY DEF RollbackImports, RollbackRelinks, Quiet
<1>3. CASE UNCHANGED <<gpo, plan, own, starts>>
  BY <1>1, <1>3, GotoTrue DEF Writing
<1>4. CASE UNCHANGED <<plan, starts>> /\ \E a, c, linked : Changes(w, a, c, linked)
  BY <1>1, <1>4, ChangeTrue DEF Writing
<1> QED
  BY <1>2, <1>3, <1>4

\* Another tool changes the GPO: no process relies on it then.
LEMMA EditTrue ==
  ASSUME Overlap = "none", WorkerInv, TrueInv, Edit
  PROVE  TrueInv'
<1>1. /\ gpo'.rev = gpo.rev + 1 /\ gpo.rev \in Nat
      /\ UNCHANGED <<plan, manifest, proc, own, starts>>
  BY DEF Edit, WorkerInv, TypeOK
<1>2. \A v \in Proc : proc[v].pc \notin Writing \cup {"publishing", "restored", "conclude"}
  BY DEF Edit, InWindow, Writing
<1>3. ASSUME NEW q \in Op
      PROVE  CopyTrue(q, manifest[q])' /\ (starts'[q] = 0 => own'[q] = plan'[q].fp)
  BY <1>1, Outdated DEF TrueInv, DiskTrue
<1>4. ASSUME NEW v \in Proc, proc'[v].pc # "off" PROVE Fresh(proc[v])'
  <2>1. CopyTrue(proc[v].op, proc[v].m)
    BY <1>1, <1>4 DEF TrueInv, ProcTrue, Fresh
  <2> QED
    BY <1>1, <1>2, <2>1, Outdated
<1> QED
  BY <1>3, <1>4 DEF TrueInv, DiskTrue, ProcTrue

-----------------------------------------------------------------------------
(* The service.                                                             *)

\* A preview is of the GPO as it is; nothing was saved for its operation yet.
LEMMA PreviewTrue ==
  ASSUME WorkerInv, TrueInv, NEW o \in Op, Preview(o)
  PROVE  TrueInv'
<1> DEFINE n == [fp |-> gpo.rev, content |-> gpo.content, linked |-> gpo.linked]
           r == gpo.rev
<1>1. /\ plan[o] = NoPlan /\ plan' = [plan EXCEPT ![o] = n] /\ own' = [own EXCEPT ![o] = r]
      /\ UNCHANGED <<gpo, manifest, proc, starts>> /\ n.fp = r
  BY DEF Preview
<1> HIDE DEF n
<1>2. /\ plan'[o] = n /\ own'[o] = r
      /\ \A q \in Op \ {o} : plan'[q] = plan[q] /\ own'[q] = own[q]
  BY <1>1 DEF WorkerInv, TypeOK
<1>3. plan[o].fp = 0
  BY <1>1 DEF NoPlan
<1>4. ASSUME NEW q \in Op, NEW m, CopyTrue(q, m), CopySafe(q, m),
             m.phase \in Phase
      PROVE  CopyTrue(q, m)'
  <2>1. CASE q = o
    <3>1. m.phase = "none"
      BY <1>3, <1>4, <2>1 DEF CopySafe
    <3> QED
      BY <1>1, <1>2, <1>4, <2>1, <3>1 DEF CopyTrue
  <2>2. CASE q # o
    BY <1>1, <1>2, <1>4, <2>2 DEF CopyTrue, Applied, Restored
  <2> QED
    BY <2>1, <2>2
<1>5. ASSUME NEW q \in Op
      PROVE  CopyTrue(q, manifest[q])' /\ (starts'[q] = 0 => own'[q] = plan'[q].fp)
  <2>1. /\ CopyTrue(q, manifest[q]) /\ CopySafe(q, manifest[q]) /\ manifest[q].phase \in Phase
        /\ starts[q] = 0 => own[q] = plan[q].fp
    BY DEF TrueInv, DiskTrue, WorkerInv, DiskSound, Kept, TypeOK, ManifestRecord
  <2>2. CopyTrue(q, manifest[q])'
    BY <1>1, <1>4, <2>1
  <2> QED
    BY <1>1, <1>2, <2>1, <2>2
<1>6. ASSUME NEW v \in Proc, proc'[v].pc # "off" PROVE Fresh(proc[v])'
  <2>1. /\ proc'[v] = proc[v] /\ Fresh(proc[v]) /\ proc[v].op \in Op /\ plan[proc[v].op].fp # 0
        /\ CopySafe(proc[v].op, proc[v].m) /\ proc[v].m.phase \in Phase
    BY <1>1, <1>6, TrueFacts, RunningFacts DEF Sound, ManifestRecord
  <2>2. CopyTrue(proc[v].op, proc[v].m)'
    BY <1>1, <1>4, <2>1 DEF Fresh
  <2>3. proc[v].op # o
    BY <1>3, <2>1
  <2> QED
    BY <1>1, <1>2, <2>1, <2>2, <2>3 DEF Fresh, Applied, Restored
<1> QED
  BY <1>5, <1>6 DEF TrueInv, DiskTrue, ProcTrue

\* A worker that starts knows nothing; one that ends or is left alone is no
\* concern of the others.
LEMMA ServiceTrue ==
  ASSUME WorkerInv, TrueInv, NEW w \in Proc,
         \/ \E kind \in Kind, o \in Op, anchor \in Op \cup {NoOp} : Launch(w, kind, o, anchor)
         \/ GiveUp(w) \/ Killed(w)
  PROVE  TrueInv'
<1>1. CASE GiveUp(w)
  <2>1. UNCHANGED <<gpo, plan, own, starts, manifest, proc>>
    BY <1>1 DEF GiveUp, Stops
  <2>2. ASSUME NEW v \in Proc, proc'[v].pc # "off" PROVE Fresh(proc[v])'
    BY <2>1, <2>2, TruthsHeld DEF TrueInv, ProcTrue
  <2> QED
    BY <2>1, <2>2, TruthsHeld DEF TrueInv, DiskTrue, ProcTrue
<1>2. CASE Killed(w)
  BY <1>2, GotoTrue DEF Killed, Stops, At
<1>3. ASSUME NEW kind \in Kind, NEW o \in Op, NEW anchor \in Op \cup {NoOp},
             Launch(w, kind, o, anchor)
      PROVE  TrueInv'
  <2> DEFINE e == IF anchor = NoOp THEN 0 ELSE manifest[anchor].post
             p == [Off EXCEPT !.pc = "start", !.kind = kind, !.op = o, !.anchor = anchor,
                              !.expect = e]
             m == manifest[o]
  <2>1. /\ proc' = [proc EXCEPT ![w] = p] /\ UNCHANGED <<gpo, plan, own, starts, manifest>>
    BY <1>3 DEF Launch, Quiet
  <2> HIDE DEF e
  <2>2. p.pc = "start" /\ p.op = o /\ p.m = NoManifest
    BY InitialRecords DEF Off
  <2> HIDE DEF p
  <2>3. CopyTrue(o, NoManifest)
    BY InitialRecords DEF CopyTrue, WorkerInv, TypeOK, GpoSound
  <2>4. Fresh(p)
    BY <2>2, <2>3 DEF Fresh, Writing
  <2>5. manifest' = [manifest EXCEPT ![o] = m] /\ CopyTrue(o, m)
    BY <2>1 DEF WorkerInv, TypeOK, TrueInv, DiskTrue
  <2> HIDE DEF m
  <2> QED
    BY <2>1, <2>4, <2>5, StillStep
<1> QED
  BY <1>1, <1>2, <1>3

\* Every step keeps the second invariant, and so does a stutter.
LEMMA TrueStep ==
  ASSUME Overlap = "none", WorkerInv, TrueInv, [Next]_vars
  PROVE  TrueInv'
<1>1. ASSUME NEW o \in Op, Preview(o) PROVE TrueInv'
  BY <1>1, PreviewTrue
<1>2. ASSUME NEW w \in Proc,
             \/ \E kind \in Kind, o \in Op, anchor \in Op \cup {NoOp} : Launch(w, kind, o, anchor)
             \/ GiveUp(w) \/ Killed(w)
      PROVE TrueInv'
  BY <1>2, ServiceTrue
<1>3. ASSUME NEW w \in Proc, ApplyStep(w) PROVE TrueInv'
  BY <1>3, ApplyBegins, ApplyStartsTrue, ApplyChangesTrue, ApplyMarksTrue, ApplyConcludesTrue
     DEF ApplyStep
<1>4. ASSUME NEW w \in Proc, RollbackStep(w) PROVE TrueInv'
  BY <1>4, RollbackBegins, RollbackChangesTrue, RollbackConcludesTrue DEF RollbackStep
<1>5. ASSUME NEW w \in Proc, CheckStep(w) PROVE TrueInv'
  BY <1>5, CheckTrue
<1>6. CASE Edit
  BY <1>6, EditTrue
<1>7. CASE UNCHANGED vars
  <2>1. UNCHANGED <<gpo, plan, own, starts, manifest, proc>>
    BY <1>7 DEF vars
  <2>2. ASSUME NEW v \in Proc, proc'[v].pc # "off" PROVE Fresh(proc[v])'
    BY <2>1, <2>2, TruthsHeld DEF TrueInv, ProcTrue
  <2> QED
    BY <2>1, <2>2, TruthsHeld DEF TrueInv, DiskTrue, ProcTrue
<1> QED
  BY <1>1, <1>2, <1>3, <1>4, <1>5, <1>6, <1>7 DEF Next

\* With no change between a comparison and the fingerprint saved for it, what
\* is true of the saved fingerprints at the start stays true.
THEOREM FingerprintsHold ==
  ASSUME Overlap = "none"
  PROVE  Spec => []TrueInv
  BY TrueInitInv, TrueStep, WorkerInductive, PTL DEF Spec

\* A saved fingerprint that still matches proves the state it was saved for
\* (Verify-Published, Verify-Rollback), if nobody changes the GPO between a
\* comparison and the fingerprint that is saved for it.
THEOREM FingerprintsProve ==
  ASSUME Overlap = "none"
  PROVE  Spec => []FingerprintProves
<1>1. TrueInv => FingerprintProves
  BY DEF TrueInv, DiskTrue, CopyTrue, Applied, Restored, FingerprintProves
<1> QED
  BY FingerprintsHold, <1>1, PTL

\* Only the comparison takes a process from "compare" to "access".
LEMMA OnlyComparison ==
  ASSUME WorkerInv, Next, NEW w \in Proc, proc[w].pc = "compare", proc'[w].pc = "access"
  PROVE  RollbackCompares(w)
<1>1. proc \in [Proc -> ProcRecord] /\ Off.pc = "off"
  BY InitialRecords DEF WorkerInv, TypeOK
<1>3. ASSUME UNCHANGED proc PROVE FALSE
  BY <1>3
<1>4. ASSUME NEW v \in Proc, Ends(v) PROVE FALSE
  BY <1>1, <1>4 DEF Ends
<1>6. ASSUME NEW v \in Proc, ApplyStep(v) PROVE FALSE
  <2>1. CASE ApplyLocks(v)
    BY <1>1, <1>4, <2>1 DEF ApplyLocks, At, Goto, SaveAndGoto
  <2>2. CASE ApplyPreflight(v)
    BY <1>1, <1>4, <2>2 DEF ApplyPreflight, At, Goto, SaveAndGoto
  <2>3. CASE ApplyRecords(v)
    BY <1>1, <1>4, <2>3 DEF ApplyRecords, At, Goto, SaveAndGoto
  <2>4. CASE ApplyBacksUp(v)
    BY <1>1, <1>4, <2>4 DEF ApplyBacksUp, At, Goto, SaveAndGoto
  <2>5. CASE ApplyStartsWriting(v)
    BY <1>1, <1>4, <2>5 DEF ApplyStartsWriting, At, Goto, SaveAndGoto
  <2>6. CASE ApplyWrites(v)
    BY <1>1, <1>4, <2>6 DEF ApplyWrites, At, Goto, SaveAndGoto
  <2>7. CASE ApplyLinks(v)
    BY <1>1, <1>4, <2>7 DEF ApplyLinks, At, Goto, SaveAndGoto
  <2>8. CASE ApplyMarks(v)
    BY <1>1, <1>4, <2>8 DEF ApplyMarks, At, Goto, SaveAndGoto
  <2>9. CASE ApplyChecks(v)
    BY <1>1, <1>4, <2>9 DEF ApplyChecks, At, Goto, SaveAndGoto
  <2>10. CASE ApplyPublishes(v)
    BY <1>1, <1>4, <2>10 DEF ApplyPublishes, At, Goto, SaveAndGoto
  <2>11. CASE ApplyFails(v)
    BY <1>1, <1>4, <2>11 DEF ApplyFails, At, Goto, SaveAndGoto
  <2> QED
    BY <1>6, <2>1, <2>2, <2>3, <2>4, <2>5, <2>6, <2>7, <2>8, <2>9, <2>10, <2>11 DEF ApplyStep
<1>7. ASSUME NEW v \in Proc, RollbackStep(v) PROVE RollbackCompares(w)
  <2>1. CASE RollbackReads(v)
    BY <1>1, <1>4, <2>1 DEF RollbackReads, At, Goto, SaveAndGoto
  <2>2. CASE RollbackLocks(v)
    BY <1>1, <1>4, <2>2 DEF RollbackLocks, At, Goto, SaveAndGoto
  <2>3. CASE RollbackReconciles(v)
    BY <1>1, <1>4, <2>3 DEF RollbackReconciles, At, Goto, SaveAndGoto
  <2>4. CASE RollbackCompares(v)
    BY <1>1, <1>4, <2>4 DEF RollbackCompares, At, Goto, SaveAndGoto
  <2>5. CASE RollbackStopsEarly(v)
    BY <1>1, <1>4, <2>5 DEF RollbackStopsEarly, At, Goto, SaveAndGoto
  <2>6. CASE RollbackStarts(v)
    BY <1>1, <1>4, <2>6 DEF RollbackStarts, At, Goto, SaveAndGoto
  <2>7. CASE RollbackImports(v)
    BY <1>1, <1>4, <2>7 DEF RollbackImports, At, Goto, SaveAndGoto
  <2>8. CASE RollbackRelinks(v)
    BY <1>1, <1>4, <2>8 DEF RollbackRelinks, At, Goto, SaveAndGoto
  <2>9. CASE RollbackReadsBack(v)
    BY <1>1, <1>4, <2>9 DEF RollbackReadsBack, At, Goto, SaveAndGoto
  <2>10. CASE RollbackConcludes(v)
    BY <1>1, <1>4, <2>10 DEF RollbackConcludes, At, Goto, SaveAndGoto
  <2>11. CASE RollbackFails(v)
    BY <1>1, <1>4, <2>11 DEF RollbackFails, At, Goto, SaveAndGoto
  <2> QED
    BY <1>7, <2>1, <2>2, <2>3, <2>4, <2>5, <2>6, <2>7, <2>8, <2>9, <2>10, <2>11 DEF RollbackStep
<1>8. ASSUME NEW v \in Proc, CheckStep(v) PROVE FALSE
  <2>1. CASE CheckReads(v)
    BY <1>1, <1>4, <2>1 DEF CheckReads, At, Goto, SaveAndGoto
  <2>2. CASE CheckLooks(v)
    BY <1>1, <1>4, <2>2 DEF CheckLooks, At, Goto, SaveAndGoto
  <2>3. CASE CheckConcludes(v)
    BY <1>1, <1>4, <2>3 DEF CheckConcludes, At, Goto, SaveAndGoto
  <2> QED
    BY <1>8, <2>1, <2>2, <2>3 DEF CheckStep
<1>9. ASSUME NEW v \in Proc, NEW kind \in Kind, NEW o \in Op, NEW anchor \in Op \cup {NoOp},
             Launch(v, kind, o, anchor)
      PROVE  FALSE
  BY <1>1, <1>9 DEF Launch, At
<1>10. ASSUME NEW v \in Proc, GiveUp(v) \/ Killed(v) PROVE FALSE
  BY <1>3, <1>4, <1>10 DEF GiveUp, Killed
<1>11. ASSUME Edit \/ \E o \in Op : Preview(o) PROVE FALSE
  BY <1>3, <1>11 DEF Edit, Preview
<1> QED
  BY <1>6, <1>7, <1>8, <1>9, <1>10, <1>11 DEF Next

\* What the comparison of a rollback proves, before its restore begins.
LEMMA ComparisonProves ==
  ASSUME WorkerInv, TrueInv, NEW w \in Proc, proc[w].pc = "compare", Expected(w) = gpo.rev
  PROVE  \/ gpo.rev = own[proc[w].op]
         \/ proc[w].anchor # NoOp /\ gpo.rev = own[proc[w].anchor]
         \/ Restored(proc[w].op, proc[w].m)
<1> DEFINE o == proc[w].op
           m == proc[w].m
           a == proc[w].anchor
<1>1. CopyTrue(o, m) /\ a \in Op \cup {NoOp} /\ gpo.rev # 0
  BY TrueFacts DEF ProcRecord, WorkerInv, GpoSound
<1>2. CASE m.phase = "ROLLED_BACK"
  BY <1>1, <1>2 DEF Expected, CopyTrue, OpOf
<1>3. CASE m.phase # "ROLLED_BACK" /\ a = NoOp
  BY <1>1, <1>3 DEF Expected, CopyTrue, OpOf
<1>4. CASE m.phase # "ROLLED_BACK" /\ a # NoOp
  <2>1. manifest[a].post = gpo.rev
    BY <1>1, <1>4 DEF Expected
  <2> QED
    BY <1>1, <1>4, <2>1 DEF TrueInv, DiskTrue, CopyTrue
<1> QED
  BY <1>2, <1>3, <1>4

\* A restore begins only over what the operation, or the anchor of its batch,
\* left, or over the snapshot (the comparison of Get-Fingerprint in
\* gpoRollback), if nobody changes the GPO between a comparison and the
\* fingerprint that is saved for it.
THEOREM RestoresLoseNothing ==
  ASSUME Overlap = "none"
  PROVE  Spec => RestoreLosesNothing
<1>1. ASSUME WorkerInv, TrueInv, [Next]_vars, NEW w \in Proc,
             proc[w].pc = "compare", proc'[w].pc = "access"
      PROVE  gpo.rev = own[Basis(w)] \/ Restored(OpOf(w), proc[w].m)
  <2>1. RollbackCompares(w)
    <3>1. Next
      BY <1>1 DEF vars
    <3> QED
      BY <1>1, <3>1, OnlyComparison
  <2>2. Expected(w) = gpo.rev
    <3>1. ~Ends(w)
      BY <1>1, InitialRecords DEF Ends, WorkerInv, TypeOK
    <3> QED
      BY <2>1, <3>1 DEF RollbackCompares
  <2> QED
    BY <1>1, <2>2, ComparisonProves DEF Basis, OpOf
<1>2. WorkerInv /\ TrueInv /\ [Next]_vars =>
         [\A w \in Proc :
             proc[w].pc = "compare" /\ proc'[w].pc = "access" =>
                \/ gpo.rev = own[Basis(w)]
                \/ Restored(OpOf(w), proc[w].m)]_vars
  BY <1>1
<1> QED
  BY WorkerInductive, FingerprintsHold, <1>2, PTL DEF Spec, RestoreLosesNothing

-----------------------------------------------------------------------------
(* GpoWorker implements ProtectedGpo.                                       *)

Keeps == Protected!ProtectedNext \/ UNCHANGED Protected!protectedVars

\* A batch is restored over the work of an operation that has begun.
AnchorInv ==
    \A w \in Proc :
        proc[w].pc # "off" /\ proc[w].anchor # NoOp => starts[proc[w].anchor] # 0

\* The lock tells who writes, whatever one process does to it.
LEMMA WriterMoves ==
  ASSUME WorkerInv, NEW w \in Proc, \A v \in Proc \ {w} : proc'[v] = proc[v],
         \/ lock' = lock
         \/ lock = w /\ lock' = NoProc
         \/ lock = NoProc /\ lock' = w
  PROVE  /\ Role(w) = NoRole /\ Role(w)' = NoRole => Writer' = Writer
         /\ Role(w) # NoRole => lock = w
         /\ lock = w => Writer = Role(w)
         /\ lock' = w => Writer' = Role(w)'
         /\ lock' = NoProc => Writer' = NoRole
<1>1. w # NoProc /\ lock \in Proc \cup {NoProc}
  BY WorkerAssumption DEF WorkerInv, TypeOK
<1>2. Role(w) # NoRole => lock = w
  <2>1. Role(w) # NoRole => proc[w].pc \in Writing \cup Restoring
    BY DEF Role
  <2>2. proc[w].pc \in Writing \cup Restoring => proc[w].pc # "off"
    BY DEF Writing, Restoring
  <2> QED
    BY <2>1, <2>2, RunningFacts DEF Locked
<1>3. ASSUME NEW v \in Proc \ {w} PROVE Role(v)' = Role(v)
  BY DEF Role, OpOf
<1>4. Role(w) = NoRole /\ Role(w)' = NoRole => Writer' = Writer
  <2>1. CASE lock \in Proc \ {w}
    BY <1>1, <1>3, <2>1, WorkerAssumption DEF Writer
  <2>2. CASE lock \in {w, NoProc}
    BY <1>1, <2>2 DEF Writer
  <2> QED
    BY <1>1, <2>1, <2>2
<1> QED
  BY <1>1, <1>2, <1>4 DEF Writer

\* A step that changes neither the GPO nor what is known of it: a process ends,
\* or goes on in the same role.
LEMMA RoleKept ==
  ASSUME WorkerInv, NEW w \in Proc, UNCHANGED <<gpo, plan, own, starts>>,
         \/ Ends(w)
         \/ /\ \A v \in Proc \ {w} : proc'[v] = proc[v]
            /\ Role(w)' = Role(w)
            /\ lock' = lock \/ (lock = NoProc /\ lock' = w /\ Role(w) = NoRole)
  PROVE  Keeps
<1>1. Begun' = Begun
  BY DEF Begun
<1>2. CASE Ends(w)
  <2>1. /\ \A v \in Proc \ {w} : proc'[v] = proc[v]
        /\ proc'[w] = Off
        /\ lock' = lock \/ (lock = w /\ lock' = NoProc)
    BY <1>2 DEF Ends, WorkerInv, TypeOK
  <2>2. Role(w)' = NoRole
    BY <2>1, InitialRecords DEF Role, Writing, Restoring
  <2>3. CASE Role(w) = NoRole
    <3>1. Writer' = Writer
      BY <2>1, <2>2, <2>3, WriterMoves
    <3> QED
      BY <1>1, <3>1 DEF Keeps, Protected!protectedVars
  <2>4. CASE Role(w) # NoRole
    <3>1. lock = w
      BY <2>1, <2>4, WriterMoves
    <3>2. lock' = NoProc
      BY <1>2, <3>1 DEF Ends
    <3>3. Writer # NoRole /\ Writer' = NoRole
      BY <2>1, <2>4, <3>1, <3>2, WriterMoves
    <3>4. Protected!Leave
      BY <1>1, <3>3 DEF Protected!Leave, Protected!NoOne, NoRole
    <3> QED
      BY <3>4 DEF Keeps, Protected!ProtectedNext
  <2> QED
    BY <2>3, <2>4
<1>3. CASE /\ \A v \in Proc \ {w} : proc'[v] = proc[v]
           /\ Role(w)' = Role(w)
           /\ lock' = lock \/ (lock = NoProc /\ lock' = w /\ Role(w) = NoRole)
  <2>1. Writer' = Writer
    BY <1>3, WriterMoves
  <2> QED
    BY <1>1, <2>1 DEF Keeps, Protected!protectedVars
<1> QED
  BY <1>2, <1>3

\* The roles of the stages.
LEMMA RoleFacts ==
  ASSUME WorkerInv, NEW w \in Proc
  PROVE  /\ proc[w].pc \notin Writing \cup Restoring => Role(w) = NoRole
         /\ proc[w].pc \in Writing =>
              Role(w) = [op |-> proc[w].op, basis |-> proc[w].op, does |-> "apply"]
         /\ proc[w].pc \in Restoring =>
              Role(w) = [op |-> proc[w].op, does |-> "restore",
                         basis |-> IF proc[w].anchor = NoOp THEN proc[w].op
                                   ELSE proc[w].anchor]
  BY DEF Role, OpOf, Writing, Restoring

\* A process that goes on at another stage with the same role.
LEMMA StageKept ==
  ASSUME WorkerInv, NEW w \in Proc, UNCHANGED <<gpo, plan, own, starts>>,
         \A v \in Proc \ {w} : proc'[v] = proc[v],
         proc'[w].op = proc[w].op, proc'[w].anchor = proc[w].anchor,
         \/ proc[w].pc \in Writing /\ proc'[w].pc \in Writing
         \/ proc[w].pc \in Restoring /\ proc'[w].pc \in Restoring
         \/ /\ proc[w].pc \notin Writing \cup Restoring
            /\ proc'[w].pc \notin Writing \cup Restoring,
         lock' = lock \/ (lock = NoProc /\ lock' = w)
  PROVE  Keeps
<1>1. Role(w)' = Role(w)
  BY DEF Role, OpOf, Writing, Restoring
<1>2. w # NoProc
  BY WorkerAssumption
<1>3. Role(w) = NoRole \/ lock = w
  BY WriterMoves
<1> QED
  BY <1>1, <1>2, <1>3, RoleKept

\* A process that goes to stage x, with or without another copy.
Advances(w, x) ==
    \/ Goto(w, x) \/ \E m : SaveAndGoto(w, m, x)
    \/ \E m : proc' = [proc EXCEPT ![w].m = m, ![w].pc = x]
    \/ \E seen : proc' = [proc EXCEPT ![w].seen = seen, ![w].pc = x]
LEMMA StageFacts ==
  ASSUME WorkerInv, NEW w \in Proc, NEW x, Advances(w, x)
  PROVE  /\ \A v \in Proc \ {w} : proc'[v] = proc[v]
         /\ proc'[w].pc = x /\ proc'[w].op = proc[w].op
         /\ proc'[w].anchor = proc[w].anchor
<1>1. proc \in [Proc -> ProcRecord]
  BY DEF WorkerInv, TypeOK
<1> QED
  BY <1>1 DEF ProcRecord, Goto, SaveAndGoto, Advances

\* An apply that does not begin to write or change the GPO.
LEMMA ApplyKeepsRole ==
  ASSUME WorkerInv, NEW w \in Proc,
         \/ ApplyLocks(w) \/ ApplyPreflight(w) \/ ApplyRecords(w) \/ ApplyBacksUp(w)
         \/ ApplyMarks(w) \/ ApplyChecks(w) \/ ApplyPublishes(w) \/ ApplyFails(w)
  PROVE  Keeps
<1>1. UNCHANGED <<gpo, plan, own, starts>>
  BY DEF ApplyLocks, ApplyPreflight, ApplyRecords, ApplyBacksUp, ApplyMarks, ApplyChecks,
         ApplyPublishes, ApplyFails, Quiet
<1>2. CASE Ends(w)
  BY <1>1, <1>2, RoleKept
<1>3. CASE ApplyLocks(w) /\ ~Ends(w)
  <2>1. /\ proc[w].pc = "start" /\ lock = NoProc /\ lock' = w /\ Advances(w, "preflight")
    BY <1>3 DEF ApplyLocks, At, Advances
  <2> QED
    BY <1>1, <2>1, StageFacts, StageKept DEF Writing, Restoring
<1>4. CASE ApplyPreflight(w) /\ ~Ends(w)
  <2>1. proc[w].pc = "preflight" /\ lock' = lock /\ Advances(w, "record")
    BY <1>4 DEF ApplyPreflight, At, Running, Advances
  <2> QED
    BY <1>1, <2>1, StageFacts, StageKept DEF Writing, Restoring
<1>5. CASE ApplyRecords(w)
  <2>1. proc[w].pc = "record" /\ lock' = lock /\ Advances(w, "backup")
    BY <1>5 DEF ApplyRecords, At, Running, Advances
  <2> QED
    BY <1>1, <2>1, StageFacts, StageKept DEF Writing, Restoring
<1>6. CASE ApplyBacksUp(w)
  <2>1. proc[w].pc = "backup" /\ lock' = lock /\ Advances(w, "recheck")
    BY <1>6 DEF ApplyBacksUp, At, Running, Advances
  <2> QED
    BY <1>1, <2>1, StageFacts, StageKept DEF Writing, Restoring
<1>7. CASE ApplyMarks(w)
  <2>1. proc[w].pc = "marking" /\ lock' = lock /\ Advances(w, "checking")
    BY <1>7 DEF ApplyMarks, At, Running, Advances
  <2> QED
    BY <1>1, <2>1, StageFacts, StageKept DEF Writing, Restoring
<1>8. CASE ApplyChecks(w)
  <2>1. /\ proc[w].pc = "checking" /\ lock' = lock
        /\ Advances(w, "publishing")
    BY <1>8 DEF ApplyChecks, At, Running, Advances
  <2> QED
    BY <1>1, <2>1, StageFacts, StageKept DEF Writing, Restoring
<1> QED
  BY <1>2, <1>3, <1>4, <1>5, <1>6, <1>7, <1>8 DEF ApplyPublishes, ApplyFails

\* A rollback that does not begin its restore or change the GPO.
LEMMA RollbackKeepsRole ==
  ASSUME WorkerInv, NEW w \in Proc,
         \/ RollbackReads(w) \/ RollbackLocks(w) \/ RollbackReconciles(w)
         \/ RollbackStopsEarly(w) \/ RollbackStarts(w) \/ RollbackReadsBack(w)
         \/ RollbackConcludes(w) \/ RollbackFails(w)
  PROVE  Keeps
<1>1. UNCHANGED <<gpo, plan, own, starts>>
  BY DEF RollbackReads, RollbackLocks, RollbackReconciles, RollbackStopsEarly,
         RollbackStarts, RollbackReadsBack, RollbackConcludes, RollbackFails, Quiet
<1>2. CASE Ends(w)
  BY <1>1, <1>2, RoleKept
<1>3. CASE RollbackReads(w) /\ ~Ends(w)
  <2>1. /\ proc[w].pc = "start" /\ lock' = lock
        /\ Advances(w, "locking")
    BY <1>3 DEF RollbackReads, At, Running, Advances
  <2> QED
    BY <1>1, <2>1, StageFacts, StageKept DEF Writing, Restoring
<1>4. CASE RollbackLocks(w) /\ ~Ends(w)
  <2>1. proc[w].pc = "locking" /\ lock = NoProc /\ lock' = w /\ Advances(w, "reconcile")
    BY <1>4 DEF RollbackLocks, At, Advances
  <2> QED
    BY <1>1, <2>1, StageFacts, StageKept DEF Writing, Restoring
<1>5. CASE RollbackReconciles(w)
  <2>1. /\ proc[w].pc = "reconcile" /\ lock' = lock
        /\ Advances(w, "compare")
    BY <1>5 DEF RollbackReconciles, At, Running, Advances
  <2> QED
    BY <1>1, <2>1, StageFacts, StageKept DEF Writing, Restoring
<1>6. CASE RollbackStarts(w)
  <2>1. proc[w].pc = "access" /\ lock' = lock /\ Advances(w, "import")
    BY <1>6 DEF RollbackStarts, At, Running, Advances
  <2> QED
    BY <1>1, <2>1, StageFacts, StageKept DEF Writing, Restoring
<1>7. CASE RollbackReadsBack(w)
  <2>1. /\ proc[w].pc = "readback" /\ lock' = lock
        /\ Advances(w, "restored")
    BY <1>7 DEF RollbackReadsBack, At, Running, Advances
  <2> QED
    BY <1>1, <2>1, StageFacts, StageKept DEF Writing, Restoring
<1> QED
  BY <1>2, <1>3, <1>4, <1>5, <1>6, <1>7
     DEF RollbackStopsEarly, RollbackConcludes, RollbackFails

\* A status check changes nothing that other tools can see.
LEMMA CheckKeepsRole ==
  ASSUME WorkerInv, NEW w \in Proc, CheckStep(w)
  PROVE  Keeps
<1>1. UNCHANGED <<gpo, plan, own, starts>>
  BY DEF CheckStep, CheckReads, CheckLooks, CheckConcludes, Quiet
<1>2. CASE Ends(w)
  BY <1>1, <1>2, RoleKept
<1>3. CASE CheckReads(w) /\ ~Ends(w)
  <2>1. /\ proc[w].pc = "start" /\ lock' = lock
        /\ Advances(w, "look")
    BY <1>3 DEF CheckReads, At, Running, Advances
  <2> QED
    BY <1>1, <2>1, StageFacts, StageKept DEF Writing, Restoring
<1>4. CASE CheckLooks(w) /\ ~Ends(w)
  <2>1. /\ proc[w].pc = "look" /\ lock' = lock
        /\ Advances(w, "conclude")
    BY <1>4 DEF CheckLooks, At, Running, Advances
  <2> QED
    BY <1>1, <2>1, StageFacts, StageKept DEF Writing, Restoring
<1> QED
  BY <1>2, <1>3, <1>4 DEF CheckStep, CheckConcludes

\* Nothing is written by the service, or by a process that is stopped.
LEMMA ServiceKeepsRole ==
  ASSUME WorkerInv, NEW w \in Proc,
         \/ \E kind \in Kind, o \in Op, anchor \in Op \cup {NoOp} : Launch(w, kind, o, anchor)
         \/ GiveUp(w) \/ Killed(w)
  PROVE  Keeps
<1>1. UNCHANGED <<gpo, plan, own, starts>>
  BY DEF Launch, GiveUp, Killed, Stops, Quiet
<1>2. CASE Killed(w)
  BY <1>1, <1>2, RoleKept DEF Killed
<1>3. CASE GiveUp(w)
  <2>1. UNCHANGED <<proc, lock>>
    BY <1>3 DEF GiveUp
  <2>2. Role(w)' = Role(w)
    BY <2>1 DEF Role, OpOf
  <2> QED
    BY <1>1, <2>1, <2>2, RoleKept
<1>4. ASSUME NEW kind \in Kind, NEW o \in Op, NEW anchor \in Op \cup {NoOp},
             Launch(w, kind, o, anchor)
      PROVE  Keeps
  <2> DEFINE e == IF anchor = NoOp THEN 0 ELSE manifest[anchor].post
             p == [Off EXCEPT !.pc = "start", !.kind = kind, !.op = o, !.anchor = anchor,
                              !.expect = e]
  <2>1. proc[w].pc = "off" /\ proc' = [proc EXCEPT ![w] = p] /\ lock' = lock
    BY <1>4 DEF Launch, At
  <2> HIDE DEF e
  <2>2. p.pc = "start"
    BY DEF Off
  <2> HIDE DEF p
  <2>3. proc'[w] = p /\ \A v \in Proc \ {w} : proc'[v] = proc[v]
    BY <2>1 DEF WorkerInv, TypeOK
  <2>4. Role(w) = NoRole /\ Role(w)' = NoRole
    BY <2>1, <2>2, <2>3 DEF Role, Writing, Restoring
  <2> QED
    BY <1>1, <2>1, <2>3, <2>4, RoleKept
<1> QED
  BY <1>2, <1>3, <1>4

\* The first write is begun once, over the state that was reviewed.
LEMMA ApplyBeginsOnce ==
  ASSUME WorkerInv, NEW w \in Proc, ApplyStartsWriting(w)
  PROVE  Keeps
<1> DEFINE o == proc[w].op
           n == IF starts[o] < 2 THEN starts[o] + 1 ELSE starts[o]
<1>1. /\ proc[w].pc = "recheck" /\ lock' = lock /\ gpo.rev = plan[o].fp
      /\ Advances(w, "writing") /\ starts' = [starts EXCEPT ![o] = n]
      /\ UNCHANGED <<gpo, plan, own>>
  BY DEF ApplyStartsWriting, At, OpOf, Running, Advances
<1>2. o \in Op /\ starts[o] = 0 /\ plan[o].fp # 0 /\ lock = w
  BY <1>1, RunningFacts DEF Sound, Locked
<1>3. n = 1
  BY <1>2
<1> HIDE DEF n
<1>4. Begun' = Begun \cup {o} /\ o \notin Begun
  <2>1. starts'[o] = 1 /\ \A q \in Op \ {o} : starts'[q] = starts[q]
    BY <1>1, <1>2, <1>3 DEF WorkerInv, TypeOK
  <2> QED
    BY <1>2, <2>1 DEF Begun
<1>5. Writer = NoRole
  <2>1. Role(w) = NoRole
    BY <1>1 DEF Role, Writing, Restoring
  <2> QED
    BY <1>1, <1>2, <2>1, StageFacts, WriterMoves
<1>6. Writer' = [op |-> o, basis |-> o, does |-> "apply"]
  <2>1. Role(w)' = [op |-> o, basis |-> o, does |-> "apply"]
    BY <1>1, StageFacts DEF Role, OpOf, Writing
  <2> QED
    BY <1>1, <1>2, <2>1, StageFacts, WriterMoves
<1>7. plan[o] # Protected!Unreviewed
  BY <1>2 DEF Protected!Unreviewed
<1>8. Protected!BeginApply(o)
  BY <1>1, <1>4, <1>5, <1>6, <1>7 DEF Protected!BeginApply, Protected!NoOne, NoRole
<1> QED
  BY <1>2, <1>8 DEF Keeps, Protected!ProtectedNext

\* A process under the lock goes on as the writer it is.
LEMMA WriterStays ==
  ASSUME WorkerInv, NEW w \in Proc, lock' = lock,
         proc[w].pc \in Writing \cup Restoring,
         \/ UNCHANGED proc
         \/ /\ proc[w].pc \in Writing /\ \E x \in Writing : Goto(w, x)
         \/ /\ proc[w].pc \in Restoring /\ \E x \in Restoring : Goto(w, x)
  PROVE  lock = w /\ Writer = Role(w) /\ Writer' = Writer
<1>1. /\ \A v \in Proc \ {w} : proc'[v] = proc[v]
      /\ Role(w)' = Role(w)
  <2>1. CASE UNCHANGED proc
    BY <2>1 DEF Role, OpOf
  <2>2. ASSUME NEW x, Goto(w, x),
               \/ x \in Writing /\ proc[w].pc \in Writing
               \/ x \in Restoring /\ proc[w].pc \in Restoring
        PROVE  /\ \A v \in Proc \ {w} : proc'[v] = proc[v]
               /\ Role(w)' = Role(w)
    <3>1. Advances(w, x)
      BY <2>2 DEF Advances
    <3> QED
      BY <2>2, <3>1, StageFacts DEF Role, OpOf, Writing, Restoring
  <2>3. UNCHANGED proc \/ \E x : /\ Goto(w, x)
                                 /\ \/ x \in Writing /\ proc[w].pc \in Writing
                                    \/ x \in Restoring /\ proc[w].pc \in Restoring
    OBVIOUS
  <2> QED
    BY <2>1, <2>2, <2>3
<1>2. lock = w
  <2>1. proc[w].pc # "off"
    BY DEF Writing, Restoring
  <2> QED
    BY <2>1, RunningFacts DEF Locked
<1> QED
  BY <1>1, <1>2, WriterMoves

\* What an apply changes is its own values and the link, over its own work.
LEMMA ApplyChangesKeep ==
  ASSUME WorkerInv, TrueInv, NEW w \in Proc, ApplyWrites(w) \/ ApplyLinks(w)
  PROVE  Keeps
<1> DEFINE o == proc[w].op
<1>1. /\ proc[w].pc \in {"writing", "linking"} /\ proc[w].pc \in Writing
      /\ proc[w].pc # "off" /\ lock' = lock
  BY DEF ApplyWrites, ApplyLinks, At, Running, Writing
<1>2. own[o] = gpo.rev
  BY <1>1, TrueFacts DEF Fresh
<1>3. UNCHANGED proc \/ Goto(w, "linking") \/ Goto(w, "marking")
  BY DEF ApplyWrites, ApplyLinks
<1>4. Writer = Role(w) /\ Writer' = Writer
  BY <1>1, <1>3, WriterStays DEF Writing
<1>5. Writer.op = o /\ Writer.does = "apply"
  BY <1>1, <1>4, RoleFacts
<1>6. CASE Quiet
  <2>1. UNCHANGED <<gpo, plan, own, Begun>>
    BY <1>6 DEF Quiet, Begun
  <2> QED
    BY <1>4, <2>1 DEF Keeps, Protected!protectedVars
<1>7. ASSUME NEW content, NEW linked, Changes(w, o, content, linked), UNCHANGED <<plan, starts>>
      PROVE  Protected!Writes(Writer.op, content, linked)
  BY <1>4, <1>5, <1>7 DEF Changes, OpOf, Protected!Writes, Protected!Becomes, Begun
<1>8. CASE ApplyWrites(w) /\ ~Quiet
  <2>1. PICK i \in Item[o] \ gpo.content :
          Changes(w, o, gpo.content \cup {i}, gpo.linked) /\ UNCHANGED <<plan, starts>>
    BY <1>8 DEF ApplyWrites, OpOf
  <2>2. Protected!Apply
    BY <1>2, <1>5, <1>7, <2>1 DEF Protected!Apply
  <2> QED
    BY <2>2 DEF Keeps, Protected!ProtectedNext
<1>9. CASE ApplyLinks(w) /\ ~Quiet
  <2>1. ~gpo.linked /\ Changes(w, o, gpo.content, TRUE) /\ UNCHANGED <<plan, starts>>
    BY <1>9 DEF ApplyLinks, OpOf
  <2>2. Protected!Apply
    BY <1>2, <1>5, <1>7, <2>1 DEF Protected!Apply
  <2> QED
    BY <2>2 DEF Keeps, Protected!ProtectedNext
<1> QED
  BY <1>6, <1>8, <1>9

\* A restore leads to the snapshot that was reviewed, and to nothing else.
LEMMA RollbackChangesKeep ==
  ASSUME WorkerInv, NEW w \in Proc, RollbackImports(w) \/ RollbackRelinks(w)
  PROVE  Keeps
<1> DEFINE o == proc[w].op
           m == proc[w].m
           b == Writer.basis
<1>1. /\ proc[w].pc \in {"import", "relink"} /\ proc[w].pc \in Restoring
      /\ proc[w].pc # "off" /\ lock' = lock
  BY DEF RollbackImports, RollbackRelinks, At, Running, Restoring
<1>2. m.saved = plan[o].content
  BY <1>1, RunningFacts DEF Sound, CopySafe
<1>3. Goto(w, "relink") \/ Goto(w, "readback")
  BY DEF RollbackImports, RollbackRelinks
<1>4. Writer = Role(w) /\ Writer' = Writer
  BY <1>1, <1>3, WriterStays DEF Restoring
<1>5. Writer.op = o /\ Writer.does = "restore" /\ Basis(w) \in {o, b}
  BY <1>1, <1>4, RoleFacts DEF Basis, OpOf
<1>6. CASE Quiet
  <2>1. UNCHANGED <<gpo, plan, own, Begun>>
    BY <1>6 DEF Quiet, Begun
  <2> QED
    BY <1>4, <2>1 DEF Keeps, Protected!protectedVars
<1>7. ASSUME NEW from, NEW content, NEW linked, Changes(w, from, content, linked),
             UNCHANGED <<plan, starts>>
      PROVE  Protected!Writes(from, content, linked)
  BY <1>4, <1>5, <1>7 DEF Changes, OpOf, Protected!Writes, Protected!Becomes, Begun
<1>8. CASE RollbackImports(w)
  <2>1. Changes(w, Basis(w), plan[o].content, gpo.linked) /\ UNCHANGED <<plan, starts>>
    BY <1>2, <1>8 DEF RollbackImports
  <2>2. Protected!Restore
    BY <1>5, <1>7, <2>1 DEF Protected!Restore
  <2> QED
    BY <2>2 DEF Keeps, Protected!ProtectedNext
<1>9. CASE RollbackRelinks(w) /\ ~Quiet
  <2>1. /\ gpo.linked # plan[o].linked
        /\ Changes(w, o, gpo.content, plan[o].linked) /\ UNCHANGED <<plan, starts>>
    BY <1>9 DEF RollbackRelinks, OpOf
  <2>2. Protected!Restore
    BY <1>5, <1>7, <2>1 DEF Protected!Restore
  <2> QED
    BY <2>2 DEF Keeps, Protected!ProtectedNext
<1> QED
  BY <1>6, <1>8, <1>9

\* A restore begins over the work of its own batch, or over the snapshot.
LEMMA RestoreBegins ==
  ASSUME WorkerInv, TrueInv, AnchorInv, NEW w \in Proc, RollbackCompares(w)
  PROVE  Keeps
<1> DEFINE o == proc[w].op
           m == proc[w].m
           a == proc[w].anchor
           b == IF a = NoOp THEN o ELSE a
<1>1. proc[w].pc = "compare" /\ m.post # 0 /\ UNCHANGED <<gpo, plan, own, starts>>
  BY DEF RollbackCompares, At, Quiet
<1>2. CASE Ends(w)
  BY <1>1, <1>2, RoleKept
<1>3. CASE ~Ends(w)
  <2>1. Expected(w) = gpo.rev /\ Advances(w, "access") /\ lock' = lock
    BY <1>3 DEF RollbackCompares, Running, Advances
  <2>2. o \in Op /\ lock = w /\ starts[o] # 0 /\ m.backup /\ a \in Op \cup {NoOp}
    BY <1>1, RunningFacts DEF Sound, CopySafe, Locked, ProcRecord
  <2>3. o \in Begun /\ b \in Begun /\ b \in Op
    BY <1>1, <2>2 DEF Begun, AnchorInv
  <2>4. m.before = plan[o].content
    BY <1>1, <2>2, RunningFacts DEF CopySafe
  <2>5. \/ gpo.rev \in {own[o], own[b]}
        \/ gpo.content = plan[o].content /\ gpo.linked = plan[o].linked
    BY <1>1, <2>1, <2>4, ComparisonProves DEF Restored
  <2>6. Writer = NoRole
    <3>1. Role(w) = NoRole
      BY <1>1 DEF Role, Writing, Restoring
    <3> QED
      BY <2>1, <2>2, <3>1, StageFacts, WriterMoves
  <2>7. Writer' = [op |-> o, basis |-> b, does |-> "restore"]
    <3>1. Role(w)' = [op |-> o, basis |-> b, does |-> "restore"]
      BY <2>1, StageFacts DEF Role, OpOf, Writing, Restoring
    <3> QED
      BY <2>1, <2>2, <3>1, StageFacts, WriterMoves
  <2>8. Begun' = Begun
    BY <1>1 DEF Begun
  <2> HIDE DEF b
  <2>9. Protected!BeginRestore(o, b)
    BY <1>1, <2>3, <2>5, <2>6, <2>7, <2>8
       DEF Protected!BeginRestore, Protected!NoOne, NoRole
  <2> QED
    BY <2>2, <2>3, <2>9 DEF Keeps, Protected!ProtectedNext
<1> QED
  BY <1>2, <1>3

\* A preview and an edit by another tool are what they are in ProtectedGpo; no
\* edit falls between a comparison and what relies on it.
LEMMA OutsideKeeps ==
  ASSUME Overlap = "none", WorkerInv, Edit \/ \E o \in Op : Preview(o)
  PROVE  Keeps
<1>1. UNCHANGED <<proc, lock, starts>>
  BY DEF Edit, Preview
<1>2. Begun' = Begun /\ Writer' = Writer
  BY <1>1 DEF Begun, Writer, Role, OpOf
<1>3. ASSUME NEW o \in Op, Preview(o) PROVE Keeps
  <2>1. Protected!Review(o)
    BY <1>2, <1>3 DEF Preview, NoPlan, Protected!Review, Protected!Unreviewed
  <2> QED
    BY <2>1 DEF Keeps, Protected!ProtectedNext
<1>4. CASE Edit
  <2> DEFINE c == IF Foreign \in gpo.content THEN gpo.content \ {Foreign}
                  ELSE gpo.content \cup {Foreign}
  <2>1. /\ gpo' = [gpo EXCEPT !.rev = gpo.rev + 1, !.content = c]
        /\ UNCHANGED <<plan, own>> /\ \A v \in Proc : ~InWindow(v)
    BY <1>4 DEF Edit
  <2>2. c \in {gpo.content \cup {Foreign}, gpo.content \ {Foreign}}
    OBVIOUS
  <2>3. Writer = NoRole
    <3>1. lock # NoProc => Role(lock) = NoRole
      BY <2>1 DEF InWindow, Role, Writing, Restoring, WorkerInv, TypeOK
    <3> QED
      BY <3>1 DEF Writer
  <2> HIDE DEF c
  <2> DEFINE n == gpo.rev + 1
  <2>4. gpo' = [gpo EXCEPT !.rev = n, !.content = c]
    BY <2>1
  <2> HIDE DEF n
  <2>5. gpo' = [content |-> c, linked |-> gpo.linked, rev |-> n]
    BY <2>4 DEF WorkerInv, TypeOK
  <2>6. Protected!Becomes(c, gpo.linked)
    BY <2>5 DEF n, Protected!Becomes
  <2>7. Protected!EditedElsewhere
    BY <1>2, <2>1, <2>2, <2>3, <2>6
       DEF Protected!EditedElsewhere, Protected!NoOne, NoRole
  <2> QED
    BY <2>7 DEF Keeps, Protected!ProtectedNext
<1> QED
  BY <1>3, <1>4

\* Every step of the worker is a step of the promise, or none.
LEMMA WorkerRefines ==
  ASSUME Overlap = "none", WorkerInv, TrueInv, AnchorInv, [Next]_vars
  PROVE  Keeps
<1>1. CASE UNCHANGED vars
  BY <1>1 DEF vars, Keeps, Protected!protectedVars, Begun, Writer, Role, OpOf
<1>2. ASSUME NEW w \in Proc, ApplyStep(w) PROVE Keeps
  BY <1>2, ApplyKeepsRole, ApplyBeginsOnce, ApplyChangesKeep DEF ApplyStep
<1>3. ASSUME NEW w \in Proc, RollbackStep(w) PROVE Keeps
  BY <1>3, RollbackKeepsRole, RestoreBegins, RollbackChangesKeep DEF RollbackStep
<1> QED
  BY <1>1, <1>2, <1>3, CheckKeepsRole, ServiceKeepsRole, OutsideKeeps DEF Next

\* An operation that has begun stays begun, and no process changes its anchor.
LEMMA AnchorStep ==
  ASSUME WorkerInv, AnchorInv, [Next]_vars
  PROVE  AnchorInv'
<1> SUFFICES ASSUME NEW v \in Proc, proc'[v].pc # "off", proc'[v].anchor # NoOp
             PROVE  starts'[proc'[v].anchor] # 0
  BY DEF AnchorInv
<1>1. /\ proc \in [Proc -> ProcRecord] /\ starts \in [Op -> 0..2] /\ Off.pc = "off"
      /\ Off.anchor = NoOp
  BY InitialRecords DEF WorkerInv, TypeOK, Off
<1>2. \A q \in Op : starts[q] # 0 => starts'[q] # 0
  <2>1. UNCHANGED starts \/ \E w \in Proc : ApplyStartsWriting(w)
    BY DEF Next, vars, Preview, Launch, GiveUp, Killed, Stops, Edit, Quiet, CheckStep,
       CheckReads, CheckLooks, CheckConcludes, ApplyStep, ApplyLocks, ApplyPreflight,
       ApplyRecords, ApplyBacksUp, ApplyWrites, ApplyLinks, ApplyMarks, ApplyChecks,
       ApplyPublishes, ApplyFails, RollbackStep, RollbackReads, RollbackLocks,
       RollbackReconciles, RollbackCompares, RollbackStopsEarly, RollbackStarts,
       RollbackImports, RollbackRelinks, RollbackReadsBack, RollbackConcludes,
       RollbackFails
  <2>2. ASSUME NEW w \in Proc, ApplyStartsWriting(w), NEW q \in Op, starts[q] # 0
        PROVE  starts'[q] # 0
    BY <1>1, <2>2 DEF ApplyStartsWriting
  <2> QED
    BY <2>1, <2>2
<1>3. ASSUME proc[v].pc # "off", proc'[v].anchor = proc[v].anchor
      PROVE  starts'[proc'[v].anchor] # 0
  <2>1. proc[v].anchor \in Op /\ starts[proc[v].anchor] # 0
    BY <1>1, <1>3 DEF AnchorInv, ProcRecord
  <2> QED
    BY <1>2, <1>3, <2>1
<1>4. CASE UNCHANGED proc
  BY <1>3, <1>4
<1>5. ASSUME NEW w \in Proc, Ends(w) PROVE starts'[proc'[v].anchor] # 0
  BY <1>1, <1>3, <1>5 DEF Ends
<1>6. ASSUME NEW w \in Proc, proc[w].pc # "off", NEW x, Advances(w, x)
      PROVE  starts'[proc'[v].anchor] # 0
  BY <1>3, <1>6, StageFacts
<1>7. ASSUME NEW w \in Proc, NEW kind \in Kind, NEW o \in Op, NEW anchor \in Op \cup {NoOp},
             Launch(w, kind, o, anchor)
      PROVE  starts'[proc'[v].anchor] # 0
  <2>1. /\ proc'[w].anchor = anchor /\ \A u \in Proc \ {w} : proc'[u] = proc[u]
        /\ starts' = starts
    BY <1>1, <1>7 DEF Launch, Quiet, Off
  <2>2. anchor # NoOp => starts[anchor] # 0
    BY <1>7 DEF Launch, WorkerInv, DiskSound, Kept, CopySafe
  <2> QED
    BY <1>3, <2>1, <2>2
<1>8. ASSUME NEW w \in Proc, ApplyStep(w) \/ RollbackStep(w) \/ CheckStep(w)
      PROVE  Ends(w) \/ UNCHANGED proc \/ (proc[w].pc # "off" /\ \E x : Advances(w, x))
  <2>1. CASE ApplyStep(w)
    BY <2>1 DEF ApplyStep, ApplyLocks, ApplyPreflight, ApplyRecords, ApplyBacksUp,
       ApplyStartsWriting, ApplyWrites, ApplyLinks, ApplyMarks, ApplyChecks,
       ApplyPublishes, ApplyFails, Advances, At
  <2>2. CASE RollbackStep(w)
    BY <2>2 DEF RollbackStep, RollbackReads, RollbackLocks, RollbackReconciles,
       RollbackCompares, RollbackStopsEarly, RollbackStarts, RollbackImports,
       RollbackRelinks, RollbackReadsBack, RollbackConcludes, RollbackFails, Advances, At
  <2>3. CASE CheckStep(w)
    BY <2>3 DEF CheckStep, CheckReads, CheckLooks, CheckConcludes, Advances, At
  <2> QED
    BY <1>8, <2>1, <2>2, <2>3
<1>9. CASE Edit \/ \E o \in Op : Preview(o)
  BY <1>4, <1>9 DEF Edit, Preview
<1>10. ASSUME NEW w \in Proc, GiveUp(w) \/ Killed(w) PROVE starts'[proc'[v].anchor] # 0
  BY <1>4, <1>5, <1>10 DEF GiveUp, Killed
<1>11. ASSUME NEW w \in Proc, ApplyStep(w) \/ RollbackStep(w) \/ CheckStep(w)
       PROVE  starts'[proc'[v].anchor] # 0
  BY <1>4, <1>5, <1>6, <1>8, <1>11
<1> QED
  BY <1>4, <1>7, <1>9, <1>10, <1>11 DEF Next, vars

\* The worker implements ProtectedGpo, for any operations, values, processes and
\* bounds: whatever processes are given up on, killed, overlapped or started again,
\* the lock admits one writer, a plan is applied once and only over the reviewed
\* state, and a restore puts the reviewed snapshot back over the program's own work
\* (GpoWorkflow.Worker.ps1), if nobody changes the GPO between a comparison and the
\* fingerprint that is saved for it.
THEOREM WorkerProtects ==
  ASSUME Overlap = "none"
  PROVE  Spec => GpoIsProtected
<1>1. Init => Protected!ProtectedInit
  <2> SUFFICES ASSUME Init PROVE Protected!ProtectedInit
    OBVIOUS
  <2>1. Begun = {} /\ Writer = Protected!NoOne
    BY DEF Init, Begun, Writer, NoRole, Protected!NoOne
  <2>2. gpo \in [content : {{}}, linked : BOOLEAN, rev : {1}]
    BY WorkerAssumption DEF Init
  <2> QED
    BY <2>1, <2>2 DEF Init, NoPlan, Protected!ProtectedInit, Protected!Unreviewed
<1>2. Init => AnchorInv
  BY InitialRecords DEF Init, AnchorInv
<1>3. WorkerInv /\ TrueInv /\ AnchorInv /\ [Next]_vars =>
         [Protected!ProtectedNext]_(Protected!protectedVars)
  BY WorkerRefines DEF Keeps
<1> QED
  BY <1>1, <1>2, <1>3, AnchorStep, WorkerInductive, FingerprintsHold, PTL
     DEF Spec, GpoIsProtected, Protected!ProtectedSpec
=============================================================================
