------------------------------ MODULE BulkApply ------------------------------
(* The batch dialog of the browser client (bulk-apply.js): controls are    *)
(* selected in the catalogue, one batch preview is requested from the      *)
(* server, polled, reviewed, approved by typing APPLY, followed and        *)
(* perhaps rolled back by typing ROLLBACK. The dialog keeps one revision   *)
(* counter against answers that arrive after the operator changed his mind.*)
(* A target stands for the GPO, the scope and the values of the form. The  *)
(* offline state only disables actions and is left out.                    *)
EXTENDS Naturals, Sequences, FiniteSets

CONSTANTS Ctl,          \* the controls that can be selected
          Limit,        \* controls per batch (20)
          BatchTarget,  \* what the target form can hold
          MaxRevision, MaxBatchJob, MaxSession    \* bounds of the instance
ASSUME BatchBound == MaxBatchJob \in Nat
ASSUME BatchTargetExists == BatchTarget # {}

VARIABLES bulk,         \* the dialog's own variables
          post,         \* the submission in flight
          look,         \* the poll in flight
          view,         \* the recorded batch being opened, 0 if none
          jobs,         \* the server's workflows, their index is their id
          session,      \* the connection the page uses
          posted        \* history: batches the server was asked to apply
bulkVars == <<bulk, post, look, view, jobs, session, posted>>

NoSnapshot == [id |-> 0, active |-> FALSE]
NoKey == <<>>
NotPosting == [action |-> "none", batch |-> 0, id |-> 0]
NotLooking == [id |-> 0, rev |-> 0, stage |-> "idle"]

BulkInit ==
    /\ bulk = [sel |-> {}, target |-> CHOOSE t \in BatchTarget : TRUE, open |-> FALSE,
               phase |-> "target", job |-> NoSnapshot, source |-> NoSnapshot,
               plans |-> 0, key |-> NoKey, typed |-> "", rev |-> 0]
    /\ post = NotPosting /\ look = NotLooking /\ view = 0
    /\ jobs = <<>> /\ session = 1 /\ posted = {}

Action(job) == IF job.id = 0 THEN "none" ELSE jobs[job.id].action
Pending == post.action # "none"
TaskRunning == Pending \/ view # 0
DraftKey == <<bulk.sel, bulk.target, session>>

\* Variant: a typed word survives a new target.
InvalidatedKeepingConsent(b) ==
    [b EXCEPT !.rev = @ + 1, !.plans = 0, !.job = NoSnapshot, !.source = NoSnapshot,
              !.key = NoKey, !.phase = "target"]
Invalidated(b) ==
    [b EXCEPT !.rev = @ + 1, !.plans = 0, !.job = NoSnapshot, !.source = NoSnapshot,
              !.key = NoKey, !.phase = "target", !.typed = ""]

-----------------------------------------------------------------------------
(* The catalogue behind the dialog: it stays usable while a request runs.  *)

Dialog == UNCHANGED <<post, look, view, jobs, session, posted>>
Reselected(s) ==
    /\ ~bulk.open /\ bulk.rev < MaxRevision
    /\ bulk' = Invalidated([bulk EXCEPT !.sel = s])
    /\ Dialog
ToggleControl(c) ==
    /\ c \in bulk.sel \/ Cardinality(bulk.sel) < Limit
    /\ Reselected(IF c \in bulk.sel THEN bulk.sel \ {c} ELSE bulk.sel \cup {c})
UseGroup(s) == Cardinality(s) <= Limit /\ Reselected(s)
ClearSelection == Reselected({})

OpenDialog == ~bulk.open /\ bulk.sel # {} /\ bulk' = [bulk EXCEPT !.open = TRUE] /\ Dialog
CloseDialog == bulk.open /\ bulk' = [bulk EXCEPT !.open = FALSE] /\ Dialog

-----------------------------------------------------------------------------
(* What the open dialog shows, and its forms.                              *)

Shows(phase) == bulk.open /\ ~Pending /\ bulk.phase = phase
ShowsResult == Shows("working") /\ Action(bulk.job) # "preview" /\ ~bulk.job.active

EditTarget(t) ==
    /\ Shows("target") /\ bulk' = [bulk EXCEPT !.target = t] /\ Dialog
EditAgain ==
    /\ \/ Shows("review")
       \/ Shows("working") /\ Action(bulk.job) = "preview" /\ ~bulk.job.active
    /\ bulk.rev < MaxRevision
    /\ bulk' = Invalidated(bulk) /\ Dialog
StartAnother ==
    /\ ShowsResult /\ bulk.rev < MaxRevision
    /\ bulk' = [Invalidated([bulk EXCEPT !.sel = {}]) EXCEPT !.open = FALSE]
    /\ Dialog
Type(word) ==
    /\ \/ Shows("review") /\ word \in {"", "APPLY"}
       \/ Shows("recovery") /\ word \in {"", "ROLLBACK"}
    /\ bulk' = [bulk EXCEPT !.typed = word] /\ Dialog
StartRecovery ==
    /\ ShowsResult /\ bulk.source.id # 0
    /\ bulk' = [bulk EXCEPT !.typed = "", !.phase = "recovery"] /\ Dialog
CancelRecovery ==
    /\ Shows("recovery") /\ bulk' = [bulk EXCEPT !.phase = "working"] /\ Dialog

-----------------------------------------------------------------------------
(* Submissions. One at a time; the answer is taken whatever happened since.*)

Submit(action, batch) ==
    /\ ~TaskRunning
    /\ post' = [action |-> action, batch |-> batch, id |-> 0]
    /\ UNCHANGED <<bulk, look, view, jobs, session>>
SubmitPreview ==
    /\ Shows("target") /\ ~bulk.job.active /\ bulk.sel # {}
    /\ Submit("preview", 0) /\ UNCHANGED posted

Approvable ==
    /\ Shows("review") /\ ~bulk.job.active /\ bulk.typed = "APPLY"
    /\ bulk.key = DraftKey
Approve ==
    /\ Approvable
    /\ Submit("apply", bulk.job.id) /\ posted' = posted \cup {bulk.plans}
SubmitRollback ==
    /\ Shows("recovery") /\ ~bulk.job.active /\ bulk.typed = "ROLLBACK"
    /\ Submit("rollback", bulk.source.id) /\ UNCHANGED posted
SubmitVerify ==
    /\ ShowsResult /\ bulk.source.id # 0
    /\ Submit("verify", bulk.source.id) /\ UNCHANGED posted

\* The server accepts: a preview of the form as it was sent is a new batch.
ServerAccepts ==
    /\ Pending /\ post.id = 0 /\ Len(jobs) < MaxBatchJob
    /\ LET id == Len(jobs) + 1
       IN /\ jobs' = Append(jobs,
               [action |-> post.action, active |-> TRUE, complete |-> FALSE,
                batch |-> IF post.action = "preview" THEN id
                          ELSE IF post.action = "apply" THEN post.batch
                          ELSE jobs[post.batch].batch,
                source |-> IF post.action = "rollback" THEN post.batch ELSE 0,
                target |-> bulk.target])
          /\ post' = [post EXCEPT !.id = id]
    /\ UNCHANGED <<bulk, look, view, session, posted>>
Reply ==
    /\ Pending /\ post.id # 0
    /\ LET job == [id |-> post.id, active |-> TRUE]
       IN bulk' = [bulk EXCEPT !.job = job, !.phase = "working",
                   !.source = IF post.action = "apply" THEN job ELSE @]
    /\ post' = NotPosting
    /\ UNCHANGED <<look, view, jobs, session, posted>>
\* Refused by the server, or the answer is lost after it accepted.
SubmitFails ==
    /\ Pending /\ post' = NotPosting
    /\ UNCHANGED <<bulk, look, view, jobs, session, posted>>

ServerEnds(id) ==
    /\ jobs[id].active
    /\ \E c \in BOOLEAN :
          jobs' = [jobs EXCEPT ![id].active = FALSE, ![id].complete = c]
    /\ UNCHANGED <<bulk, post, look, view, session, posted>>
Reconnect ==
    /\ session < MaxSession /\ session' = session + 1
    /\ UNCHANGED <<bulk, post, look, view, jobs, posted>>

-----------------------------------------------------------------------------
(* The poll: two reads, each followed by the test of revision and job.     *)

PollStart ==
    /\ bulk.job.id # 0 /\ look = NotLooking /\ ~Pending
    /\ look' = [id |-> bulk.job.id, rev |-> bulk.rev, stage |-> "job"]
    /\ UNCHANGED <<bulk, post, view, jobs, session, posted>>

Current == look.rev = bulk.rev /\ look.id = bulk.job.id

Polled == UNCHANGED <<post, view, jobs, session, posted>>
PollDropped ==
    /\ look.stage # "idle" /\ ~Current
    /\ look' = NotLooking /\ UNCHANGED bulk /\ Polled
PollFails ==
    /\ look.stage # "idle"
    /\ look' = NotLooking /\ UNCHANGED bulk /\ Polled
PollJob ==
    /\ look.stage = "job" /\ Current
    /\ bulk' = [bulk EXCEPT !.job.active = jobs[look.id].active]
    /\ LET read == jobs[look.id]
       IN look' = IF read.action # "preview" THEN [look EXCEPT !.stage = "history"]
                  ELSE IF read.complete /\ bulk.phase # "review"
                       THEN [look EXCEPT !.stage = "batch"]
                  ELSE NotLooking
    /\ Polled
PollBatch ==
    /\ look.stage = "batch" /\ Current
    /\ LET batch == jobs[look.id].batch
       IN bulk' = IF jobs[batch].target # bulk.target
                  THEN [bulk EXCEPT !.plans = batch]
                  ELSE [bulk EXCEPT !.plans = batch, !.key = DraftKey, !.phase = "review"]
    /\ look' = NotLooking /\ Polled
PollHistory ==
    /\ look.stage = "history" /\ Current
    /\ bulk' = [bulk EXCEPT !.source = IF Action(bulk.job) = "apply" THEN bulk.job ELSE @]
    /\ look' = NotLooking /\ Polled

\* A recorded batch is opened from the Operations page.
ViewJob(id) ==
    /\ ~bulk.open /\ ~TaskRunning /\ jobs[id].action = "apply"
    /\ view' = id /\ UNCHANGED <<bulk, post, look, jobs, session, posted>>
Viewed ==
    /\ view # 0 /\ view' = 0
    /\ \E id \in DOMAIN jobs :
         /\ id = view \/ jobs[id].source = view
         /\ bulk' = [bulk EXCEPT !.job = [id |-> id, active |-> jobs[id].active],
                     !.source = [id |-> view, active |-> jobs[view].active],
                     !.plans = jobs[view].batch, !.open = TRUE, !.phase = "working"]
    /\ UNCHANGED <<post, look, jobs, session, posted>>
ViewFails == view # 0 /\ view' = 0 /\ UNCHANGED <<bulk, post, look, jobs, session, posted>>

BulkNext ==
    \/ \E c \in Ctl : ToggleControl(c)
    \/ \E s \in SUBSET Ctl : UseGroup(s)
    \/ ClearSelection \/ OpenDialog \/ CloseDialog
    \/ \E t \in BatchTarget : EditTarget(t)
    \/ EditAgain \/ StartAnother \/ StartRecovery \/ CancelRecovery
    \/ \E word \in {"", "APPLY", "ROLLBACK"} : Type(word)
    \/ SubmitPreview \/ Approve \/ SubmitRollback \/ SubmitVerify
    \/ ServerAccepts \/ Reply \/ SubmitFails \/ Reconnect
    \/ \E id \in DOMAIN jobs : ServerEnds(id) \/ ViewJob(id)
    \/ PollStart \/ PollDropped \/ PollFails \/ PollJob \/ PollBatch \/ PollHistory
    \/ Viewed \/ ViewFails
BulkSpec == BulkInit /\ [][BulkNext]_bulkVars

-----------------------------------------------------------------------------
(* Only the batch whose plans are on the screen is applied, and only under *)
(* an APPLY that was typed for it: no lost answer, late poll, reopened     *)
(* record or abandoned dialog lets a confirmation reach another batch.     *)
BatchReview == INSTANCE ReviewedChange WITH
    Change <- 1..MaxBatchJob, Nothing <- 0,
    shown <- IF bulk.phase = "review" THEN bulk.plans ELSE 0,
    agreed <- IF bulk.phase = "review" /\ bulk.typed = "APPLY" THEN bulk.plans ELSE 0,
    asked <- posted
BatchIsReviewed == BatchReview!ChangeSpec
=============================================================================
