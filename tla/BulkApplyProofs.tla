---------------------------- MODULE BulkApplyProofs ---------------------------
(***************************************************************************)
(* The batch dialog implements ReviewedChange, for any controls, targets,  *)
(* revisions, connections and any number of workflows.                     *)
(***************************************************************************)
EXTENDS BulkApply, TLAPS

-----------------------------------------------------------------------------
(* The inductive invariant.                                                *)

\* What the dialog and the server's records can hold.
Actions == {"preview", "apply", "rollback", "verify"}
Snapshots == [id : Nat, active : BOOLEAN]
Keys == {NoKey} \cup {<<s, t, n>> : s \in SUBSET Ctl, t \in BatchTarget, n \in Nat}
BulkPages == [sel : SUBSET Ctl, target : BatchTarget, open : BOOLEAN,
              phase : {"target", "working", "review", "recovery"},
              job : Snapshots, source : Snapshots, plans : Nat, key : Keys,
              typed : {"", "APPLY", "ROLLBACK"}, rev : Nat]
JobRecords == [action : Actions, active : BOOLEAN, complete : BOOLEAN,
               batch : Nat, source : Nat, target : BatchTarget]
Posts == [action : Actions \cup {"none"}, batch : Nat, id : Nat]
Looks == [id : Nat, rev : Nat, stage : {"idle", "job", "batch", "history"}]
BulkTypeOK ==
    /\ bulk \in BulkPages /\ post \in Posts /\ look \in Looks
    /\ view \in Nat /\ session \in Nat /\ jobs \in Seq(JobRecords)

\* What is referred to exists, and is what it is taken for.
Workflows == 1..Len(jobs)
JobsBounded == Len(jobs) <= MaxBatchJob
JobsSound ==
    \A i \in Workflows : /\ jobs[i].batch \in Workflows
                         /\ jobs[i].source # 0 => jobs[i].action # "preview"
RefsExist ==
    /\ bulk.job.id \in Workflows \cup {0} /\ bulk.source.id \in Workflows \cup {0}
    /\ view \in Workflows \cup {0} /\ look.id \in Workflows \cup {0}
    /\ post.id \in Workflows \cup {0}
RefsSound ==
    /\ look.stage # "idle" => look.id # 0
    /\ post.action \notin {"none", "preview"} => post.batch \in Workflows
    /\ post.id # 0 => jobs[post.id].action = post.action
    /\ view # 0 => jobs[view].action # "preview" /\ post.action = "none"
    /\ bulk.phase = "recovery" => bulk.source.id # 0

\* The dialog comes to a review only from the poll of a preview, and no APPLY
\* is left over when it does.
ConsentFresh ==
    /\ bulk.phase = "target" => bulk.typed # "APPLY" /\ bulk.job.id = 0
    /\ post.action = "preview" => bulk.phase = "target"
    /\ bulk.phase = "review" => bulk.plans \in Workflows /\ bulk.job.id # 0
    /\ bulk.typed = "APPLY" /\ bulk.phase # "review" =>
          bulk.job.id # 0 /\ jobs[bulk.job.id].action # "preview"
    /\ look.stage = "batch" => bulk.phase # "review" /\ jobs[look.id].action = "preview"

BulkInv ==
    BulkTypeOK /\ JobsBounded /\ JobsSound /\ RefsExist /\ RefsSound /\ ConsentFresh

\* A draft key is no key or the selection, target and connection of a draft.
LEMMA KeysHold ==
  /\ NoKey \in Keys
  /\ \A s \in SUBSET Ctl, t \in BatchTarget, n \in Nat : <<s, t, n>> \in Keys
  BY DEF Keys

\* The dialog starts in the invariant.
LEMMA BulkInitInv == BulkInit => BulkInv
<1> SUFFICES ASSUME BulkInit PROVE BulkInv
  OBVIOUS
<1>1. bulk \in BulkPages
  <2>1. (CHOOSE t \in BatchTarget : TRUE) \in BatchTarget
    BY BatchTargetExists
  <2>2. NoSnapshot \in Snapshots
    BY DEF NoSnapshot, Snapshots
  <2> QED
    BY <2>1, <2>2, KeysHold DEF BulkInit, BulkPages
<1>2. /\ post \in Posts /\ look \in Looks /\ view \in Nat /\ session \in Nat
  BY DEF BulkInit, Posts, NotPosting, Looks, NotLooking, Actions
<1>3. jobs \in Seq(JobRecords) /\ Len(jobs) = 0
  <2>1. jobs = <<>>
    BY DEF BulkInit
  <2> QED
    BY <2>1
<1>4. bulk.job.id = 0 /\ bulk.source.id = 0 /\ bulk.phase = "target" /\ bulk.typed = ""
  BY DEF BulkInit, NoSnapshot
<1>5. view = 0 /\ look.id = 0 /\ look.stage = "idle" /\ post.id = 0 /\ post.action = "none"
  BY DEF BulkInit, NotPosting, NotLooking
<1>6. BulkTypeOK
  BY <1>1, <1>2, <1>3 DEF BulkTypeOK
<1>7. JobsBounded /\ JobsSound
  <2>1. 1..Len(jobs) = {} /\ Len(jobs) <= MaxBatchJob
    BY <1>3, BatchBound
  <2> QED
    BY <2>1 DEF JobsSound, JobsBounded, Workflows
<1>9. RefsExist
  BY <1>4, <1>5 DEF RefsExist
<1>10. RefsSound
  BY <1>4, <1>5 DEF RefsSound
<1>8. ConsentFresh
  BY <1>4, <1>5 DEF ConsentFresh
<1> QED
  BY <1>6, <1>7, <1>8, <1>9, <1>10 DEF BulkInv

-----------------------------------------------------------------------------
(* Steps of the dialog itself.                                              *)

\* What can be written into the dialog leaves it a dialog.
LEMMA BulkUpdates ==
  ASSUME NEW b \in BulkPages
  PROVE  /\ \A s \in SUBSET Ctl : [b EXCEPT !.sel = s] \in BulkPages
         /\ \A t \in BatchTarget : [b EXCEPT !.target = t] \in BulkPages
         /\ \A o \in BOOLEAN : [b EXCEPT !.open = o] \in BulkPages
         /\ \A w \in {"", "APPLY", "ROLLBACK"} : [b EXCEPT !.typed = w] \in BulkPages
         /\ \A j \in Snapshots : /\ [b EXCEPT !.source = j] \in BulkPages
                                  /\ [b EXCEPT !.job = j] \in BulkPages
         /\ \A n \in Nat : [b EXCEPT !.plans = n] \in BulkPages
         /\ \A p \in {"target", "working", "review", "recovery"} :
               [b EXCEPT !.phase = p] \in BulkPages
         /\ \A k \in Keys : [b EXCEPT !.key = k] \in BulkPages
  BY DEF BulkPages
\* An invalidated dialog is empty, whatever was typed.
LEMMA InvalidatedDialog ==
  ASSUME NEW b \in BulkPages
  PROVE  /\ Invalidated(b) \in BulkPages
         /\ Invalidated(b).phase = "target" /\ Invalidated(b).typed = ""
         /\ Invalidated(b).job.id = 0 /\ Invalidated(b).source.id = 0
<1>1. NoSnapshot \in Snapshots /\ NoSnapshot.id = 0
  BY DEF NoSnapshot, Snapshots
<1>2. b.rev + 1 \in Nat
  <2>1. b.rev \in Nat
    BY DEF BulkPages
  <2> QED
    BY <2>1
<1> QED
  BY <1>1, <1>2, KeysHold DEF Invalidated, BulkPages

\* Steps that move none of the fields the invariant speaks of.
LEMMA DialogSame ==
  ASSUME BulkInv, bulk' \in BulkPages, UNCHANGED <<post, look, view, jobs, session>>,
         bulk'.job.id = bulk.job.id, bulk'.source.id = bulk.source.id, bulk'.plans = bulk.plans,
         bulk'.phase = bulk.phase, bulk'.typed = bulk.typed
  PROVE  BulkInv'
<1>1. BulkTypeOK' /\ JobsBounded' /\ JobsSound'
  BY DEF BulkInv, BulkTypeOK, JobsBounded, JobsSound, Workflows
<1>2. RefsExist' /\ RefsSound' /\ ConsentFresh'
  BY DEF BulkInv, RefsExist, RefsSound, ConsentFresh, Workflows
<1> QED
  BY <1>1, <1>2 DEF BulkInv

\* Steps that invalidate the dialog, perhaps while a request runs.
LEMMA DialogInvalidated ==
  ASSUME BulkInv, bulk' \in BulkPages, UNCHANGED <<post, look, view, jobs, session>>,
         bulk'.phase = "target", bulk'.typed = "", bulk'.job.id = 0, bulk'.source.id = 0
  PROVE  BulkInv'
<1>1. BulkTypeOK' /\ JobsBounded' /\ JobsSound'
  BY DEF BulkInv, BulkTypeOK, JobsBounded, JobsSound, Workflows
<1>2. RefsExist' /\ RefsSound' /\ ConsentFresh'
  BY DEF BulkInv, RefsExist, RefsSound, ConsentFresh, Workflows
<1> QED
  BY <1>1, <1>2 DEF BulkInv

\* The catalogue behind the dialog.
LEMMA ReselectedStep ==
  ASSUME BulkInv, NEW s \in SUBSET Ctl, Reselected(s)
  PROVE  BulkInv'
<1>1. [bulk EXCEPT !.sel = s] \in BulkPages
  BY BulkUpdates DEF BulkInv, BulkTypeOK
<1> QED
  BY <1>1, InvalidatedDialog, DialogInvalidated DEF Reselected, Dialog

\* Going back to edit gives up the review and what was typed.
LEMMA EditAgainStep ==
  ASSUME BulkInv, EditAgain
  PROVE  BulkInv'
  BY InvalidatedDialog, DialogInvalidated DEF EditAgain, Dialog, BulkInv, BulkTypeOK

\* Starting another batch gives up the selection and the review.
LEMMA StartAnotherStep ==
  ASSUME BulkInv, StartAnother
  PROVE  BulkInv'
<1> DEFINE b == Invalidated([bulk EXCEPT !.sel = {}])
<1>1. [bulk EXCEPT !.sel = {}] \in BulkPages
  BY BulkUpdates DEF BulkInv, BulkTypeOK
<1>2. /\ b \in BulkPages /\ b.phase = "target" /\ b.typed = ""
      /\ b.job.id = 0 /\ b.source.id = 0
  BY <1>1, InvalidatedDialog
<1>3. bulk' = [b EXCEPT !.open = FALSE]
  BY DEF StartAnother
<1> HIDE DEF b
<1>4. bulk' \in BulkPages
  BY <1>2, <1>3, BulkUpdates
<1>5. bulk'.phase = "target" /\ bulk'.typed = "" /\ bulk'.job.id = 0 /\ bulk'.source.id = 0
  BY <1>2, <1>3 DEF BulkPages
<1> QED
  BY <1>4, <1>5, DialogInvalidated DEF StartAnother, Dialog

\* The other fields of the dialog are edited freely.
LEMMA EditStep ==
  ASSUME BulkInv, NEW o \in BOOLEAN, NEW t \in BatchTarget,
         bulk' = [bulk EXCEPT !.open = o] \/ bulk' = [bulk EXCEPT !.target = t], Dialog
  PROVE  BulkInv'
<1>1. bulk' \in BulkPages
  BY BulkUpdates DEF BulkInv, BulkTypeOK
<1>2. /\ bulk'.job = bulk.job /\ bulk'.source = bulk.source /\ bulk'.plans = bulk.plans
      /\ bulk'.phase = bulk.phase /\ bulk'.typed = bulk.typed
  BY DEF BulkInv, BulkTypeOK, BulkPages
<1> QED
  BY <1>1, <1>2, DialogSame DEF Dialog

\* A word is typed only where it can be confirmed.
LEMMA TypeStep ==
  ASSUME BulkInv, NEW word \in {"", "APPLY", "ROLLBACK"}, Type(word)
  PROVE  BulkInv'
<1>1. bulk' \in BulkPages
  BY BulkUpdates DEF BulkInv, BulkTypeOK, Type
<1>2. /\ bulk'.job = bulk.job /\ bulk'.source = bulk.source /\ bulk'.plans = bulk.plans
      /\ bulk'.phase = bulk.phase /\ bulk'.typed = word
      /\ UNCHANGED <<post, look, view, jobs, session>>
  BY DEF BulkInv, BulkTypeOK, BulkPages, Type, Dialog
<1>3. bulk.phase = "review" \/ (bulk.phase = "recovery" /\ word # "APPLY")
  BY DEF Type, Shows
<1>4. BulkTypeOK' /\ JobsBounded' /\ JobsSound' /\ RefsExist' /\ RefsSound'
  BY <1>1, <1>2 DEF BulkInv, BulkTypeOK, JobsBounded, JobsSound, RefsExist, RefsSound, Workflows
<1>5. ConsentFresh'
  BY <1>2, <1>3 DEF BulkInv, ConsentFresh, Workflows
<1> QED
  BY <1>4, <1>5 DEF BulkInv

\* A recovery is opened for the batch that was applied.
LEMMA StartRecoveryStep ==
  ASSUME BulkInv, StartRecovery
  PROVE  BulkInv'
<1>1. bulk' \in BulkPages
  <2>1. [bulk EXCEPT !.typed = ""] \in BulkPages
    BY BulkUpdates DEF BulkInv, BulkTypeOK
  <2> QED
    BY <2>1, BulkUpdates DEF StartRecovery
<1>2. /\ bulk'.job = bulk.job /\ bulk'.source = bulk.source /\ bulk'.plans = bulk.plans
      /\ bulk'.phase = "recovery" /\ bulk'.typed = "" /\ bulk.source.id # 0
      /\ post.action = "none" /\ UNCHANGED <<post, look, view, jobs, session>>
  BY DEF BulkInv, BulkTypeOK, BulkPages, StartRecovery, Dialog, ShowsResult, Shows, Pending
<1>3. BulkTypeOK' /\ JobsBounded' /\ JobsSound' /\ RefsExist' /\ RefsSound'
  BY <1>1, <1>2 DEF BulkInv, BulkTypeOK, JobsBounded, JobsSound, RefsExist, RefsSound, Workflows
<1>4. ConsentFresh'
  BY <1>2 DEF BulkInv, ConsentFresh, Workflows
<1> QED
  BY <1>3, <1>4 DEF BulkInv

\* A recovery that is given up leaves nothing typed.
LEMMA CancelRecoveryStep ==
  ASSUME BulkInv, CancelRecovery
  PROVE  BulkInv'
<1>1. bulk' \in BulkPages
  BY BulkUpdates DEF BulkInv, BulkTypeOK, CancelRecovery
<1>2. /\ bulk'.job = bulk.job /\ bulk'.source = bulk.source /\ bulk'.plans = bulk.plans
      /\ bulk'.phase = "working" /\ bulk'.typed = bulk.typed /\ bulk.phase = "recovery"
      /\ post.action = "none" /\ UNCHANGED <<post, look, view, jobs, session>>
  BY DEF BulkInv, BulkTypeOK, BulkPages, CancelRecovery, Dialog, Shows, Pending
<1>3. BulkTypeOK' /\ JobsBounded' /\ JobsSound' /\ RefsExist' /\ RefsSound'
  BY <1>1, <1>2 DEF BulkInv, BulkTypeOK, JobsBounded, JobsSound, RefsExist, RefsSound, Workflows
<1>4. ConsentFresh'
  BY <1>2 DEF BulkInv, ConsentFresh, Workflows
<1> QED
  BY <1>3, <1>4 DEF BulkInv

-----------------------------------------------------------------------------
(* Submissions and their answers.                                           *)

\* A submission that refers to an existing workflow, or to none for a preview.
LEMMA SubmitStep ==
  ASSUME BulkInv, NEW action \in Actions, NEW batch \in Nat, Submit(action, batch),
         action = "preview" => bulk.phase = "target",
         action # "preview" => batch \in Workflows
  PROVE  BulkInv'
<1>1. /\ post' \in Posts /\ post'.action = action /\ post'.batch = batch /\ post'.id = 0
      /\ view = 0 /\ UNCHANGED <<bulk, look, view, jobs, session>>
  BY DEF Submit, TaskRunning, Posts
<1>2. BulkTypeOK' /\ JobsBounded' /\ JobsSound'
  BY <1>1 DEF BulkInv, BulkTypeOK, JobsBounded, JobsSound, Workflows
<1>3. RefsExist' /\ RefsSound' /\ ConsentFresh'
  BY <1>1 DEF BulkInv, RefsExist, RefsSound, ConsentFresh, Workflows
<1> QED
  BY <1>2, <1>3 DEF BulkInv

\* Workflows have numbers from one.
LEMMA WorkflowNumbers ==
  ASSUME BulkInv
  PROVE  /\ 0 \notin Workflows /\ Workflows \subseteq Nat
         /\ \A i \in Workflows : jobs[i] \in JobRecords
<1>1. jobs \in Seq(JobRecords)
  BY DEF BulkInv, BulkTypeOK
<1> QED
  BY <1>1 DEF Workflows

\* What is posted names workflows that exist.
LEMMA SubmissionsStep ==
  ASSUME BulkInv, SubmitPreview \/ Approve \/ SubmitRollback \/ SubmitVerify
  PROVE  BulkInv'
<1>1. bulk.job.id \in Workflows \cup {0} /\ bulk.source.id \in Workflows \cup {0}
  BY DEF BulkInv, RefsExist
<1>2. Workflows \subseteq Nat /\ 0 \in Nat
  BY WorkflowNumbers
<1>3. CASE SubmitPreview
  BY <1>2, <1>3, SubmitStep DEF SubmitPreview, Shows, Actions
<1>4. CASE Approve
  <2>1. bulk.phase = "review" /\ Submit("apply", bulk.job.id)
    BY <1>4 DEF Approve, Approvable, Shows
  <2>2. bulk.job.id # 0
    BY <2>1 DEF BulkInv, ConsentFresh
  <2> QED
    BY <1>1, <1>2, <2>1, <2>2, SubmitStep DEF Actions
<1>5. CASE SubmitRollback
  <2>1. bulk.phase = "recovery" /\ Submit("rollback", bulk.source.id)
    BY <1>5 DEF SubmitRollback, Shows
  <2>2. bulk.source.id # 0
    BY <2>1 DEF BulkInv, RefsSound
  <2> QED
    BY <1>1, <1>2, <2>1, <2>2, SubmitStep DEF Actions
<1>6. CASE SubmitVerify
  <2>1. bulk.source.id # 0 /\ Submit("verify", bulk.source.id)
    BY <1>6 DEF SubmitVerify
  <2> QED
    BY <1>1, <1>2, <2>1, SubmitStep DEF Actions
<1> QED
  BY <1>3, <1>4, <1>5, <1>6

-----------------------------------------------------------------------------
(* The server's side, and the connection.                                   *)

\* A new workflow takes the next number; the earlier ones stay as they are.
LEMMA ServerAcceptsStep ==
  ASSUME BulkInv, ServerAccepts
  PROVE  BulkInv'
<1> DEFINE id == Len(jobs) + 1
           new == [action |-> post.action, active |-> TRUE, complete |-> FALSE,
                   batch |-> IF post.action = "preview" THEN id
                             ELSE IF post.action = "apply" THEN post.batch
                             ELSE jobs[post.batch].batch,
                   source |-> IF post.action = "rollback" THEN post.batch ELSE 0,
                   target |-> bulk.target]
<1>1. /\ jobs' = Append(jobs, new) /\ post' = [post EXCEPT !.id = id]
      /\ UNCHANGED <<bulk, look, view, session>> /\ Len(jobs) < MaxBatchJob
      /\ post.action # "none" /\ post.id = 0
  BY DEF ServerAccepts, Pending
<1>2. jobs \in Seq(JobRecords) /\ post \in Posts /\ bulk \in BulkPages
  BY DEF BulkInv, BulkTypeOK
<1>3. id \in Nat /\ id \notin Workflows /\ id # 0
  BY <1>2 DEF Workflows
<1>4. post.action \in Actions
  BY <1>1, <1>2 DEF Posts
<1>5. Workflows \cup {id} \subseteq Nat /\ 0 \notin Workflows
  BY <1>3, WorkflowNumbers
<1>6. post.action # "preview" => post.batch \in Workflows
  BY <1>1 DEF BulkInv, RefsSound
<1>7. new.batch \in Workflows \cup {id} /\ (new.source # 0 => new.action # "preview")
  <2>1. CASE post.action = "preview"
    BY <2>1
  <2>2. CASE post.action # "preview"
    BY <2>2, <1>6 DEF BulkInv, JobsSound
  <2> QED
    BY <2>1, <2>2
<1>8. new \in JobRecords
  <2>1. new.source \in Nat
    BY <1>5, <1>6
  <2>2. new.batch \in Nat
    BY <1>5, <1>7
  <2>3. bulk.target \in BatchTarget
    BY <1>2 DEF BulkPages
  <2> HIDE DEF id
  <2> QED
    BY <1>4, <2>1, <2>2, <2>3 DEF JobRecords
<1>9. new.action = post.action
  OBVIOUS
<1> HIDE DEF new
<1>10. /\ jobs' \in Seq(JobRecords) /\ Workflows' = Workflows \cup {id}
       /\ Len(jobs') = id
       /\ \A i \in Workflows : jobs'[i] = jobs[i]
       /\ jobs'[id] = new
  BY <1>1, <1>2, <1>8 DEF Workflows
<1>11. JobsBounded'
  BY <1>1, <1>2, <1>10, BatchBound DEF JobsBounded
<1> HIDE DEF id
<1>12. post' \in Posts /\ post'.action = post.action /\ post'.batch = post.batch /\ post'.id = id
  BY <1>1, <1>2, <1>3 DEF Posts
<1>13. BulkTypeOK'
  BY <1>1, <1>10, <1>12 DEF BulkInv, BulkTypeOK
<1>14. JobsSound'
  BY <1>7, <1>10 DEF BulkInv, JobsSound
<1>15. RefsExist'
  BY <1>1, <1>10, <1>12 DEF BulkInv, RefsExist
<1>16. RefsSound'
  <2>1. (view # 0 => jobs'[view].action # "preview" /\ post'.action = "none")
    BY <1>10, <1>12 DEF BulkInv, RefsExist, RefsSound
  <2>2. jobs'[post'.id].action = post'.action
    BY <1>9, <1>10, <1>12
  <2> QED
    BY <1>1, <1>10, <1>12, <2>1, <2>2 DEF BulkInv, RefsSound
<1>17. ConsentFresh'
  <2>1. /\ bulk.job.id # 0 => jobs'[bulk.job.id] = jobs[bulk.job.id]
        /\ look.id # 0 => jobs'[look.id] = jobs[look.id]
    BY <1>10 DEF BulkInv, RefsExist
  <2>2. look.stage = "batch" => look.id # 0
    BY DEF BulkInv, RefsSound
  <2> QED
    BY <1>1, <1>10, <1>12, <2>1, <2>2 DEF BulkInv, ConsentFresh
<1> QED
  BY <1>11, <1>13, <1>14, <1>15, <1>16, <1>17 DEF BulkInv

\* The answer ends the submission: a new workflow of that kind is followed.
LEMMA ReplyStep ==
  ASSUME BulkInv, Reply
  PROVE  BulkInv'
<1> DEFINE job == [id |-> post.id, active |-> TRUE]
<1>1. /\ post' = NotPosting /\ UNCHANGED <<look, view, jobs, session>>
      /\ post.action # "none" /\ post.id # 0
      /\ bulk' = [bulk EXCEPT !.job = job, !.phase = "working",
                   !.source = IF post.action = "apply" THEN job ELSE @]
  BY DEF Reply, Pending
<1>2. bulk \in BulkPages /\ post \in Posts
  BY DEF BulkInv, BulkTypeOK
<1>3. job \in Snapshots /\ job.id = post.id
  BY <1>2 DEF Posts, Snapshots
<1> HIDE DEF job
<1>4. /\ bulk' \in BulkPages /\ bulk'.job = job /\ bulk'.phase = "working"
      /\ bulk'.source \in {job, bulk.source} /\ bulk'.typed = bulk.typed
  BY <1>1, <1>2, <1>3 DEF BulkPages
<1>5. /\ NotPosting \in Posts /\ NotPosting.action = "none" /\ NotPosting.id = 0
  BY DEF NotPosting, Posts
<1>6. BulkTypeOK' /\ JobsBounded' /\ JobsSound'
  BY <1>1, <1>4, <1>5 DEF BulkInv, BulkTypeOK, JobsBounded, JobsSound, Workflows
<1>7. RefsExist'
  <2>1. bulk'.source.id \in {post.id, bulk.source.id} /\ bulk'.job.id = post.id
    BY <1>3, <1>4
  <2> QED
    BY <1>1, <1>5, <2>1 DEF BulkInv, RefsExist, Workflows
<1>8. RefsSound'
  BY <1>1, <1>4, <1>5 DEF BulkInv, RefsSound, Workflows
<1>9. ConsentFresh'
  <2>1. jobs[post.id].action = post.action
    BY <1>1 DEF BulkInv, RefsSound
  <2>2. bulk.typed = "APPLY" => jobs[post.id].action # "preview"
    BY <2>1 DEF BulkInv, ConsentFresh
  <2> QED
    BY <1>1, <1>3, <1>4, <1>5, <2>2 DEF BulkInv, ConsentFresh, Workflows
<1> QED
  BY <1>6, <1>7, <1>8, <1>9 DEF BulkInv

\* A lost or refused submission changes nothing else.
LEMMA SubmitFailsStep ==
  ASSUME BulkInv, SubmitFails
  PROVE  BulkInv'
<1>1. post' = NotPosting /\ UNCHANGED <<bulk, look, view, jobs, session>>
  BY DEF SubmitFails
<1>2. /\ NotPosting \in Posts /\ NotPosting.action = "none" /\ NotPosting.id = 0
  BY DEF NotPosting, Posts
<1>3. BulkTypeOK' /\ JobsBounded' /\ JobsSound'
  BY <1>1, <1>2 DEF BulkInv, BulkTypeOK, JobsBounded, JobsSound, Workflows
<1>4. RefsExist' /\ RefsSound' /\ ConsentFresh'
  BY <1>1, <1>2 DEF BulkInv, RefsExist, RefsSound, ConsentFresh, Workflows
<1> QED
  BY <1>3, <1>4 DEF BulkInv

\* A workflow that ends keeps its kind, its batch and its source.
LEMMA ServerEndsStep ==
  ASSUME BulkInv, NEW id \in DOMAIN jobs, ServerEnds(id)
  PROVE  BulkInv'
<1>1. UNCHANGED <<bulk, post, look, view, session>>
  BY DEF ServerEnds
<1>2. PICK c \in BOOLEAN : jobs' = [jobs EXCEPT ![id].active = FALSE, ![id].complete = c]
  BY DEF ServerEnds
<1>3. jobs \in Seq(JobRecords)
  BY DEF BulkInv, BulkTypeOK
<1>4. id \in Workflows
  BY <1>3 DEF Workflows
<1>5. jobs[id] \in JobRecords
  BY <1>4, WorkflowNumbers
<1> DEFINE end == [jobs[id] EXCEPT !.active = FALSE, !.complete = c]
<1>6. /\ end \in JobRecords /\ end.action = jobs[id].action
      /\ end.batch = jobs[id].batch /\ end.source = jobs[id].source
  BY <1>5 DEF JobRecords
<1>7. jobs' = [jobs EXCEPT ![id] = end]
  BY <1>2, <1>3
<1> HIDE DEF end
<1>8. jobs' \in Seq(JobRecords) /\ Len(jobs') = Len(jobs)
  BY <1>3, <1>6, <1>7
<1>9. \A i \in Workflows : jobs'[i] = IF i = id THEN end ELSE jobs[i]
  BY <1>3, <1>7 DEF Workflows
<1>10. \A i \in Workflows : /\ jobs'[i].action = jobs[i].action
                            /\ jobs'[i].batch = jobs[i].batch
                            /\ jobs'[i].source = jobs[i].source
  BY <1>6, <1>9
<1>11. BulkTypeOK' /\ JobsBounded' /\ Workflows' = Workflows
  BY <1>1, <1>8 DEF BulkInv, BulkTypeOK, JobsBounded, Workflows
<1>12. JobsSound'
  BY <1>10, <1>11 DEF BulkInv, JobsSound
<1>13. RefsExist'
  BY <1>1, <1>11 DEF BulkInv, RefsExist
<1>14. RefsSound'
  BY <1>1, <1>10, <1>11 DEF BulkInv, RefsExist, RefsSound
<1>15. ConsentFresh'
  <2>1. look.stage = "batch" => look.id # 0
    BY DEF BulkInv, RefsSound
  <2> QED
    BY <1>1, <1>10, <1>11, <2>1 DEF BulkInv, RefsExist, ConsentFresh
<1> QED
  BY <1>11, <1>12, <1>13, <1>14, <1>15 DEF BulkInv

\* A new connection; the draft key notices it, the dialog does not.
LEMMA ReconnectStep ==
  ASSUME BulkInv, Reconnect
  PROVE  BulkInv'
<1>1. UNCHANGED <<bulk, post, look, view, jobs>> /\ session' \in Nat
  <2>1. session \in Nat
    BY DEF BulkInv, BulkTypeOK
  <2> QED
    BY <2>1 DEF Reconnect
<1>2. BulkTypeOK' /\ JobsBounded' /\ JobsSound'
  BY <1>1 DEF BulkInv, BulkTypeOK, JobsBounded, JobsSound, Workflows
<1>3. RefsExist' /\ RefsSound' /\ ConsentFresh'
  BY <1>1 DEF BulkInv, RefsExist, RefsSound, ConsentFresh, Workflows
<1> QED
  BY <1>2, <1>3 DEF BulkInv

-----------------------------------------------------------------------------
(* The poll and the recorded batch.                                         *)

\* Steps of the poll that leave the dialog alone.
LEMMA LookStep ==
  ASSUME BulkInv, look' \in Looks, UNCHANGED <<bulk, post, view, jobs, session>>,
         look'.id \in Workflows \cup {0}, look'.stage # "idle" => look'.id # 0,
         look'.stage # "batch"
  PROVE  BulkInv'
<1>1. BulkTypeOK' /\ JobsBounded' /\ JobsSound'
  BY DEF BulkInv, BulkTypeOK, JobsBounded, JobsSound, Workflows
<1>2. RefsExist' /\ RefsSound' /\ ConsentFresh'
  BY DEF BulkInv, RefsExist, RefsSound, ConsentFresh, Workflows
<1> QED
  BY <1>1, <1>2 DEF BulkInv

\* No poll is under way.
LEMMA NotLookingHolds ==
  NotLooking \in Looks /\ NotLooking.id = 0 /\ NotLooking.stage = "idle"
  BY DEF NotLooking, Looks

\* A look is begun at the workflow on the screen.
LEMMA PollStartStep ==
  ASSUME BulkInv, PollStart
  PROVE  BulkInv'
<1>1. bulk.job.id # 0 /\ look' = [id |-> bulk.job.id, rev |-> bulk.rev, stage |-> "job"]
  BY DEF PollStart
<1>2. bulk.job.id \in Nat /\ bulk.rev \in Nat
  BY DEF BulkInv, BulkTypeOK, BulkPages, Snapshots
<1>3. /\ look' \in Looks /\ look'.id = bulk.job.id /\ look'.stage = "job"
  BY <1>1, <1>2 DEF Looks
<1>4. bulk.job.id \in Workflows \cup {0}
  BY DEF BulkInv, RefsExist
<1> QED
  BY <1>1, <1>3, <1>4, LookStep DEF PollStart

\* A look that is dropped or fails changes nothing it looked at.
LEMMA PollEndsStep ==
  ASSUME BulkInv, PollDropped \/ PollFails
  PROVE  BulkInv'
  BY NotLookingHolds, LookStep DEF PollDropped, PollFails, Polled

\* The first read: a finished preview is read further unless under review.
LEMMA PollJobStep ==
  ASSUME BulkInv, PollJob
  PROVE  BulkInv'
<1> DEFINE a == jobs[look.id].active
<1>1. /\ look.stage = "job" /\ look.id = bulk.job.id
      /\ bulk' = [bulk EXCEPT !.job.active = a] /\ UNCHANGED <<post, view, jobs, session>>
  BY DEF PollJob, Current, Polled
<1>2. look \in Looks /\ bulk \in BulkPages
  BY DEF BulkInv, BulkTypeOK
<1>3. look.id \in Workflows
  BY <1>1 DEF BulkInv, RefsExist, RefsSound
<1>4. a \in BOOLEAN
  BY <1>3, WorkflowNumbers DEF JobRecords
<1> HIDE DEF a
<1>5. /\ bulk' \in BulkPages /\ bulk'.job.id = bulk.job.id /\ bulk'.source = bulk.source
      /\ bulk'.plans = bulk.plans /\ bulk'.phase = bulk.phase /\ bulk'.typed = bulk.typed
  BY <1>1, <1>2, <1>4 DEF BulkPages, Snapshots
<1>6. \/ look' = [look EXCEPT !.stage = "history"]
      \/ /\ look' = [look EXCEPT !.stage = "batch"]
         /\ jobs[look.id].action = "preview" /\ bulk.phase # "review"
      \/ look' = NotLooking
  BY DEF PollJob
<1>7. /\ look' \in Looks /\ look'.id \in {look.id, 0}
      /\ look'.stage # "idle" => look'.id = look.id
      /\ look'.stage = "batch" => /\ jobs[look.id].action = "preview"
                                  /\ bulk.phase # "review"
  BY <1>2, <1>6, NotLookingHolds DEF Looks
<1>8. 0 \notin Workflows
  BY WorkflowNumbers
<1>9. BulkTypeOK' /\ JobsBounded' /\ JobsSound'
  BY <1>1, <1>5, <1>7 DEF BulkInv, BulkTypeOK, JobsBounded, JobsSound, Workflows
<1>10. RefsExist' /\ RefsSound' /\ ConsentFresh'
  BY <1>1, <1>3, <1>5, <1>7, <1>8 DEF BulkInv, RefsExist, RefsSound, ConsentFresh, Workflows
<1> QED
  BY <1>9, <1>10 DEF BulkInv

\* The second read of a preview: the plans come on the screen, and the review
\* with them if the form is still the one they were drawn for.
LEMMA BatchFacts ==
  ASSUME BulkInv, PollBatch
  PROVE  /\ bulk' \in BulkPages /\ look' = NotLooking
         /\ UNCHANGED <<post, view, jobs, session, posted>>
         /\ bulk'.job = bulk.job /\ bulk'.source = bulk.source /\ bulk'.typed = bulk.typed
         /\ bulk'.plans \in Workflows /\ bulk'.phase \in {bulk.phase, "review"}
         /\ bulk.phase \notin {"review", "target"} /\ bulk.typed # "APPLY" /\ bulk.job.id # 0
<1> DEFINE batch == jobs[look.id].batch
<1>1. /\ look.stage = "batch" /\ look.id = bulk.job.id
      /\ \/ bulk' = [bulk EXCEPT !.plans = batch]
         \/ bulk' = [bulk EXCEPT !.plans = batch, !.key = DraftKey, !.phase = "review"]
      /\ look' = NotLooking /\ UNCHANGED <<post, view, jobs, session, posted>>
  BY DEF PollBatch, Current, Polled
<1>2. bulk \in BulkPages /\ session \in Nat
  BY DEF BulkInv, BulkTypeOK
<1>3. look.id \in Workflows /\ look.id # 0
  BY <1>1 DEF BulkInv, RefsExist, RefsSound
<1>4. batch \in Workflows /\ batch \in Nat
  BY <1>3, WorkflowNumbers DEF BulkInv, JobsSound
<1> HIDE DEF batch
<1>5. DraftKey \in Keys
  <2>1. bulk.sel \in SUBSET Ctl /\ bulk.target \in BatchTarget
    BY <1>2 DEF BulkPages
  <2> QED
    BY <1>2, <2>1, KeysHold DEF DraftKey
<1> DEFINE k == DraftKey
<1> HIDE DEF k
<1>8. /\ bulk' \in BulkPages
      /\ bulk'.job = bulk.job /\ bulk'.source = bulk.source /\ bulk'.typed = bulk.typed
      /\ bulk'.plans = batch /\ bulk'.phase \in {bulk.phase, "review"}
  <2>1. CASE bulk' = [bulk EXCEPT !.plans = batch]
    BY <1>2, <1>4, <2>1 DEF BulkPages
  <2>2. CASE bulk' = [bulk EXCEPT !.plans = batch, !.key = k, !.phase = "review"]
    <3>1. k \in Keys
      BY <1>5 DEF k
    <3> QED
      BY <1>2, <1>4, <2>2, <3>1 DEF BulkPages
  <2> QED
    BY <1>1, <2>1, <2>2 DEF k
<1>9. bulk.phase # "review" /\ bulk.typed # "APPLY"
  BY <1>1 DEF BulkInv, ConsentFresh
<1>10. bulk.phase # "target"
  BY <1>1, <1>3 DEF BulkInv, ConsentFresh
<1> QED
  BY <1>1, <1>3, <1>4, <1>8, <1>9, <1>10

\* A batch that is read leads a preview to its review, and nothing else.
LEMMA PollBatchStep ==
  ASSUME BulkInv, PollBatch
  PROVE  BulkInv'
<1>1. BulkTypeOK' /\ JobsBounded' /\ JobsSound'
  BY BatchFacts, NotLookingHolds
     DEF BulkInv, BulkTypeOK, JobsBounded, JobsSound, Workflows
<1>2. RefsExist' /\ RefsSound' /\ ConsentFresh'
  BY BatchFacts, NotLookingHolds DEF BulkInv, RefsExist, RefsSound, ConsentFresh, Workflows
<1> QED
  BY <1>1, <1>2 DEF BulkInv

\* The second read of another workflow.
LEMMA PollHistoryStep ==
  ASSUME BulkInv, PollHistory
  PROVE  BulkInv'
<1>1. /\ look.stage = "history" /\ look.id = bulk.job.id
      /\ bulk' = [bulk EXCEPT !.source = IF Action(bulk.job) = "apply" THEN bulk.job ELSE @]
      /\ look' = NotLooking /\ UNCHANGED <<post, view, jobs, session>>
  BY DEF PollHistory, Current, Polled
<1>2. bulk \in BulkPages
  BY DEF BulkInv, BulkTypeOK
<1>3. /\ bulk' \in BulkPages /\ bulk'.job = bulk.job /\ bulk'.source \in {bulk.job, bulk.source}
      /\ bulk'.plans = bulk.plans /\ bulk'.phase = bulk.phase /\ bulk'.typed = bulk.typed
  BY <1>1, <1>2 DEF BulkPages
<1>4. bulk.job.id # 0
  BY <1>1 DEF BulkInv, RefsSound
<1>5. bulk'.source.id \in {bulk.job.id, bulk.source.id} /\ bulk'.job.id = bulk.job.id
  BY <1>3
<1>6. BulkTypeOK' /\ JobsBounded' /\ JobsSound'
  BY <1>1, <1>3, NotLookingHolds
     DEF BulkInv, BulkTypeOK, JobsBounded, JobsSound, Workflows
<1>7. RefsExist' /\ RefsSound' /\ ConsentFresh'
  BY <1>1, <1>3, <1>4, <1>5, NotLookingHolds
     DEF BulkInv, RefsExist, RefsSound, ConsentFresh, Workflows
<1> QED
  BY <1>6, <1>7 DEF BulkInv

\* A recorded application is asked for while no request runs.
LEMMA ViewJobStep ==
  ASSUME BulkInv, NEW id \in DOMAIN jobs, ViewJob(id)
  PROVE  BulkInv'
<1>1. /\ view' = id /\ UNCHANGED <<bulk, post, look, jobs, session>>
      /\ jobs[id].action # "preview" /\ post.action = "none"
  BY DEF ViewJob, TaskRunning, Pending
<1>2. jobs \in Seq(JobRecords)
  BY DEF BulkInv, BulkTypeOK
<1>3. id \in Workflows /\ id \in Nat
  BY <1>2 DEF Workflows
<1>4. BulkTypeOK' /\ JobsBounded' /\ JobsSound'
  BY <1>1, <1>3 DEF BulkInv, BulkTypeOK, JobsBounded, JobsSound, Workflows
<1>5. RefsExist' /\ RefsSound' /\ ConsentFresh'
  BY <1>1, <1>3 DEF BulkInv, RefsExist, RefsSound, ConsentFresh, Workflows
<1> QED
  BY <1>4, <1>5 DEF BulkInv

\* The dialog opens on the recorded batch or on the latest work on it.
LEMMA ViewedFacts ==
  ASSUME BulkInv, Viewed
  PROVE  /\ bulk' \in BulkPages /\ view' = 0 /\ UNCHANGED <<post, look, jobs, session, posted>>
         /\ bulk'.phase = "working" /\ bulk'.typed = bulk.typed
         /\ bulk'.job.id \in Workflows /\ bulk'.source.id \in Workflows
         /\ jobs[bulk'.job.id].action # "preview" /\ post.action = "none"
<1>1. PICK id \in DOMAIN jobs :
         /\ id = view \/ jobs[id].source = view
         /\ bulk' = [bulk EXCEPT !.job = [id |-> id, active |-> jobs[id].active],
                     !.source = [id |-> view, active |-> jobs[view].active],
                     !.plans = jobs[view].batch, !.open = TRUE, !.phase = "working"]
  BY DEF Viewed
<1>2. view # 0 /\ view' = 0 /\ UNCHANGED <<post, look, jobs, session, posted>>
  BY DEF Viewed
<1>3. jobs \in Seq(JobRecords) /\ bulk \in BulkPages
  BY DEF BulkInv, BulkTypeOK
<1>4. id \in Workflows
  BY <1>3 DEF Workflows
<1>5. view \in Workflows
  BY <1>2 DEF BulkInv, RefsExist
<1>6. jobs[id].action # "preview" /\ post.action = "none"
  <2>1. jobs[view].action # "preview" /\ post.action = "none"
    BY <1>2 DEF BulkInv, RefsSound
  <2>2. jobs[id].source # 0 => jobs[id].action # "preview"
    BY <1>4 DEF BulkInv, JobsSound
  <2> QED
    BY <1>1, <1>2, <2>1, <2>2
<1> DEFINE j == [id |-> id, active |-> jobs[id].active]
           v == [id |-> view, active |-> jobs[view].active]
           n == jobs[view].batch
<1>7. j \in Snapshots /\ v \in Snapshots /\ n \in Nat /\ j.id = id /\ v.id = view
  BY <1>4, <1>5, WorkflowNumbers DEF Snapshots, JobRecords
<1>8. bulk' = [bulk EXCEPT !.job = j, !.source = v, !.plans = n, !.open = TRUE,
                           !.phase = "working"]
  BY <1>1
<1> HIDE DEF j, v, n
<1>9. /\ bulk' \in BulkPages /\ bulk'.job = j /\ bulk'.source = v
      /\ bulk'.phase = "working" /\ bulk'.typed = bulk.typed
  BY <1>3, <1>7, <1>8 DEF BulkPages
<1> QED
  BY <1>2, <1>4, <1>5, <1>6, <1>7, <1>9

\* The view of an earlier workflow reads a record that exists.
LEMMA ViewedStep ==
  ASSUME BulkInv, Viewed \/ ViewFails
  PROVE  BulkInv'
<1>1. CASE ViewFails
  <2>1. view' = 0 /\ UNCHANGED <<bulk, post, look, jobs, session>>
    BY <1>1 DEF ViewFails
  <2>2. BulkTypeOK' /\ JobsBounded' /\ JobsSound'
    BY <2>1 DEF BulkInv, BulkTypeOK, JobsBounded, JobsSound, Workflows
  <2>3. RefsExist' /\ RefsSound' /\ ConsentFresh'
    BY <2>1 DEF BulkInv, RefsExist, RefsSound, ConsentFresh, Workflows
  <2> QED
    BY <2>2, <2>3 DEF BulkInv
<1>2. CASE Viewed
  <2>1. BulkTypeOK' /\ JobsBounded' /\ JobsSound'
    BY <1>2, ViewedFacts DEF BulkInv, BulkTypeOK, JobsBounded, JobsSound, Workflows
  <2>2. RefsExist'
    BY <1>2, ViewedFacts DEF BulkInv, RefsExist, Workflows
  <2>3. 0 \notin Workflows
    BY WorkflowNumbers
  <2>4. RefsSound' /\ ConsentFresh'
    BY <1>2, <2>3, ViewedFacts DEF BulkInv, RefsSound, ConsentFresh, Workflows
  <2> QED
    BY <2>1, <2>2, <2>4 DEF BulkInv
<1> QED
  BY <1>1, <1>2

-----------------------------------------------------------------------------
(* The inductive invariant, and the implementation of ReviewedChange.       *)

\* Every step of the batch dialog keeps the invariant.
LEMMA BulkStep ==
  ASSUME BulkInv, BulkNext
  PROVE  BulkInv'
<1>1. ASSUME NEW c \in Ctl, ToggleControl(c) PROVE BulkInv'
  <2>1. PICK s \in {bulk.sel \ {c}, bulk.sel \cup {c}} : Reselected(s)
    BY <1>1 DEF ToggleControl
  <2>2. bulk.sel \in SUBSET Ctl
    BY DEF BulkInv, BulkTypeOK, BulkPages
  <2>3. s \in SUBSET Ctl
    BY <1>1, <2>2
  <2> QED
    BY <2>1, <2>3, ReselectedStep
<1>2. ASSUME NEW s \in SUBSET Ctl, UseGroup(s) PROVE BulkInv'
  BY <1>2, ReselectedStep DEF UseGroup
<1>3. CASE ClearSelection
  BY <1>3, ReselectedStep DEF ClearSelection
<1>4. CASE OpenDialog \/ CloseDialog
  <2>1. PICK o \in BOOLEAN : bulk' = [bulk EXCEPT !.open = o] /\ Dialog
    BY <1>4 DEF OpenDialog, CloseDialog
  <2> QED
    BY <2>1, EditStep, BatchTargetExists
<1>5. ASSUME NEW t \in BatchTarget, EditTarget(t) PROVE BulkInv'
  BY <1>5, EditStep DEF EditTarget
<1>6. CASE EditAgain
  BY <1>6, EditAgainStep
<1>7. CASE StartAnother
  BY <1>7, StartAnotherStep
<1>8. CASE StartRecovery
  BY <1>8, StartRecoveryStep
<1>9. CASE CancelRecovery
  BY <1>9, CancelRecoveryStep
<1>10. ASSUME NEW word \in {"", "APPLY", "ROLLBACK"}, Type(word) PROVE BulkInv'
  BY <1>10, TypeStep
<1>11. CASE SubmitPreview \/ Approve \/ SubmitRollback \/ SubmitVerify
  BY <1>11, SubmissionsStep
<1>12. CASE ServerAccepts
  BY <1>12, ServerAcceptsStep
<1>13. CASE Reply
  BY <1>13, ReplyStep
<1>14. CASE SubmitFails
  BY <1>14, SubmitFailsStep
<1>15. CASE Reconnect
  BY <1>15, ReconnectStep
<1>16. ASSUME NEW id \in DOMAIN jobs, ServerEnds(id) PROVE BulkInv'
  BY <1>16, ServerEndsStep
<1>17. ASSUME NEW id \in DOMAIN jobs, ViewJob(id) PROVE BulkInv'
  BY <1>17, ViewJobStep
<1>18. CASE PollStart
  BY <1>18, PollStartStep
<1>19. CASE PollDropped \/ PollFails
  BY <1>19, PollEndsStep
<1>20. CASE PollJob
  BY <1>20, PollJobStep
<1>21. CASE PollBatch
  BY <1>21, PollBatchStep
<1>22. CASE PollHistory
  BY <1>22, PollHistoryStep
<1>23. CASE Viewed \/ ViewFails
  BY <1>23, ViewedStep
<1> QED
  BY <1>1, <1>2, <1>3, <1>4, <1>5, <1>6, <1>7, <1>8, <1>9, <1>10, <1>11, <1>12, <1>13,
     <1>14, <1>15, <1>16, <1>17, <1>18, <1>19, <1>20, <1>21, <1>22, <1>23 DEF BulkNext

\* The invariant holds in every reachable state (bulk-apply.js and the
\* workflows it follows).
THEOREM BulkInductive == BulkSpec => []BulkInv
<1>1. BulkInv /\ UNCHANGED bulkVars => BulkInv'
  <2> SUFFICES ASSUME BulkInv, UNCHANGED bulkVars PROVE BulkInv'
    OBVIOUS
  <2>1. UNCHANGED <<bulk, post, look, view, jobs, session>>
    BY DEF bulkVars
  <2>2. BulkTypeOK' /\ JobsBounded' /\ JobsSound'
    BY <2>1 DEF BulkInv, BulkTypeOK, JobsBounded, JobsSound, Workflows
  <2>3. RefsExist' /\ RefsSound' /\ ConsentFresh'
    BY <2>1 DEF BulkInv, RefsExist, RefsSound, ConsentFresh, Workflows
  <2> QED
    BY <2>2, <2>3 DEF BulkInv
<1>2. BulkInv /\ [BulkNext]_bulkVars => BulkInv'
  BY <1>1, BulkStep
<1> QED
  BY <1>2, BulkInitInv, PTL DEF BulkSpec

\* What a step of the dialog is to ReviewedChange.
Implements == [BatchReview!ChangeNext]_(BatchReview!changeVars)

\* The review, what was typed in it and the batches asked for stay.
LEMMA Held ==
  ASSUME bulk'.phase = bulk.phase, bulk'.plans = bulk.plans, bulk'.typed = bulk.typed,
         posted' = posted
  PROVE  Implements
  BY DEF Implements, BatchReview!changeVars

\* The dialog is not, or is no longer, at a review.
LEMMA Withdrawn ==
  ASSUME bulk'.phase # "review", posted' = posted
  PROVE  Implements
<1>1. BatchReview!Withdraw
  BY DEF BatchReview!Withdraw
<1> QED
  BY <1>1 DEF Implements, BatchReview!ChangeNext

\* The dialog is what it was, whatever else moved.
LEMMA DialogHeld ==
  ASSUME BulkInv, posted' = posted,
         \/ bulk' = bulk
         \/ \E s \in SUBSET Ctl : bulk' = [bulk EXCEPT !.sel = s]
         \/ \E o \in BOOLEAN : bulk' = [bulk EXCEPT !.open = o]
         \/ \E t \in BatchTarget : bulk' = [bulk EXCEPT !.target = t]
         \/ \E j \in Snapshots : bulk' = [bulk EXCEPT !.source = j]
         \/ \E a \in BOOLEAN : bulk' = [bulk EXCEPT !.job.active = a]
  PROVE  Implements
<1>1. bulk \in BulkPages
  BY DEF BulkInv, BulkTypeOK
<1>2. bulk'.phase = bulk.phase /\ bulk'.plans = bulk.plans /\ bulk'.typed = bulk.typed
  BY <1>1 DEF BulkPages
<1> QED
  BY <1>2, Held

\* Typing the word agrees to the plans under review, anything else retracts.
LEMMA TypeRefines ==
  ASSUME BulkInv, NEW word \in {"", "APPLY", "ROLLBACK"}, Type(word)
  PROVE  Implements
<1>1. /\ bulk'.phase = bulk.phase /\ bulk'.plans = bulk.plans /\ bulk'.typed = word
      /\ posted' = posted
  BY DEF BulkInv, BulkTypeOK, BulkPages, Type, Dialog
<1>2. CASE bulk.phase # "review"
  BY <1>1, <1>2, Withdrawn
<1>3. CASE bulk.phase = "review" /\ word = "APPLY"
  <2>1. bulk.plans # 0
    BY <1>3, WorkflowNumbers DEF BulkInv, ConsentFresh
  <2>2. BatchReview!Agree
    BY <1>1, <1>3, <2>1 DEF BatchReview!Agree
  <2> QED
    BY <2>2 DEF Implements, BatchReview!ChangeNext
<1>4. CASE bulk.phase = "review" /\ word # "APPLY"
  <2>1. BatchReview!Retract
    BY <1>1, <1>4 DEF BatchReview!Retract
  <2> QED
    BY <2>1 DEF Implements, BatchReview!ChangeNext
<1> QED
  BY <1>2, <1>3, <1>4

\* Approving asks for the plans under review, which APPLY was typed for.
LEMMA ApproveRefines ==
  ASSUME BulkInv, Approve
  PROVE  Implements
<1>1. /\ bulk.phase = "review" /\ bulk.typed = "APPLY" /\ bulk' = bulk
      /\ posted' = posted \cup {bulk.plans}
  BY DEF Approve, Approvable, Shows, Submit
<1>2. bulk.plans # 0
  BY <1>1, WorkflowNumbers DEF BulkInv, ConsentFresh
<1>3. BatchReview!Ask
  BY <1>1, <1>2 DEF BatchReview!Ask
<1> QED
  BY <1>3 DEF Implements, BatchReview!ChangeNext

\* The poll brings plans on the screen, and no consent with them.
LEMMA PollBatchRefines ==
  ASSUME BulkInv, PollBatch
  PROVE  Implements
<1>1. CASE bulk'.phase # "review"
  BY <1>1, BatchFacts, Withdrawn
<1>2. CASE bulk'.phase = "review"
  <2>1. bulk'.plans \in 1..MaxBatchJob
    <3>1. bulk'.plans \in Workflows /\ Len(jobs) <= MaxBatchJob /\ jobs \in Seq(JobRecords)
      BY BatchFacts DEF BulkInv, JobsBounded, BulkTypeOK
    <3> QED
      BY <3>1, BatchBound DEF Workflows
  <2>2. BatchReview!Show(bulk'.plans)
    BY <1>2, BatchFacts DEF BatchReview!Show
  <2> QED
    BY <2>1, <2>2 DEF Implements, BatchReview!ChangeNext
<1> QED
  BY <1>1, <1>2

\* Every step of the dialog is a step of ReviewedChange or leaves it alone.
LEMMA StepRefines ==
  ASSUME BulkInv, BulkNext
  PROVE  Implements
<1>0. bulk \in BulkPages
  BY DEF BulkInv, BulkTypeOK
<1>1. ASSUME NEW s \in SUBSET Ctl, Reselected(s) PROVE Implements
  <2>1. [bulk EXCEPT !.sel = s] \in BulkPages
    BY <1>0, BulkUpdates
  <2>2. bulk'.phase = "target"
    BY <1>1, <2>1, InvalidatedDialog DEF Reselected
  <2> QED
    BY <1>1, <2>2, Withdrawn DEF Reselected, Dialog
<1>2. ASSUME NEW c \in Ctl, ToggleControl(c) PROVE Implements
  <2>1. PICK s \in {bulk.sel \ {c}, bulk.sel \cup {c}} : Reselected(s)
    BY <1>2 DEF ToggleControl
  <2>2. bulk.sel \in SUBSET Ctl
    BY <1>0 DEF BulkPages
  <2>3. s \in SUBSET Ctl
    BY <1>2, <2>2
  <2> QED
    BY <1>1, <2>1, <2>3
<1>3. ASSUME NEW s \in SUBSET Ctl, UseGroup(s) PROVE Implements
  BY <1>1, <1>3 DEF UseGroup
<1>4. CASE ClearSelection
  BY <1>1, <1>4 DEF ClearSelection
<1>5. CASE OpenDialog \/ CloseDialog
  BY <1>5, DialogHeld DEF OpenDialog, CloseDialog, Dialog
<1>6. ASSUME NEW t \in BatchTarget, EditTarget(t) PROVE Implements
  BY <1>6, DialogHeld DEF EditTarget, Dialog
<1>7. CASE EditAgain
  BY <1>0, <1>7, InvalidatedDialog, Withdrawn DEF EditAgain, Dialog
<1>8. CASE StartAnother
  <2> DEFINE b == Invalidated([bulk EXCEPT !.sel = {}])
  <2>1. [bulk EXCEPT !.sel = {}] \in BulkPages
    BY <1>0, BulkUpdates
  <2>2. b \in BulkPages /\ b.phase = "target"
    BY <2>1, InvalidatedDialog
  <2>3. bulk' = [b EXCEPT !.open = FALSE] /\ posted' = posted
    BY <1>8 DEF StartAnother, Dialog
  <2> HIDE DEF b
  <2>4. bulk'.phase = "target"
    BY <2>2, <2>3 DEF BulkPages
  <2> QED
    BY <2>3, <2>4, Withdrawn
<1>9. CASE StartRecovery
  <2>1. bulk'.phase = "recovery" /\ posted' = posted
    BY <1>0, <1>9 DEF StartRecovery, Dialog, BulkPages
  <2> QED
    BY <2>1, Withdrawn
<1>10. CASE CancelRecovery
  <2>1. bulk'.phase = "working" /\ posted' = posted
    BY <1>0, <1>10 DEF CancelRecovery, Dialog, BulkPages
  <2> QED
    BY <2>1, Withdrawn
<1>11. ASSUME NEW word \in {"", "APPLY", "ROLLBACK"}, Type(word) PROVE Implements
  BY <1>11, TypeRefines
<1>12. CASE SubmitPreview \/ SubmitRollback \/ SubmitVerify
  BY <1>12, DialogHeld DEF SubmitPreview, SubmitRollback, SubmitVerify, Submit
<1>13. CASE Approve
  BY <1>13, ApproveRefines
<1>14. CASE ServerAccepts \/ SubmitFails \/ Reconnect \/ ViewFails
  BY <1>14, DialogHeld DEF ServerAccepts, SubmitFails, Reconnect, ViewFails
<1>15. CASE Reply
  <2> DEFINE job == [id |-> post.id, active |-> TRUE]
  <2>1. /\ bulk' = [bulk EXCEPT !.job = job, !.phase = "working",
                    !.source = IF post.action = "apply" THEN job ELSE @]
        /\ posted' = posted
    BY <1>15 DEF Reply
  <2> HIDE DEF job
  <2>2. bulk'.phase = "working"
    BY <1>0, <2>1 DEF BulkPages
  <2> QED
    BY <2>1, <2>2, Withdrawn
<1>16. ASSUME NEW id \in DOMAIN jobs, ServerEnds(id) \/ ViewJob(id) PROVE Implements
  BY <1>16, DialogHeld DEF ServerEnds, ViewJob
<1>17. CASE PollStart \/ PollDropped \/ PollFails
  BY <1>17, DialogHeld DEF PollStart, PollDropped, PollFails, Polled
<1>18. CASE PollJob
  <2>1. look.id \in Workflows
    BY <1>18 DEF PollJob, BulkInv, RefsExist, RefsSound
  <2>2. jobs[look.id].active \in BOOLEAN
    BY <2>1, WorkflowNumbers DEF JobRecords
  <2> QED
    BY <1>18, <2>2, DialogHeld DEF PollJob, Polled
<1>19. CASE PollBatch
  BY <1>19, PollBatchRefines
<1>20. CASE PollHistory
  <2>1. PICK j \in {bulk.job, bulk.source} : bulk' = [bulk EXCEPT !.source = j]
    BY <1>20 DEF PollHistory
  <2>2. j \in Snapshots
    BY <1>0 DEF BulkPages
  <2> QED
    BY <1>20, <2>1, <2>2, DialogHeld DEF PollHistory, Polled
<1>21. CASE Viewed
  BY <1>21, ViewedFacts, Withdrawn
<1> QED
  BY <1>2, <1>3, <1>4, <1>5, <1>6, <1>7, <1>8, <1>9, <1>10, <1>11, <1>12, <1>13, <1>14,
     <1>15, <1>16, <1>17, <1>18, <1>19, <1>20, <1>21 DEF BulkNext

\* The batch dialog implements ReviewedChange: only the batch whose plans are
\* on the screen is applied, under an APPLY typed for it (BatchIsReviewed).
THEOREM BatchRefines == BulkSpec => BatchIsReviewed
<1>1. BulkInit => BatchReview!ChangeInit
  <2> SUFFICES ASSUME BulkInit PROVE BatchReview!ChangeInit
    OBVIOUS
  <2>1. bulk.phase = "target" /\ posted = {}
    BY DEF BulkInit
  <2> QED
    BY <2>1 DEF BatchReview!ChangeInit
<1>2. BulkInv /\ [BulkNext]_bulkVars => [BatchReview!ChangeNext]_(BatchReview!changeVars)
  <2>1. UNCHANGED bulkVars => UNCHANGED BatchReview!changeVars
    BY DEF bulkVars, BatchReview!changeVars
  <2> QED
    BY <2>1, StepRefines DEF Implements
<1> QED
  BY BulkInductive, <1>1, <1>2, PTL DEF BulkSpec, BatchIsReviewed, BatchReview!ChangeSpec
=============================================================================
