------------------------ MODULE WorkflowRecordsProofs ------------------------
(***************************************************************************)
(* What the records of the workflows say of the actors that work on them:  *)
(* no reservation and no accepted workflow is forgotten, a closed workflow *)
(* stays closed, and the outcome that the reader writes is true of the     *)
(* runs at that moment.  Continues WorkspaceWorkflowsProofs: every lemma   *)
(* may use Shape and GateInv, which that module proves.                    *)
(***************************************************************************)
EXTENDS WorkspaceWorkflowsProofs

In(q, k) == \E i \in DOMAIN q : q[i] = k

-----------------------------------------------------------------------------
(* Whoever has a workflow: the channel, the reader, or its follow-up task. *)

ReaderHasJob == reader.stage \in {"idle", "faulted"} <=> reader.job = NoJob
\* A reservation names an accepted workflow that works on that GPO and that the
\* channel or the reader still has.
HeldAccounted ==
    \A g \in Gpo : reservations[g] # NoJob =>
        /\ job[reservations[g]].state # "none"
        /\ g \in Resources(reservations[g], job[reservations[g]].plans)
        /\ reader.job = reservations[g] \/ In(queue, reservations[g])
ReleasedIsWritten ==
    reader.stage = "release" => job[reader.job].state # "RUNNING"
AccountInv == ReaderHasJob /\ HeldAccounted /\ ReleasedIsWritten /\ NoOrphanJob

\* The reader works on a workflow and goes on with it: neither takes one out of
\* the channel nor writes its final state.
ReaderGoesOn ==
    /\ reader.stage \notin {"idle", "faulted", "release"}
    /\ reader'.stage \notin {"idle", "faulted", "release"}
    /\ reader'.job = reader.job
    /\ \A j \in Job : job'[j].state = job[j].state /\ job'[j].plans = job[j].plans
    /\ \A j \in Job \ {reader.job} : job'[j] = job[j]
    /\ UNCHANGED <<queue, service, reservations, follow, validated, maintenance,
                   downs>>

\* A reader that closes its job keeps the job and what it counted.
LEMMA ClosingGoesOn ==
    ASSUME Shape, NEW state, reader' = Closing(state)
    PROVE  /\ reader'.job = reader.job /\ reader'.stage = "finish"
           /\ reader'.outcome = state /\ reader'.n = reader.n
           /\ reader'.pending = reader.pending
<1>1. reader \in ReaderRecord
  BY DEF Shape, TypeOK
<1> QED BY <1>1, Zenon DEF Closing, ReaderRecord

\* A step of the reader goes on with its job, takes one, ends or releases it.
LEMMA ReaderKinds ==
    ASSUME Shape, ReaderStep
    PROVE  \/ ReaderGoesOn
           \/ Dequeue \/ DequeueWithoutRecord \/ Schedule \/ FinishJob \/ ReleaseJob
<1>1. reader \in ReaderRecord /\ job \in [Job -> JobRecord]
  BY DEF Shape, TypeOK
<1>2. CASE ScanEnds \/ StepStopped \/ StepRefused \/ StepError \/ Close
  <2>1. PICK state : reader' = Closing(state)
    BY <1>2 DEF ScanEnds, StepStopped, StepRefused, StepError, Close
  <2>2. /\ reader.stage \in {"scan", "steps", "refresh", "checks", "close"}
        /\ UNCHANGED <<job, queue, service, reservations, follow, validated,
                       maintenance, downs>>
    BY <1>2 DEF ScanEnds, StepStopped, StepRefused, StepError, Close, Working,
                ReaderUnchanged
  <2> QED BY <2>1, <2>2, ClosingGoesOn DEF ReaderGoesOn
<1>3. CASE StepStart \/ RefreshStart \/ CheckStart
  <2>1. /\ reader.stage \in {"steps", "refresh", "checks"}
        /\ UNCHANGED <<reader, job, queue, service, reservations, follow, validated,
                       maintenance, downs>>
    BY <1>3 DEF StepStart, RefreshStart, CheckStart, Working, ReaderUnchanged
  <2> QED BY <2>1 DEF ReaderGoesOn
<1>4. CASE StepDone
  <2>1. /\ reader.stage = "steps"
        /\ job' = [job EXCEPT ![Current].done = Append(@, call[Reader].plan)]
        /\ UNCHANGED <<queue, service, reservations, follow, validated,
                       maintenance, downs>>
    BY <1>4 DEF StepDone, Working, ReaderUnchanged
  <2>2. /\ \A j \in Job : job'[j].state = job[j].state /\ job'[j].plans = job[j].plans
        /\ \A j \in Job \ {reader.job} : job'[j] = job[j]
    BY <1>1, <2>1 DEF JobRecord, Current
  <2>3. reader'.job = reader.job /\ reader'.stage \notin {"idle", "faulted", "release"}
    <3>1. CASE reader' = Closing("NEEDS_REVIEW")
      BY <3>1, ClosingGoesOn
    <3>2. CASE reader' = [reader EXCEPT !.n = @ + 1]
      BY <1>1, <2>1, <3>2 DEF ReaderRecord
    <3>3. CASE reader' = [reader EXCEPT !.n = 1, !.stage = AfterSteps]
      <4>1. AfterSteps \in Stage \ {"idle", "faulted", "release"}
        BY AfterStages DEF Stage
      <4> QED BY <1>1, <3>3, <4>1, FirstPosition, ReaderPositions
    <3> QED BY <1>4, <3>1, <3>2, <3>3 DEF StepDone
  <2> QED BY <2>1, <2>2, <2>3 DEF ReaderGoesOn
<1>5. CASE Mark \/ MarksDone \/ RefreshDone \/ CheckDone \/ CheckRead \/ ChecksDone
  <2>1. /\ reader.stage \in {"marks", "refresh", "checks"}
        /\ UNCHANGED <<job, queue, service, reservations, follow, validated,
                       maintenance, downs>>
    BY <1>5 DEF Mark, MarksDone, RefreshDone, CheckDone, CheckRead, ChecksDone,
                Working, ReaderUnchanged
  <2>2. reader'.job = reader.job /\ reader'.stage \notin {"idle", "faulted", "release"}
    <3>1. CASE reader' = Closing("NEEDS_REVIEW")
      BY <3>1, ClosingGoesOn
    <3>2. CASE reader' = [reader EXCEPT !.n = @ + 1]
      BY <1>1, <2>1, <3>2 DEF ReaderRecord
    <3>3. CASE \E state, eff : CheckMeasured(state, eff)
      <4>1. PICK state, eff : CheckMeasured(state, eff)
        BY <3>3
      <4>2. CASE reader' = [reader EXCEPT !.n = @ + 1, !.pending = @ \/ eff # "VERIFIED"]
        BY <1>1, <2>1, <4>2 DEF ReaderRecord
      <4> QED BY <3>1, <3>2, <4>1, <4>2 DEF CheckMeasured
    <3>4. ASSUME NEW stage \in {"refresh", "checks", "close"},
                 \/ reader' = [reader EXCEPT !.stage = stage]
                 \/ reader' = [reader EXCEPT !.n = 1, !.stage = stage]
          PROVE  reader'.job = reader.job /\ reader'.stage = stage
      BY <1>1, <3>4 DEF ReaderRecord
    <3>5. CASE Mark
      BY <3>2, <3>5 DEF Mark
    <3>6. CASE MarksDone
      BY <3>4, <3>6, AfterStages DEF MarksDone
    <3>7. CASE RefreshDone
      BY <3>1, <3>4, <3>7, AfterStages DEF RefreshDone
    <3>8. CASE CheckDone \/ CheckRead
      BY <3>3, <3>8 DEF CheckDone, CheckRead
    <3>9. CASE ChecksDone
      BY <3>4, <3>9 DEF ChecksDone
    <3> QED BY <1>5, <3>5, <3>6, <3>7, <3>8, <3>9
  <2> QED BY <2>1, <2>2 DEF ReaderGoesOn
<1> QED BY <1>2, <1>3, <1>4, <1>5 DEF ReaderStep

\* What a follow-up does to its own record: nothing but a next check, or its end.
LEMMA FollowKinds ==
    ASSUME Shape, NEW j \in Job, FollowStep(j)
    PROVE  /\ Due(j) /\ FollowUnchanged
           /\ \/ UNCHANGED <<job, follow>>
              \/ /\ UNCHANGED job
                 /\ \A k \in Job \ {j} : follow'[k] = follow[k]
                 /\ follow'[j].round > 0
              \/ \E state \in Finished : EndFollow(j, state)
<1>1. Due(j) /\ FollowUnchanged
  BY DEF FollowStep, FollowStart, FollowStopped, FollowSkipped, FollowFails,
         FollowMeasured
<1>2. /\ follow \in [Job -> FollowRecord] /\ follow[j] \in FollowRecord
      /\ follow[j].round > 0 /\ Request[j].rounds \in 0..3
  BY <1>1, RequestAssumption DEF Shape, TypeOK, Due
<1>3. ASSUME NEW pending, NEW skipped, FollowNext(j, pending, skipped)
      PROVE  \/ /\ UNCHANGED job
                /\ \A k \in Job \ {j} : follow'[k] = follow[k]
                /\ follow'[j].round > 0
             \/ \E state \in Finished : EndFollow(j, state)
  <2> DEFINE f == [follow[j] EXCEPT !.pending = pending, !.skipped = skipped]
  <2>1. f.round = follow[j].round /\ f.round > 0 /\ follow[j].round \in 0..3
    BY <1>2 DEF FollowRecord
  <2>2. CASE f.n < Len(job[j].done)
    <3>1. UNCHANGED job /\ follow' = [follow EXCEPT ![j] = [f EXCEPT !.n = @ + 1]]
      BY <1>3, <2>2 DEF FollowNext
    <3>2. [f EXCEPT !.n = @ + 1].round = f.round
      BY <1>2 DEF FollowRecord
    <3> QED BY <1>2, <2>1, <3>1, <3>2
  <2>3. CASE ~(f.n < Len(job[j].done)) /\ f.round < Request[j].rounds
    <3> DEFINE next == [f EXCEPT !.n = 1, !.round = @ + 1, !.pending = FALSE]
    <3>1. UNCHANGED job /\ follow' = [follow EXCEPT ![j] = next]
      BY <1>3, <2>3 DEF FollowNext
    <3>2. next.round = f.round + 1
      BY <1>2 DEF FollowRecord
    <3>3. next.round > 0
      BY <2>1, <3>2
    <3> HIDE DEF next
    <3> QED BY <1>2, <3>1, <3>3
  <2>4. CASE ~(f.n < Len(job[j].done)) /\ ~(f.round < Request[j].rounds)
    BY <1>3, <2>4 DEF FollowNext, Finished
  <2> QED BY <2>2, <2>3, <2>4
<1>4. CASE FollowStart(j)
  BY <1>1, <1>4 DEF FollowStart
<1>5. CASE FollowStopped(j) \/ FollowFails(j)
  BY <1>1, <1>5, FailStateType DEF FollowStopped, FollowFails, Finished
<1>6. CASE FollowSkipped(j) \/ FollowMeasured(j)
  BY <1>1, <1>3, <1>6 DEF FollowSkipped, FollowMeasured
<1> QED BY <1>4, <1>5, <1>6 DEF FollowStep

\* Plans and acceptance of a record are never taken back, and a record is only
\* closed or, with its task, scheduled for checks; the channel, the reservations
\* and the reader's workflow stay.
LEMMA AccountFrame ==
    ASSUME AccountInv, UNCHANGED <<queue, reservations>>,
           reader'.job = reader.job,
           reader'.stage \in {"idle", "faulted"} <=> reader.stage \in {"idle", "faulted"},
           reader'.stage = "release" =>
               reader.stage = "release" \/ job'[reader.job].state # "RUNNING",
           service' \in {"serving", "stopping"} => service \in {"serving", "stopping"},
           \A j \in Job :
              /\ job'[j].plans = job[j].plans
              /\ job[j].state # "none" => job'[j].state # "none"
              /\ job'[j].state \in {job[j].state, "VERIFY_SCHEDULED"} \cup Finished
              /\ job'[j].state = "VERIFY_SCHEDULED" =>
                   \/ job[j].state = "VERIFY_SCHEDULED"
                      /\ (follow[j].round > 0 => follow'[j].round > 0)
                   \/ follow'[j].round > 0,
           reader.job \in Job \cup {NoJob}, reservations \in [Gpo -> Job \cup {NoJob}]
    PROVE  AccountInv'
<1>1. ReaderHasJob'
  BY DEF AccountInv, ReaderHasJob
<1>2. \A j : In(queue', j) = In(queue, j)
  BY DEF In
<1>3. HeldAccounted'
  <2> SUFFICES ASSUME NEW g \in Gpo, reservations[g] # NoJob
               PROVE  /\ job'[reservations[g]].state # "none"
                      /\ g \in Resources(reservations[g], job'[reservations[g]].plans)
                      /\ reader.job = reservations[g] \/ In(queue, reservations[g])
    BY <1>2 DEF HeldAccounted
  <2>1. reservations[g] \in Job
    OBVIOUS
  <2> QED BY <2>1 DEF AccountInv, HeldAccounted
<1>4. ReleasedIsWritten'
  <2> SUFFICES ASSUME reader'.stage = "release" PROVE job'[reader.job].state # "RUNNING"
    BY DEF ReleasedIsWritten
  <2>1. CASE job'[reader.job].state # "RUNNING"
    BY <2>1
  <2>2. CASE reader.stage = "release"
    <3>1. reader.job \in Job /\ job[reader.job].state # "RUNNING"
      BY <2>2 DEF AccountInv, ReaderHasJob, ReleasedIsWritten
    <3> QED BY <3>1 DEF Finished
  <2> QED BY <2>1, <2>2
<1>5. NoOrphanJob'
  <2> SUFFICES ASSUME service' \in {"serving", "stopping"}, NEW j \in Job
               PROVE  /\ job'[j].state = "QUEUED" => \E i \in DOMAIN queue : queue[i] = j
                      /\ job'[j].state = "RUNNING" => reader.job = j
                      /\ job'[j].state = "VERIFY_SCHEDULED" => follow'[j].round > 0
    BY DEF NoOrphanJob
  <2> QED BY DEF AccountInv, NoOrphanJob, Finished
<1> QED BY <1>1, <1>3, <1>4, <1>5 DEF AccountInv

\* A reservation and a record stay accounted for while the channel only grows.
LEMMA QueueGrows ==
    ASSUME queue \in Seq(Job), NEW j \in Job, queue' = Append(queue, j)
    PROVE  \A k : In(queue', k) <=> In(queue, k) \/ k = j
<1>1. Len(queue) \in Nat /\ DOMAIN queue = 1..Len(queue)
  OBVIOUS
<1>2. /\ DOMAIN queue' = 1..(Len(queue) + 1)
      /\ \A i \in DOMAIN queue : queue'[i] = queue[i]
      /\ queue'[Len(queue) + 1] = j
  OBVIOUS
<1>3. DOMAIN queue' = DOMAIN queue \cup {Len(queue) + 1}
  BY <1>1, <1>2
<1> QED BY <1>2, <1>3, Zenon DEF In

\* Taking the head off the channel takes no other job off it.
LEMMA QueueShrinks ==
    ASSUME queue \in Seq(Job), queue # <<>>, queue' = Tail(queue)
    PROVE  /\ Head(queue) \in Job
           /\ \A k : In(queue', k) => In(queue, k)
           /\ \A k : In(queue, k) /\ k # Head(queue) => In(queue', k)
<1>1. /\ Len(queue) \in Nat \ {0} /\ DOMAIN queue = 1..Len(queue)
      /\ Head(queue) = queue[1]
  OBVIOUS
<1>2. /\ DOMAIN queue' = 1..(Len(queue) - 1)
      /\ \A i \in DOMAIN queue' : queue'[i] = queue[i + 1]
  OBVIOUS
<1>3. ASSUME NEW k, In(queue', k) PROVE In(queue, k)
  <2>1. PICK i \in DOMAIN queue' : queue'[i] = k
    BY <1>3 DEF In
  <2>2. i + 1 \in DOMAIN queue /\ queue[i + 1] = k
    BY <1>1, <1>2, <2>1
  <2> QED BY <2>2 DEF In
<1>4. ASSUME NEW k, In(queue, k), k # Head(queue) PROVE In(queue', k)
  <2>1. PICK i \in DOMAIN queue : queue[i] = k
    BY <1>4 DEF In
  <2>2. i # 1
    BY <1>1, <1>4, <2>1
  <2>3. i - 1 \in DOMAIN queue' /\ queue'[i - 1] = k
    BY <1>1, <1>2, <2>1, <2>2
  <2> QED BY <2>3 DEF In
<1> QED BY <1>1, <1>3, <1>4

\* A job that is accepted is accounted for: record, work item and reservation.
LEMMA EnqueueAcceptsAccount ==
    ASSUME Shape, AccountInv, NEW j \in Job, EnqueueAccepts(j) PROVE AccountInv'
<1> DEFINE new(v) == [state |-> "QUEUED", plans |-> v[2], done |-> <<>>]
<1>1. PICK v \in validated :
        /\ v[1] = j
        /\ Accepts(j, v[2])
        /\ job' = [job EXCEPT ![j] = new(v)]
        /\ queue' = Append(queue, j)
        /\ IF Resources(j, v[2]) = {} THEN UNCHANGED reservations
           ELSE \E g \in Resources(j, v[2]) : Reserve(g, j)
        /\ UNCHANGED <<service, reader, follow>>
  BY DEF EnqueueAccepts, SubmitUnchanged
<1>2. /\ queue \in Seq(Job) /\ job \in [Job -> JobRecord]
      /\ reservations \in [Gpo -> Job \cup {NoJob}]
      /\ reader.job \in Job \cup {NoJob}
  BY DEF Shape, TypeOK, GateTypeOK, ReaderRecord
<1>3. \A k : In(queue', k) <=> In(queue, k) \/ k = j
  BY <1>1, <1>2, QueueGrows
<1>4. /\ job[j].state = "none" /\ job'[j].state = "QUEUED" /\ job'[j].plans = v[2]
      /\ \A k \in Job \ {j} : job'[k] = job[k]
  BY <1>1, <1>2 DEF Accepts
<1>5. HeldAccounted'
  <2> SUFFICES ASSUME NEW g \in Gpo, reservations'[g] # NoJob
               PROVE  /\ job'[reservations'[g]].state # "none"
                      /\ g \in Resources(reservations'[g], job'[reservations'[g]].plans)
                      /\ reader.job = reservations'[g] \/ In(queue', reservations'[g])
    BY <1>1 DEF HeldAccounted
  <2>1. CASE reservations'[g] = reservations[g]
    <3>1. /\ reservations[g] \in Job /\ job[reservations[g]].state # "none"
          /\ g \in Resources(reservations[g], job[reservations[g]].plans)
          /\ reader.job = reservations[g] \/ In(queue, reservations[g])
      BY <1>2, <2>1 DEF AccountInv, HeldAccounted
    <3>2. reservations[g] # j
      BY <1>4, <3>1
    <3> QED BY <1>3, <1>4, <2>1, <3>1, <3>2
  <2>2. CASE reservations'[g] # reservations[g]
    <3>1. PICK h \in Resources(j, v[2]) : Reserve(h, j)
      BY <1>1, <2>2
    <3>2. g = h /\ reservations'[g] = j
      BY <1>2, <2>2, <3>1 DEF Reserve
    <3> QED BY <1>3, <1>4, <3>1, <3>2
  <2> QED BY <2>1, <2>2
<1>6. ReleasedIsWritten'
  <2> SUFFICES ASSUME reader.stage = "release" PROVE job'[reader.job].state # "RUNNING"
    BY <1>1 DEF ReleasedIsWritten
  <2>1. reader.job \in Job
    BY <1>2 DEF AccountInv, ReaderHasJob
  <2> QED BY <1>4, <2>1 DEF AccountInv, ReleasedIsWritten
<1>7. NoOrphanJob'
  <2> SUFFICES ASSUME service \in {"serving", "stopping"}, NEW k \in Job
               PROVE  /\ job'[k].state = "QUEUED" => In(queue', k)
                      /\ job'[k].state = "RUNNING" => reader.job = k
                      /\ job'[k].state = "VERIFY_SCHEDULED" => follow[k].round > 0
    BY <1>1 DEF NoOrphanJob, In
  <2> QED BY <1>3, <1>4 DEF AccountInv, NoOrphanJob, In
<1>8. ReaderHasJob'
  BY <1>1 DEF AccountInv, ReaderHasJob
<1> QED BY <1>5, <1>6, <1>7, <1>8 DEF AccountInv

\* The channel grows, and the record may be there: nothing is reserved.
LEMMA EnqueueSaveFailsAccount ==
    ASSUME Shape, AccountInv, NEW j \in Job, EnqueueSaveFails(j) PROVE AccountInv'
<1>1. PICK ps :
        /\ job[j].state = "none" /\ queue' = Append(queue, j)
        /\ \/ UNCHANGED job
           \/ job' = [job EXCEPT ![j] = [state |-> "QUEUED", plans |-> ps, done |-> <<>>]]
        /\ UNCHANGED <<reservations, service, reader, follow>>
  BY DEF EnqueueSaveFails, Accepts, SubmitUnchanged
<1>2. \A k : In(queue', k) <=> In(queue, k) \/ k = j
  BY <1>1, QueueGrows DEF Shape, TypeOK
<1>3. /\ \A k \in Job \ {j} : job'[k] = job[k]
      /\ job'[j] = job[j] \/ job'[j].state = "QUEUED"
  BY <1>1 DEF Shape, TypeOK
<1>4. HeldAccounted'
  <2> SUFFICES ASSUME NEW g \in Gpo, reservations[g] # NoJob
               PROVE  /\ job'[reservations[g]].state # "none"
                      /\ g \in Resources(reservations[g], job'[reservations[g]].plans)
                      /\ reader.job = reservations[g] \/ In(queue', reservations[g])
    BY <1>1 DEF HeldAccounted
  <2>1. /\ job[reservations[g]].state # "none"
        /\ g \in Resources(reservations[g], job[reservations[g]].plans)
        /\ reader.job = reservations[g] \/ In(queue, reservations[g])
    BY DEF AccountInv, HeldAccounted
  <2>2. reservations[g] \in Job \ {j}
    BY <1>1, <2>1 DEF Shape, TypeOK, GateTypeOK
  <2> QED BY <1>2, <1>3, <2>1, <2>2
<1>5. ReleasedIsWritten'
  <2> SUFFICES ASSUME reader.stage = "release" PROVE job'[reader.job].state # "RUNNING"
    BY <1>1 DEF ReleasedIsWritten
  <2>1. reader.job \in Job \cup {NoJob} /\ reader.job # NoJob
    BY DEF Shape, TypeOK, ReaderRecord, AccountInv, ReaderHasJob
  <2> QED BY <1>3, <2>1 DEF AccountInv, ReleasedIsWritten
<1>6. NoOrphanJob'
  <2> SUFFICES ASSUME service \in {"serving", "stopping"}, NEW k \in Job
               PROVE  /\ job'[k].state = "QUEUED" => In(queue', k)
                      /\ job'[k].state = "RUNNING" => reader.job = k
                      /\ job'[k].state = "VERIFY_SCHEDULED" => follow[k].round > 0
    BY <1>1 DEF NoOrphanJob, In
  <2> QED BY <1>1, <1>2, <1>3 DEF AccountInv, NoOrphanJob, In
<1> QED BY <1>1, <1>4, <1>5, <1>6 DEF AccountInv, ReaderHasJob

\* A submission keeps the account, whatever it is answered.
LEMMA SubmissionAccount ==
    ASSUME Shape, AccountInv, NEW j \in Job, Submission(j) PROVE AccountInv'
<1>1. CASE Validate(j) \/ EnqueueRefuses(j)
  <2>1. UNCHANGED <<job, queue, reservations, service, reader, follow>>
    BY <1>1 DEF Validate, EnqueueRefuses, SubmitUnchanged
  <2> QED BY <2>1 DEF AccountInv, ReaderHasJob, HeldAccounted, In,
                      ReleasedIsWritten, NoOrphanJob
<1> QED BY <1>1, EnqueueAcceptsAccount, EnqueueSaveFailsAccount DEF Submission

-----------------------------------------------------------------------------
(* The reader takes a workflow, writes its end and releases it.            *)

\* The job that is taken from the channel is the reader's from then on.
LEMMA DequeueAccount == ASSUME Shape, AccountInv, Dequeue PROVE AccountInv'
<1> DEFINE j == Head(queue)
           stage == IF Request[j].action = "scan" THEN "scan" ELSE "steps"
<1>1. /\ reader.stage = "idle" /\ queue # <<>> /\ queue' = Tail(queue)
      /\ job[j].state # "none" /\ job' = [job EXCEPT ![j].state = "RUNNING"]
      /\ reader' = [ReaderIdle EXCEPT !.job = j, !.stage = stage]
      /\ UNCHANGED <<follow, service, reservations>>
  BY DEF Dequeue, ReaderUnchanged, Working
<1>2. /\ queue \in Seq(Job) /\ job \in [Job -> JobRecord]
      /\ reservations \in [Gpo -> Job \cup {NoJob}]
  BY DEF Shape, TypeOK, GateTypeOK
<1>3. /\ j \in Job /\ reader.job = NoJob
      /\ \A k : In(queue, k) /\ k # j => In(queue', k)
  BY <1>1, <1>2, QueueShrinks DEF AccountInv, ReaderHasJob
<1>4. reader'.job = j /\ reader'.stage \in {"scan", "steps"}
  <2>1. stage \in Stage /\ stage \in {"scan", "steps"}
    BY DEF Stage
  <2> HIDE DEF stage, j
  <2>2. reader'.job = j /\ reader'.stage = stage
    BY <1>1, <1>3, <2>1, IdleReaderType
  <2> QED BY <2>1, <2>2
<1>5. /\ job'[j].state = "RUNNING" /\ job'[j].plans = job[j].plans
      /\ \A k \in Job \ {j} : job'[k] = job[k]
  BY <1>1, <1>2, <1>3 DEF JobRecord
<1>6. HeldAccounted'
  <2> SUFFICES ASSUME NEW g \in Gpo, reservations[g] # NoJob
               PROVE  /\ job'[reservations[g]].state # "none"
                      /\ g \in Resources(reservations[g], job'[reservations[g]].plans)
                      /\ reader'.job = reservations[g] \/ In(queue', reservations[g])
    BY <1>1 DEF HeldAccounted
  <2>1. /\ reservations[g] \in Job /\ job[reservations[g]].state # "none"
        /\ g \in Resources(reservations[g], job[reservations[g]].plans)
        /\ reader.job = reservations[g] \/ In(queue, reservations[g])
    BY <1>2 DEF AccountInv, HeldAccounted
  <2> QED BY <1>3, <1>4, <1>5, <2>1
<1>7. NoOrphanJob'
  <2> SUFFICES ASSUME service \in {"serving", "stopping"}, NEW k \in Job
               PROVE  /\ job'[k].state = "QUEUED" => In(queue', k)
                      /\ job'[k].state = "RUNNING" => reader'.job = k
                      /\ job'[k].state = "VERIFY_SCHEDULED" => follow[k].round > 0
    BY <1>1 DEF NoOrphanJob, In
  <2>1. CASE k = j
    BY <1>4, <1>5, <2>1
  <2>2. CASE k # j
    BY <1>3, <1>5, <2>2, NoJobAssumption DEF AccountInv, NoOrphanJob, In
  <2> QED BY <2>1, <2>2
<1>8. ReaderHasJob' /\ ReleasedIsWritten'
  BY <1>3, <1>4, NoJobAssumption DEF ReaderHasJob, ReleasedIsWritten
<1> QED BY <1>6, <1>7, <1>8 DEF AccountInv

\* A work item without a record leaves nothing behind that it could orphan.
LEMMA DequeueWithoutRecordAccount ==
    ASSUME Shape, AccountInv, DequeueWithoutRecord PROVE AccountInv'
<1> DEFINE j == Head(queue)
<1>1. /\ reader.stage = "idle" /\ queue # <<>> /\ queue' = Tail(queue)
      /\ job[j].state = "none" /\ service \in {"serving", "stopping"}
      /\ reader' = [ReaderIdle EXCEPT !.stage = "faulted"]
      /\ UNCHANGED <<job, follow, reservations>>
  BY DEF DequeueWithoutRecord, ReaderUnchanged, Working
<1>2. queue \in Seq(Job) /\ reservations \in [Gpo -> Job \cup {NoJob}]
  BY DEF Shape, TypeOK, GateTypeOK
<1>3. /\ j \in Job /\ reader.job = NoJob
      /\ \A k : In(queue, k) /\ k # j => In(queue', k)
  BY <1>1, <1>2, QueueShrinks DEF AccountInv, ReaderHasJob
<1>4. reader'.job = NoJob /\ reader'.stage = "faulted"
  <2>1. "faulted" \in Stage
    BY DEF Stage
  <2> QED BY <1>1, <2>1 DEF ReaderIdle
<1>5. HeldAccounted'
  <2> SUFFICES ASSUME NEW g \in Gpo, reservations[g] # NoJob
               PROVE  /\ job[reservations[g]].state # "none"
                      /\ g \in Resources(reservations[g], job[reservations[g]].plans)
                      /\ In(queue', reservations[g])
    BY <1>1 DEF HeldAccounted
  <2> QED BY <1>1, <1>3 DEF AccountInv, HeldAccounted
<1>6. NoOrphanJob'
  <2> SUFFICES ASSUME NEW k \in Job
               PROVE  /\ job[k].state = "QUEUED" => In(queue', k)
                      /\ job[k].state = "RUNNING" => reader'.job = k
                      /\ job[k].state = "VERIFY_SCHEDULED" => follow[k].round > 0
    BY <1>1 DEF NoOrphanJob, In
  <2> QED BY <1>1, <1>3, NoJobAssumption DEF AccountInv, NoOrphanJob, In
<1>7. ReaderHasJob' /\ ReleasedIsWritten'
  BY <1>4 DEF ReaderHasJob, ReleasedIsWritten
<1> QED BY <1>5, <1>6, <1>7 DEF AccountInv

\* The end of a workflow is written, as final or as scheduled for checks.
LEMMA EndAccount == ASSUME Shape, AccountInv, Schedule \/ FinishJob PROVE AccountInv'
<1>1. /\ reader.stage \in {"close", "finish"}
      /\ reader' = [reader EXCEPT !.stage = "release"]
      /\ UNCHANGED <<queue, reservations, service>>
  BY DEF Schedule, FinishJob, Working, ReaderUnchanged, gateVars
<1>2. /\ Current \in Job /\ reader \in ReaderRecord /\ job \in [Job -> JobRecord]
      /\ job[Current].state # "none" /\ follow \in [Job -> FollowRecord]
      /\ reservations \in [Gpo -> Job \cup {NoJob}]
  BY <1>1, CurrentType DEF Shape, TypeOK, GateTypeOK
<1>3. reader'.job = reader.job /\ reader'.stage = "release" /\ Current = reader.job
  BY <1>1, <1>2 DEF ReaderRecord, Current
<1>4. PICK state \in Finished \cup {"VERIFY_SCHEDULED"} :
        /\ job' = [job EXCEPT ![Current].state = state]
        /\ \/ state # "VERIFY_SCHEDULED" /\ follow' = follow
           \/ follow' = [follow EXCEPT ![Current] = [FollowOff EXCEPT !.round = 1]]
  <2>1. CASE Schedule
    BY <2>1 DEF Schedule
  <2>2. CASE FinishJob
    <3>1. reader.outcome \in Finished
      BY <2>2 DEF FinishJob, Working, Shape, ReaderShape
    <3>2. reader.outcome # "VERIFY_SCHEDULED"
      BY <3>1 DEF Finished
    <3>3. job' = [job EXCEPT ![Current].state = reader.outcome] /\ follow' = follow
      BY <2>2 DEF FinishJob, ReaderUnchanged
    <3> QED BY <3>1, <3>2, <3>3
  <2> QED BY <2>1, <2>2
<1>5. /\ job'[Current].state = state /\ job'[Current].plans = job[Current].plans
      /\ \A k \in Job \ {Current} : job'[k] = job[k]
  BY <1>2, <1>4 DEF JobRecord
<1>6. state \notin {"none", "RUNNING"}
  BY DEF Finished
<1>7. /\ \A k \in Job \ {Current} : follow'[k] = follow[k]
      /\ state = "VERIFY_SCHEDULED" => follow'[Current].round = 1
  BY <1>2, <1>4, Zenon DEF FollowOff
<1>8. state = "VERIFY_SCHEDULED" => follow'[Current].round > 0
  BY <1>7
<1> QED BY <1>1, <1>2, <1>3, <1>5, <1>6, <1>7, <1>8, AccountFrame

\* A job is released only with a final state written.
LEMMA ReleaseJobAccount == ASSUME Shape, AccountInv, ReleaseJob PROVE AccountInv'
<1>1. /\ reader.stage = "release" /\ reader' = ReaderIdle
      /\ UNCHANGED <<job, queue, service, follow>>
      /\ IF Resources(Current, job[Current].plans) = {} THEN UNCHANGED reservations
         ELSE \E g \in Resources(Current, job[Current].plans) : Release(g, Current)
  BY DEF ReleaseJob, ReaderUnchanged, Working
<1>2. /\ Current \in Job /\ reservations \in [Gpo -> Job \cup {NoJob}]
      /\ job[Current].state # "RUNNING" /\ Current = reader.job
  BY <1>1, CurrentType DEF Shape, TypeOK, GateTypeOK, AccountInv, ReleasedIsWritten, Current
<1>3. reader'.job = NoJob /\ reader'.stage = "idle"
  BY <1>1 DEF ReaderIdle
<1>4. \A k : In(queue', k) = In(queue, k)
  BY <1>1
<1>5. HeldAccounted'
  <2> SUFFICES ASSUME NEW g \in Gpo, reservations'[g] # NoJob
               PROVE  /\ job[reservations'[g]].state # "none"
                      /\ g \in Resources(reservations'[g], job[reservations'[g]].plans)
                      /\ In(queue, reservations'[g])
    BY <1>1, <1>4 DEF HeldAccounted
  <2>1. reservations'[g] = reservations[g]
    BY <1>1, <1>2 DEF Release
  <2>2. /\ job[reservations[g]].state # "none"
        /\ g \in Resources(reservations[g], job[reservations[g]].plans)
        /\ reader.job = reservations[g] \/ In(queue, reservations[g])
    BY <2>1 DEF AccountInv, HeldAccounted
  <2>3. reservations[g] # Current
    <3> SUFFICES ASSUME reservations[g] = Current PROVE FALSE
      OBVIOUS
    <3>1. g \in Resources(Current, job[Current].plans)
      BY <2>2
    <3>2. Resources(Current, job[Current].plans) = {g}
      BY <3>1 DEF Resources
    <3>3. Release(g, Current)
      BY <1>1, <3>1, <3>2
    <3> QED BY <1>2, <2>1, <3>3, NoJobAssumption DEF Release
  <2> QED BY <1>2, <2>1, <2>2, <2>3
<1>6. NoOrphanJob'
  <2> SUFFICES ASSUME service \in {"serving", "stopping"}, NEW k \in Job
               PROVE  /\ job[k].state = "QUEUED" => In(queue', k)
                      /\ job[k].state # "RUNNING"
                      /\ job[k].state = "VERIFY_SCHEDULED" => follow[k].round > 0
    BY <1>1 DEF NoOrphanJob, In
  <2> QED BY <1>2, <1>4 DEF AccountInv, NoOrphanJob, In
<1> QED BY <1>3, <1>5, <1>6 DEF AccountInv, ReaderHasJob, ReleasedIsWritten

\* Every step of the reader keeps the account.
LEMMA ReaderAccount == ASSUME Shape, AccountInv, ReaderStep PROVE AccountInv'
<1>1. CASE ReaderGoesOn
  <2>1. /\ reader.job \in Job \cup {NoJob}
        /\ reservations \in [Gpo -> Job \cup {NoJob}]
    BY DEF Shape, TypeOK, GateTypeOK, ReaderRecord
  <2> QED BY <1>1, <2>1, AccountFrame DEF ReaderGoesOn
<1> QED BY <1>1, ReaderKinds, DequeueAccount, DequeueWithoutRecordAccount, EndAccount,
           ReleaseJobAccount

-----------------------------------------------------------------------------
(* The other actors.                                                       *)

\* A follow-up round reserves nothing and releases nothing.
LEMMA FollowAccount ==
    ASSUME Shape, AccountInv, NEW j \in Job, FollowStep(j) PROVE AccountInv'
<1>1. /\ Due(j)
      /\ UNCHANGED <<queue, reservations, service, reader>>
      /\ \/ UNCHANGED <<job, follow>>
         \/ /\ UNCHANGED job
            /\ \A k \in Job \ {j} : follow'[k] = follow[k]
            /\ follow'[j].round > 0
         \/ \E state \in Finished : EndFollow(j, state)
  BY FollowKinds DEF FollowUnchanged, gateVars
<1>2. /\ reader.job \in Job \cup {NoJob} /\ job \in [Job -> JobRecord]
      /\ reservations \in [Gpo -> Job \cup {NoJob}]
      /\ follow \in [Job -> FollowRecord] /\ job[j].state # "none"
  BY <1>1, DueType DEF Shape, TypeOK, GateTypeOK, ReaderRecord
<1>3. ASSUME NEW state \in Finished, EndFollow(j, state) PROVE AccountInv'
  <2>1. /\ job'[j].state = state /\ job'[j].plans = job[j].plans
        /\ \A k \in Job \ {j} : job'[k] = job[k] /\ follow'[k] = follow[k]
    BY <1>2, <1>3 DEF EndFollow, JobRecord
  <2>2. state \notin {"none", "RUNNING", "VERIFY_SCHEDULED"}
    BY DEF Finished
  <2> QED BY <1>1, <1>2, <2>1, <2>2, AccountFrame
<1>4. CASE UNCHANGED job
  <2>1. CASE UNCHANGED follow
    BY <1>1, <1>2, <1>4, <2>1, AccountFrame
  <2>2. CASE /\ \A k \in Job \ {j} : follow'[k] = follow[k]
             /\ follow'[j].round > 0
    BY <1>1, <1>2, <1>4, <2>2, AccountFrame
  <2> QED BY <1>1, <1>3, <1>4, <2>1, <2>2
<1> QED BY <1>1, <1>3, <1>4

\* Steps that write neither a record nor the channel, the reader or a task.
LEMMA AccountSame ==
    ASSUME AccountInv, UNCHANGED <<queue, reservations, reader, job, follow>>,
           service' \in {"serving", "stopping"} => service \in {"serving", "stopping"}
    PROVE  AccountInv'
  BY DEF AccountInv, ReaderHasJob, HeldAccounted, In, ReleasedIsWritten, NoOrphanJob

\* The operations the jobs ask for do not touch the account.
LEMMA CallAccount ==
    ASSUME AccountInv, NEW c \in Caller,
           CallStep(c) \/ (c \in Client /\ ClientStep(c))
    PROVE  AccountInv'
<1>1. CallUnchanged
  BY DEF CallStep, ClientStep, ClaimBusy, ClaimAnswered, Claim, RefreshLive,
         WorkerReturns, DirectCall, DirectCallAnswered
<1> QED BY <1>1, AccountSame DEF CallUnchanged

\* The process ends with its gate, its channel and its tasks; the next one
\* closes every record that one of them had.
LEMMA HostAccount == ASSUME Shape, AccountInv, HostStep PROVE AccountInv'
<1>1. CASE Maintain \/ EndMaintain \/ HostStops \/ Restart
  <2>1. UNCHANGED <<queue, reservations, reader, job, follow>>
    BY <1>1 DEF Maintain, EndMaintain, HostStops, Restart, HostUnchanged, gateVars
  <2>2. service' \in {"serving", "stopping"} => service \in {"serving", "stopping"}
    BY <1>1 DEF Maintain, EndMaintain, HostStops, Restart
  <2> QED BY <2>1, <2>2, AccountSame
<1>2. CASE Exit \/ Crash
  <2>1. /\ service' = "down" /\ reader' = ReaderIdle
        /\ reservations' = [g \in Gpo |-> NoJob]
    BY <1>2 DEF Exit, Crash, ProcessEnds, GateReset
  <2>2. reader'.job = NoJob /\ reader'.stage = "idle"
    BY <2>1 DEF ReaderIdle
  <2> QED BY <2>1, <2>2 DEF AccountInv, ReaderHasJob, HeldAccounted, ReleasedIsWritten,
                            NoOrphanJob
<1>3. CASE Recover
  <2> DEFINE closed(j) == IF Request[j].action = "scan"
                             \/ job[j].state = "VERIFY_SCHEDULED"
                          THEN "WAITING_CONNECTION" ELSE "NEEDS_REVIEW"
  <2>1. /\ job' = [j \in Job |-> IF job[j].state \notin Unfinished THEN job[j]
                                 ELSE [job[j] EXCEPT !.state = closed(j)]]
        /\ UNCHANGED <<queue, reservations, reader, follow>>
    BY <1>3 DEF Recover, gateVars
  <2>2. /\ job \in [Job -> JobRecord] /\ reader.job \in Job \cup {NoJob}
        /\ reservations \in [Gpo -> Job \cup {NoJob}]
    BY DEF Shape, TypeOK, GateTypeOK, ReaderRecord
  <2>3. \A j \in Job : /\ job'[j].plans = job[j].plans
                       /\ job[j].state # "none" => job'[j].state # "none"
                       /\ job'[j].state \notin Unfinished
    BY <2>1, <2>2, Zenon DEF JobRecord, Unfinished
  <2>4. HeldAccounted'
    <3> SUFFICES ASSUME NEW g \in Gpo, reservations[g] # NoJob
                 PROVE  /\ job'[reservations[g]].state # "none"
                        /\ g \in Resources(reservations[g], job'[reservations[g]].plans)
                        /\ reader.job = reservations[g] \/ In(queue, reservations[g])
      BY <2>1 DEF HeldAccounted
    <3> QED BY <2>2, <2>3 DEF AccountInv, HeldAccounted
  <2>5. ReaderHasJob' /\ ReleasedIsWritten'
    BY <2>1, <2>2, <2>3 DEF AccountInv, ReaderHasJob, ReleasedIsWritten, Unfinished
  <2>6. NoOrphanJob'
    BY <2>3 DEF NoOrphanJob, Unfinished
  <2> QED BY <2>4, <2>5, <2>6 DEF AccountInv
<1> QED BY <1>1, <1>2, <1>3 DEF HostStep

\* Every step keeps the account.
LEMMA NextAccount == ASSUME Shape, AccountInv, [Next]_vars PROVE AccountInv'
<1>1. CASE UNCHANGED vars
  BY <1>1, AccountSame DEF vars
<1> QED BY <1>1, SubmissionAccount, FollowAccount, CallAccount, ReaderAccount,
           HostAccount DEF Next, Caller

\* At the start there is nothing to account for.
LEMMA InitAccount == Init => AccountInv
<1> SUFFICES ASSUME Init PROVE AccountInv
  OBVIOUS
<1>1. /\ reader = ReaderIdle /\ reservations = [g \in Gpo |-> NoJob]
      /\ service = "starting"
  BY DEF Init, GateInit
<1> QED BY <1>1 DEF AccountInv, ReaderHasJob, HeldAccounted, ReleasedIsWritten,
                    NoOrphanJob, ReaderIdle

\* What the gate, the channel, the reader and the tasks say of the records, in
\* every state.
THEOREM AccountInductive == Spec => []AccountInv
<1>1. IInv => Shape
  BY DEF IInv
<1>2. AccountInv /\ Shape /\ [Next]_vars => AccountInv'
  BY NextAccount
<1> QED BY <1>1, <1>2, InitAccount, Inductive, PTL DEF Spec

\* A reservation never outlives its work, whatever interleaving of submissions,
\* save failures, the reader and process ends (OperationGate.cs,
\* WorkspaceWorkflows.cs:23-35 and 193).
THEOREM ReservationsAreAccounted == Spec => []ReservationAccounted
<1>1. AccountInv => ReservationAccounted
  BY DEF AccountInv, HeldAccounted, ReservationAccounted, In
<1> QED BY <1>1, AccountInductive, PTL

\* No accepted workflow is lost by a serving process: the state of its record
\* names who has it (WorkspaceWorkflows.cs:23-35, 102-119, 184-193
\* and 248-258).
THEOREM NoJobIsOrphaned == Spec => []NoOrphanJob
<1>1. AccountInv => NoOrphanJob
  BY DEF AccountInv
<1> QED BY <1>1, AccountInductive, PTL

-----------------------------------------------------------------------------
(* A workflow is processed once.  When the durable write of Enqueue throws,*)
(* its work item stays in the channel, a second submission of the id is    *)
(* accepted, and the workflow is processed twice: everything from here on  *)
(* is proved for a write that does not throw (DbMayFail = FALSE).          *)

\* A workflow in the channel is there once, and untouched.
QueuedOnce ==
    /\ \A i, k \in DOMAIN queue : queue[i] = queue[k] => i = k
    /\ \A i \in DOMAIN queue :
         /\ queue[i] # reader.job
         /\ job[queue[i]].state \in {"QUEUED"} \cup Finished
         /\ job[queue[i]].done = <<>>
Rests ==
    service \in {"down", "starting"} =>
        reader.job = NoJob /\ \A j \in Job : follow[j].round = 0
FollowAwaits ==
    \A j \in Job : follow[j].round > 0 =>
        /\ job[j].state = "VERIFY_SCHEDULED"
        /\ reader.job = j => reader.stage = "release"
CurrentRuns ==
    reader.stage \notin {"idle", "faulted", "release"} =>
        job[reader.job].state = "RUNNING"
\* Whoever has a workflow has its reservation.
WorkHolds ==
    \A j \in Job : reader.job = j \/ In(queue, j) =>
        \A g \in Resources(j, job[j].plans) : reservations[g] = j
OnceInv == QueuedOnce /\ Rests /\ FollowAwaits /\ CurrentRuns /\ WorkHolds

\* What leaves the queue, the reader and the records alone keeps OnceInv.
LEMMA OnceSame ==
    ASSUME OnceInv, UNCHANGED <<queue, reservations, reader, job, follow>>,
           service' \in {"down", "starting"} => service \in {"down", "starting"}
    PROVE  OnceInv'
  BY DEF OnceInv, QueuedOnce, Rests, FollowAwaits, CurrentRuns, WorkHolds, In

\* A workflow that the channel or the reader has holds GPOs, if anything.
LEMMA WorkType ==
    ASSUME Shape, AccountInv, OnceInv, NEW k \in Job, reader.job = k \/ In(queue, k)
    PROVE  job[k].state # "none" /\ Resources(k, job[k].plans) \subseteq Gpo
<1>1. job[k].state # "none"
  BY NoJobAssumption DEF Shape, ReaderShape, AccountInv, ReaderHasJob, OnceInv, QueuedOnce,
                         In, Finished
<1>2. job[k].plans \in Seq(Plan) /\ (Request[k].action # "scan" => job[k].plans # <<>>)
  BY <1>1 DEF Shape, TypeOK, JobRecord, PlansShape
<1> QED BY <1>1, <1>2, ResourcesType

\* A reader that goes on with its job keeps the queue and the follow-ups.
LEMMA GoesOnOnce == ASSUME Shape, AccountInv, OnceInv, ReaderGoesOn PROVE OnceInv'
<1>1. queue \in Seq(Job) /\ reader.job \in Job
  BY DEF Shape, TypeOK, ReaderShape, ReaderGoesOn
<1>2. QueuedOnce'
  BY <1>1 DEF OnceInv, QueuedOnce, ReaderGoesOn
<1>3. Rests' /\ FollowAwaits' /\ CurrentRuns'
  BY <1>1 DEF OnceInv, Rests, FollowAwaits, CurrentRuns, ReaderGoesOn
<1>4. WorkHolds'
  BY DEF OnceInv, WorkHolds, ReaderGoesOn, In
<1> QED BY <1>2, <1>3, <1>4 DEF OnceInv

\* A job that is accepted is new, so it is in the channel once.
LEMMA EnqueueAcceptsOnce ==
    ASSUME Shape, AccountInv, OnceInv, NEW j \in Job, EnqueueAccepts(j) PROVE OnceInv'
<1> DEFINE new(v) == [state |-> "QUEUED", plans |-> v[2], done |-> <<>>]
<1>1. PICK v \in validated :
        /\ job[j].state = "none"
        /\ job' = [job EXCEPT ![j] = new(v)]
        /\ queue' = Append(queue, j)
        /\ IF Resources(j, v[2]) = {} THEN UNCHANGED reservations
           ELSE \E g \in Resources(j, v[2]) : Reserve(g, j)
        /\ UNCHANGED <<service, reader, follow>>
  BY DEF EnqueueAccepts, SubmitUnchanged, Accepts
<1>2. /\ queue \in Seq(Job) /\ job \in [Job -> JobRecord]
      /\ reservations \in [Gpo -> Job \cup {NoJob}]
      /\ follow \in [Job -> FollowRecord]
  BY DEF Shape, TypeOK, GateTypeOK
<1>3. /\ reader.job # j /\ ~In(queue, j) /\ ~(follow[j].round > 0)
  <2>1. reader.job # j
    BY <1>1, NoJobAssumption DEF Shape, ReaderShape, AccountInv, ReaderHasJob
  <2>2. ~In(queue, j)
    BY <1>1 DEF OnceInv, QueuedOnce, In, Finished
  <2> QED BY <1>1, <2>1, <2>2 DEF Shape, FollowShape
<1>4. /\ job'[j].state = "QUEUED" /\ job'[j].plans = v[2] /\ job'[j].done = <<>>
      /\ \A k \in Job \ {j} : job'[k] = job[k]
  BY <1>1, <1>2
<1>5. /\ Len(queue) \in Nat /\ DOMAIN queue = 1..Len(queue)
      /\ DOMAIN queue' = 1..(Len(queue) + 1)
      /\ \A i \in DOMAIN queue : queue'[i] = queue[i] /\ queue[i] \in Job \ {j}
      /\ queue'[Len(queue) + 1] = j
  BY <1>1, <1>2, <1>3 DEF In
<1>6. DOMAIN queue' = DOMAIN queue \cup {Len(queue) + 1}
  BY <1>5
<1>7. QueuedOnce'
  <2>1. ASSUME NEW i \in DOMAIN queue', NEW k \in DOMAIN queue', queue'[i] = queue'[k]
        PROVE  i = k
    BY <1>5, <1>6, <2>1 DEF OnceInv, QueuedOnce
  <2>2. ASSUME NEW i \in DOMAIN queue'
        PROVE  /\ queue'[i] # reader.job
               /\ job'[queue'[i]].state \in {"QUEUED"} \cup Finished
               /\ job'[queue'[i]].done = <<>>
    BY <1>3, <1>4, <1>5, <1>6, <2>2 DEF OnceInv, QueuedOnce
  <2> QED BY <1>1, <2>1, <2>2 DEF QueuedOnce
<1>8. Rests' /\ FollowAwaits'
  BY <1>1, <1>3, <1>4 DEF OnceInv, Rests, FollowAwaits
<1>9. CurrentRuns'
  BY <1>1, <1>3, <1>4 DEF Shape, ReaderShape, OnceInv, CurrentRuns
<1>10. WorkHolds'
  <2>1. ASSUME NEW k \in Job \ {j}, reader.job = k \/ In(queue', k),
               NEW g \in Resources(k, job'[k].plans)
        PROVE  reservations'[g] = k
    <3>1. reader.job = k \/ In(queue, k)
      BY <1>1, <1>2, <2>1, QueueGrows
    <3>2. g \in Resources(k, job[k].plans) /\ reservations[g] = k /\ g \in Gpo
      BY <1>4, <2>1, <3>1, WorkType DEF OnceInv, WorkHolds
    <3> QED BY <1>1, <1>2, <3>2, NoJobAssumption DEF Reserve, CanReserve
  <2>2. ASSUME NEW g \in Resources(j, job'[j].plans) PROVE reservations'[g] = j
    <3>1. Resources(j, v[2]) = {g} /\ g \in Gpo
      BY <1>1, <1>4, <2>2, ValidatedType DEF EnqueueAccepts, Resources
    <3>2. Reserve(g, j)
      BY <1>1, <3>1
    <3> QED BY <1>2, <3>1, <3>2 DEF Reserve
  <2> QED BY <1>1, <2>1, <2>2 DEF WorkHolds
<1> QED BY <1>7, <1>8, <1>9, <1>10 DEF OnceInv

\* Where every save succeeds no submission puts a job in the channel twice.
LEMMA SubmissionOnce ==
    ASSUME ~DbMayFail, Shape, AccountInv, OnceInv, NEW j \in Job, Submission(j)
    PROVE  OnceInv'
<1>1. CASE Validate(j) \/ EnqueueRefuses(j)
  <2>1. UNCHANGED <<job, queue, reservations, service, reader, follow>>
    BY <1>1 DEF Validate, EnqueueRefuses, SubmitUnchanged
  <2> QED BY <2>1, OnceSame
<1> QED BY <1>1, EnqueueAcceptsOnce DEF Submission, EnqueueSaveFails

\* The job that is taken is in the channel no longer.
LEMMA DequeueOnce ==
    ASSUME Shape, AccountInv, OnceInv, Dequeue PROVE OnceInv'
<1> DEFINE j == Head(queue)
           stage == IF Request[j].action = "scan" THEN "scan" ELSE "steps"
<1>1. /\ reader.stage = "idle" /\ queue # <<>> /\ queue' = Tail(queue)
      /\ service \in {"serving", "stopping"}
      /\ job' = [job EXCEPT ![j].state = "RUNNING"]
      /\ reader' = [ReaderIdle EXCEPT !.job = j, !.stage = stage]
      /\ UNCHANGED <<follow, service, reservations>>
  BY DEF Dequeue, ReaderUnchanged, Working
<1>2. /\ queue \in Seq(Job) /\ job \in [Job -> JobRecord]
  BY DEF Shape, TypeOK
<1>3. j \in Job
  BY <1>1, <1>2
<1>4. reader'.job = j /\ reader'.stage \in {"scan", "steps"}
  <2>1. stage \in Stage /\ stage \in {"scan", "steps"}
    BY DEF Stage
  <2> HIDE DEF stage, j
  <2>2. reader'.job = j /\ reader'.stage = stage
    BY <1>1, <1>3, <2>1, IdleReaderType
  <2> QED BY <2>1, <2>2
<1>5. /\ job'[j].state = "RUNNING" /\ job'[j].plans = job[j].plans
      /\ \A k \in Job \ {j} : job'[k] = job[k]
  BY <1>1, <1>2, <1>3 DEF JobRecord
<1>6. /\ Len(queue) \in Nat \ {0} /\ DOMAIN queue = 1..Len(queue) /\ queue[1] = j
      /\ DOMAIN queue' = 1..(Len(queue) - 1)
      /\ \A i \in DOMAIN queue' : queue'[i] = queue[i + 1] /\ i + 1 \in DOMAIN queue
  BY <1>1, <1>2
<1>7. QueuedOnce'
  <2>1. ASSUME NEW i \in DOMAIN queue', NEW k \in DOMAIN queue', queue'[i] = queue'[k]
        PROVE  i = k
    <3>1. i + 1 = k + 1
      BY <1>6, <2>1 DEF OnceInv, QueuedOnce
    <3> QED BY <1>6, <3>1
  <2>2. ASSUME NEW i \in DOMAIN queue'
        PROVE  /\ queue'[i] # reader'.job
               /\ job'[queue'[i]].state \in {"QUEUED"} \cup Finished
               /\ job'[queue'[i]].done = <<>>
    <3>1. i + 1 \in DOMAIN queue /\ i + 1 # 1 /\ queue'[i] = queue[i + 1]
          /\ 1 \in DOMAIN queue
      BY <1>6
    <3>2. queue[i + 1] \in Job \ {j}
      BY <1>2, <1>6, <3>1 DEF OnceInv, QueuedOnce
    <3> QED BY <1>4, <1>5, <3>1, <3>2 DEF OnceInv, QueuedOnce
  <2> QED BY <2>1, <2>2 DEF QueuedOnce
<1>8. Rests' /\ CurrentRuns'
  BY <1>1, <1>4, <1>5 DEF Rests, CurrentRuns
<1>9. FollowAwaits'
  <2>1. job[j].state # "VERIFY_SCHEDULED"
    BY <1>6 DEF OnceInv, QueuedOnce, Finished
  <2> QED BY <1>1, <1>4, <1>5, <2>1 DEF OnceInv, FollowAwaits
<1>10. WorkHolds'
  <2>1. ASSUME NEW k \in Job, reader'.job = k \/ In(queue', k)
        PROVE  In(queue, k) /\ job'[k].plans = job[k].plans
    BY <1>1, <1>2, <1>4, <1>5, <1>6, <2>1, QueueShrinks DEF In
  <2> QED BY <1>1, <2>1 DEF OnceInv, WorkHolds
<1> QED BY <1>7, <1>8, <1>9, <1>10 DEF OnceInv

\* Scheduling and finishing a job leave it to its release alone.
LEMMA EndOnce ==
    ASSUME Shape, AccountInv, OnceInv, Schedule \/ FinishJob PROVE OnceInv'
<1>1. /\ reader.stage \in {"close", "finish"} /\ service \in {"serving", "stopping"}
      /\ reader' = [reader EXCEPT !.stage = "release"]
      /\ UNCHANGED <<queue, reservations, service>>
  BY DEF Schedule, FinishJob, Working, ReaderUnchanged, gateVars
<1>2. /\ Current \in Job /\ reader \in ReaderRecord /\ job \in [Job -> JobRecord]
      /\ follow \in [Job -> FollowRecord] /\ queue \in Seq(Job)
  BY <1>1, CurrentType DEF Shape, TypeOK
<1>3. reader'.job = Current /\ reader'.stage = "release" /\ Current = reader.job
  BY <1>1, <1>2 DEF ReaderRecord, Current
<1>4. PICK state :
        /\ job' = [job EXCEPT ![Current].state = state]
        /\ \/ follow' = follow
           \/ /\ state = "VERIFY_SCHEDULED"
              /\ follow' = [follow EXCEPT ![Current] = [FollowOff EXCEPT !.round = 1]]
  BY DEF Schedule, FinishJob, ReaderUnchanged
<1>5. /\ job'[Current].state = state /\ job'[Current].plans = job[Current].plans
      /\ \A k \in Job \ {Current} : job'[k] = job[k] /\ follow'[k] = follow[k]
  BY <1>2, <1>4 DEF JobRecord
<1>6. QueuedOnce'
  BY <1>1, <1>2, <1>3, <1>5 DEF OnceInv, QueuedOnce
<1>7. Rests' /\ CurrentRuns'
  BY <1>1, <1>3 DEF Rests, CurrentRuns
<1>8. FollowAwaits'
  <2>1. ASSUME NEW k \in Job, follow'[k].round > 0
        PROVE  /\ job'[k].state = "VERIFY_SCHEDULED"
               /\ reader'.job = k => reader'.stage = "release"
    <3>1. CASE k # Current
      BY <1>3, <1>5, <2>1, <3>1 DEF OnceInv, FollowAwaits
    <3>2. CASE k = Current /\ follow' = follow
      BY <1>1, <1>3, <2>1, <3>2 DEF OnceInv, FollowAwaits
    <3> QED BY <1>3, <1>4, <1>5, <3>1, <3>2
  <2> QED BY <2>1 DEF FollowAwaits
<1>9. WorkHolds'
  BY <1>1, <1>2, <1>3, <1>5 DEF OnceInv, WorkHolds
<1> QED BY <1>6, <1>7, <1>8, <1>9 DEF OnceInv

\* A released job rests: it is neither queued nor run again.
LEMMA ReleaseJobOnce ==
    ASSUME Shape, AccountInv, OnceInv, ReleaseJob PROVE OnceInv'
<1>1. /\ reader.stage = "release" /\ reader' = ReaderIdle
      /\ UNCHANGED <<job, queue, service, follow>>
      /\ \/ UNCHANGED reservations
         \/ \E g : Release(g, Current)
  BY DEF ReleaseJob, ReaderUnchanged, Working
<1>2. /\ Current \in Job /\ reservations \in [Gpo -> Job \cup {NoJob}]
      /\ Current = reader.job /\ queue \in Seq(Job)
  BY <1>1, CurrentType DEF Shape, TypeOK, GateTypeOK, Current
<1>3. reader'.job = NoJob /\ reader'.stage = "idle"
  BY <1>1 DEF ReaderIdle
<1>4. QueuedOnce'
  BY <1>1, <1>2, <1>3, NoJobAssumption DEF OnceInv, QueuedOnce
<1>5. Rests' /\ FollowAwaits' /\ CurrentRuns'
  BY <1>1, <1>3, NoJobAssumption DEF OnceInv, Rests, FollowAwaits, CurrentRuns
<1>6. WorkHolds'
  <2> SUFFICES ASSUME NEW k \in Job, In(queue, k),
                      NEW g \in Resources(k, job[k].plans)
               PROVE  reservations'[g] = k
    BY <1>1, <1>3, NoJobAssumption DEF WorkHolds
  <2>1. reservations[g] = k /\ k # Current /\ g \in Gpo
    BY <1>2, WorkType DEF OnceInv, WorkHolds, QueuedOnce, In
  <2> QED BY <1>1, <1>2, <2>1 DEF Release
<1> QED BY <1>4, <1>5, <1>6 DEF OnceInv

\* Every step of the reader keeps a job in one place.
LEMMA ReaderOnce == ASSUME Shape, AccountInv, OnceInv, ReaderStep PROVE OnceInv'
<1>1. ~DequeueWithoutRecord
  <2> SUFFICES ASSUME DequeueWithoutRecord PROVE FALSE
    OBVIOUS
  <2>1. queue \in Seq(Job) /\ queue # <<>> /\ job[Head(queue)].state = "none"
    BY DEF DequeueWithoutRecord, Shape, TypeOK
  <2>2. 1 \in DOMAIN queue /\ Head(queue) = queue[1]
    BY <2>1
  <2> QED BY <2>1, <2>2 DEF OnceInv, QueuedOnce, Finished
<1> QED BY <1>1, ReaderKinds, GoesOnOnce, DequeueOnce, EndOnce, ReleaseJobOnce

\* A follow-up round keeps a job in one place.
LEMMA FollowOnce ==
    ASSUME Shape, AccountInv, OnceInv, NEW j \in Job, FollowStep(j) PROVE OnceInv'
<1>1. /\ Due(j)
      /\ UNCHANGED <<queue, reservations, service, reader>>
      /\ \/ UNCHANGED <<job, follow>>
         \/ /\ UNCHANGED job
            /\ \A k \in Job \ {j} : follow'[k] = follow[k]
            /\ follow'[j].round > 0
         \/ \E state \in Finished : EndFollow(j, state)
  BY FollowKinds DEF FollowUnchanged, gateVars
<1>2. /\ job[j].state = "VERIFY_SCHEDULED" /\ service \notin {"down", "starting"}
      /\ reader.job = j => reader.stage = "release"
      /\ follow[j].round > 0
  BY <1>1 DEF OnceInv, FollowAwaits, Due
<1>3. CASE UNCHANGED <<job, follow>>
  BY <1>1, <1>3, OnceSame
<1>4. CASE /\ UNCHANGED job
           /\ \A k \in Job \ {j} : follow'[k] = follow[k]
  BY <1>1, <1>2, <1>4 DEF OnceInv, QueuedOnce, Rests, FollowAwaits, CurrentRuns,
                          WorkHolds, In
<1>5. ASSUME NEW state \in Finished, EndFollow(j, state) PROVE OnceInv'
  <2>1. job \in [Job -> JobRecord] /\ follow \in [Job -> FollowRecord]
        /\ queue \in Seq(Job)
    BY DEF Shape, TypeOK
  <2>2. /\ job'[j].plans = job[j].plans /\ follow'[j] = FollowOff
        /\ \A k \in Job \ {j} : job'[k] = job[k] /\ follow'[k] = follow[k]
    BY <1>5, <2>1 DEF EndFollow, JobRecord
  <2>3. FollowOff.round = 0
    BY DEF FollowOff
  <2>4. \A i \in DOMAIN queue : queue[i] \in Job \ {j}
    BY <1>2, <2>1 DEF OnceInv, QueuedOnce, Finished
  <2>5. QueuedOnce'
    BY <1>1, <2>2, <2>4 DEF OnceInv, QueuedOnce
  <2>6. Rests' /\ FollowAwaits'
    BY <1>1, <1>2, <2>2, <2>3 DEF OnceInv, Rests, FollowAwaits
  <2>7. CurrentRuns'
    BY <1>1, <1>2, <2>2 DEF Shape, ReaderShape, OnceInv, CurrentRuns
  <2>8. WorkHolds'
    BY <1>1, <2>2 DEF OnceInv, WorkHolds
  <2> QED BY <2>5, <2>6, <2>7, <2>8 DEF OnceInv
<1> QED BY <1>1, <1>3, <1>4, <1>5

\* A restart gives every job that had not rested back to the queue once.
LEMMA HostOnce == ASSUME Shape, AccountInv, OnceInv, HostStep PROVE OnceInv'
<1>1. CASE Maintain \/ EndMaintain \/ HostStops \/ Restart
  <2>1. UNCHANGED <<queue, reservations, reader, job, follow>>
    BY <1>1 DEF Maintain, EndMaintain, HostStops, Restart, HostUnchanged, gateVars
  <2>2. service' \in {"down", "starting"} => service \in {"down", "starting"}
    BY <1>1 DEF Maintain, EndMaintain, HostStops, Restart
  <2> QED BY <2>1, <2>2, OnceSame
<1>2. CASE Exit \/ Crash
  <2>1. /\ service' = "down" /\ reader' = ReaderIdle /\ queue' = <<>>
        /\ follow' = [j \in Job |-> FollowOff]
    BY <1>2 DEF Exit, Crash, ProcessEnds
  <2>2. reader'.job = NoJob /\ reader'.stage = "idle" /\ FollowOff.round = 0
    BY <2>1 DEF ReaderIdle, FollowOff
  <2> QED BY <2>1, <2>2, NoJobAssumption DEF OnceInv, QueuedOnce, Rests, FollowAwaits,
                                             CurrentRuns, WorkHolds, In
<1>3. CASE Recover
  <2>1. /\ service = "starting" /\ service' = "serving"
        /\ UNCHANGED <<queue, reservations, reader, follow>>
    BY <1>3 DEF Recover, gateVars
  <2>2. /\ job \in [Job -> JobRecord] /\ queue \in Seq(Job)
        /\ reader.job = NoJob /\ reader.stage \in {"idle", "faulted"}
        /\ \A j \in Job : follow[j].round = 0
    BY <2>1 DEF Shape, TypeOK, OnceInv, Rests, AccountInv, ReaderHasJob
  <2>3. \A j \in Job :
           /\ job'[j].plans = job[j].plans /\ job'[j].done = job[j].done
           /\ job[j].state \in {"QUEUED"} \cup Finished => job'[j].state \in Finished
    BY <1>3, <2>2 DEF Recover, JobRecord, Unfinished, Finished
  <2>4. QueuedOnce'
    BY <2>1, <2>2, <2>3 DEF OnceInv, QueuedOnce
  <2>5. Rests' /\ FollowAwaits' /\ CurrentRuns'
    BY <2>1, <2>2 DEF Rests, FollowAwaits, CurrentRuns
  <2>6. WorkHolds'
    BY <2>1, <2>3 DEF OnceInv, WorkHolds
  <2> QED BY <2>4, <2>5, <2>6 DEF OnceInv
<1> QED BY <1>1, <1>2, <1>3 DEF HostStep

\* Where every save succeeds every step keeps a job in one place.
LEMMA NextOnce ==
    ASSUME ~DbMayFail, Shape, AccountInv, OnceInv, [Next]_vars PROVE OnceInv'
<1>1. CASE UNCHANGED vars
  BY <1>1, OnceSame DEF vars
<1>2. ASSUME NEW c \in Caller, CallStep(c) \/ (c \in Client /\ ClientStep(c))
      PROVE  OnceInv'
  <2>1. CallUnchanged
    BY <1>2 DEF CallStep, ClientStep, ClaimBusy, ClaimAnswered, Claim, RefreshLive,
           WorkerReturns, DirectCall, DirectCallAnswered
  <2> QED BY <2>1, OnceSame DEF CallUnchanged
<1> QED BY <1>1, <1>2, SubmissionOnce, FollowOnce, ReaderOnce, HostOnce DEF Next, Caller

\* At the start no job is anywhere.
LEMMA InitOnce == Init => OnceInv
<1> SUFFICES ASSUME Init PROVE OnceInv
  OBVIOUS
<1>1. /\ reader = ReaderIdle /\ queue = <<>> /\ follow = [j \in Job |-> FollowOff]
  BY DEF Init
<1> QED BY <1>1, NoJobAssumption DEF OnceInv, QueuedOnce, Rests, FollowAwaits,
                     CurrentRuns, WorkHolds, In, ReaderIdle, FollowOff

-----------------------------------------------------------------------------
(* What a step may write into a record and into a task.                    *)

\* The state of a record is written by its acceptance, by the reader that takes
\* it or ends it, by its task, or by the recovery of a new process.
StateWrite(j) ==
    \/ job[j].state = "none" /\ job'[j].state = "QUEUED"
    \/ /\ Dequeue /\ queue # <<>> /\ j = Head(queue)
       /\ job'[j].state = "RUNNING"
    \/ /\ job[j].state = "RUNNING" /\ reader.job = j
       /\ \/ Schedule
          \/ FinishJob /\ job'[j].state = reader.outcome
    \/ /\ job[j].state = "VERIFY_SCHEDULED" /\ FollowStep(j)
       /\ \E state \in Finished : EndFollow(j, state) /\ job'[j].state = state
    \/ Recover /\ job[j].state \in Unfinished

\* Who writes the state of a record, and from which state: nobody else does.
LEMMA StateWrites ==
    ASSUME ~DbMayFail, Shape, AccountInv, OnceInv, [Next]_vars, NEW j \in Job
    PROVE  job'[j].state = job[j].state \/ StateWrite(j)
<1>0. job \in [Job -> JobRecord]
  BY DEF Shape, TypeOK
<1>1. ASSUME job' = job PROVE job'[j].state = job[j].state
  BY <1>1
<1>2. ASSUME NEW k \in Job, Submission(k) PROVE job'[j].state = job[j].state \/ StateWrite(j)
  <2>1. CASE EnqueueAccepts(k)
    <3>1. PICK v \in validated :
            /\ job[k].state = "none"
            /\ job' = [job EXCEPT ![k] = [state |-> "QUEUED", plans |-> v[2],
                                          done |-> <<>>]]
      BY <2>1 DEF EnqueueAccepts, Accepts
    <3> QED BY <1>0, <3>1 DEF StateWrite
  <2> QED BY <1>1, <1>2, <2>1 DEF Submission, Validate, EnqueueRefuses, EnqueueSaveFails
<1>3. ASSUME NEW k \in Job, FollowStep(k) PROVE job'[j].state = job[j].state \/ StateWrite(j)
  <2>1. CASE UNCHANGED job
    BY <2>1
  <2>2. ASSUME NEW state \in Finished, EndFollow(k, state)
        PROVE  job'[j].state = job[j].state \/ StateWrite(j)
    <3>1. job[k].state = "VERIFY_SCHEDULED"
      BY <1>3, FollowKinds DEF Due, OnceInv, FollowAwaits
    <3>2. job' = [job EXCEPT ![k].state = state]
      BY <2>2 DEF EndFollow
    <3>3. CASE j = k
      <4>1. job'[j].state = state
        BY <1>0, <3>2, <3>3 DEF JobRecord
      <4> QED BY <1>3, <2>2, <3>1, <3>3, <4>1 DEF StateWrite
    <3>4. CASE j # k
      BY <1>0, <3>2, <3>4
    <3> QED BY <3>3, <3>4
  <2> QED BY <1>3, <2>1, <2>2, FollowKinds
<1>4. ASSUME ReaderStep PROVE job'[j].state = job[j].state \/ StateWrite(j)
  <2>1. CASE ReaderGoesOn \/ ReleaseJob \/ DequeueWithoutRecord
    BY <2>1 DEF ReaderGoesOn, ReleaseJob, DequeueWithoutRecord
  <2>2. CASE Dequeue
    BY <1>0, <2>2 DEF Dequeue, JobRecord, StateWrite
  <2>3. CASE Schedule \/ FinishJob
    <3>1. reader.stage \in {"close", "finish"} /\ Current = reader.job
      BY <2>3 DEF Schedule, FinishJob, Working, Current
    <3>2. job[reader.job].state = "RUNNING" /\ reader.job \in Job
      BY <3>1, CurrentType DEF OnceInv, CurrentRuns
    <3>3. PICK state :
            /\ job' = [job EXCEPT ![reader.job].state = state]
            /\ FinishJob => state = reader.outcome
      <4>1. CASE FinishJob
        BY <3>1, <4>1 DEF FinishJob
      <4>2. CASE ~FinishJob
        BY <2>3, <3>1, <4>2 DEF Schedule
      <4> QED BY <4>1, <4>2
    <3>4. CASE j = reader.job
      <4>1. job'[j].state = state
        BY <1>0, <3>2, <3>3, <3>4 DEF JobRecord
      <4> QED BY <2>3, <3>2, <3>3, <3>4, <4>1 DEF StateWrite
    <3>5. CASE j # reader.job
      BY <1>0, <3>3, <3>5
    <3> QED BY <3>4, <3>5
  <2> QED BY <1>4, <2>1, <2>2, <2>3, ReaderKinds
<1>5. ASSUME HostStep PROVE job'[j].state = job[j].state \/ StateWrite(j)
  <2>1. CASE Recover
    BY <1>0, <2>1 DEF Recover, StateWrite
  <2>2. CASE ~Recover
    BY <1>1, <1>5, <2>2 DEF HostStep, Maintain, EndMaintain, HostStops, Exit, Crash,
                            Restart, ProcessEnds, HostUnchanged
  <2> QED BY <2>1, <2>2
<1>6. ASSUME NEW c \in Caller, CallStep(c) \/ (c \in Client /\ ClientStep(c))
      PROVE  job' = job
  BY <1>6 DEF CallStep, ClientStep, ClaimBusy, ClaimAnswered, Claim, RefreshLive,
              WorkerReturns, DirectCall, DirectCallAnswered, CallUnchanged
<1>7. CASE UNCHANGED vars
  BY <1>7 DEF vars
<1> QED BY <1>1, <1>2, <1>3, <1>4, <1>5, <1>6, <1>7 DEF Next, Caller

\* A task is written by its own steps, by the reader that starts it, or by the
\* end of the process.
LEMMA FollowWrites ==
    ASSUME Shape, [Next]_vars, NEW j \in Job
    PROVE  \/ follow'[j] = follow[j]
           \/ FollowStep(j)
           \/ /\ Schedule /\ reader.job = j
              /\ follow'[j] = [FollowOff EXCEPT !.round = 1]
           \/ ProcessEnds
<1>0. follow \in [Job -> FollowRecord]
  BY DEF Shape, TypeOK
<1>1. ASSUME NEW k \in Job, Submission(k) PROVE follow' = follow
  BY <1>1 DEF Submission, Validate, EnqueueAccepts, EnqueueRefuses, EnqueueSaveFails,
              SubmitUnchanged
<1>2. ASSUME NEW k \in Job, FollowStep(k), k # j PROVE follow'[j] = follow[j]
  BY <1>0, <1>2, FollowKinds DEF EndFollow
<1>3. ASSUME ReaderStep
      PROVE  \/ follow' = follow
             \/ /\ Schedule /\ reader.job = j
                /\ follow'[j] = [FollowOff EXCEPT !.round = 1]
             \/ follow'[j] = follow[j]
  <2>1. CASE Schedule
    BY <1>0, <2>1 DEF Schedule, Current
  <2> QED BY <1>3, <2>1, ReaderKinds DEF ReaderGoesOn, Dequeue, DequeueWithoutRecord,
                                         FinishJob, ReleaseJob, ReaderUnchanged
<1>4. ASSUME HostStep PROVE follow' = follow \/ ProcessEnds
  BY <1>4 DEF HostStep, Maintain, EndMaintain, HostStops, Exit, Crash, Restart, Recover,
              HostUnchanged
<1>5. ASSUME NEW c \in Caller, CallStep(c) \/ (c \in Client /\ ClientStep(c))
      PROVE  follow' = follow
  BY <1>5 DEF CallStep, ClientStep, ClaimBusy, ClaimAnswered, Claim, RefreshLive,
              WorkerReturns, DirectCall, DirectCallAnswered, CallUnchanged
<1>6. CASE UNCHANGED vars
  BY <1>6 DEF vars
<1> QED BY <1>1, <1>2, <1>3, <1>4, <1>5, <1>6 DEF Next, Caller

-----------------------------------------------------------------------------
(* A closed workflow stays closed when no request is served before the     *)
(* recovery of a restart has run (EarlySubmit = FALSE): a workflow that is *)
(* accepted earlier is closed by the recovery and processed all the same.  *)

LateInv ==
    /\ service \in {"down", "starting"} => queue = <<>> /\ validated = {}
    /\ \A i \in DOMAIN queue : job[queue[i]].state = "QUEUED"

\* What the channel holds still waits, after any step: nothing in it is closed.
LEMMA LateStep ==
    ASSUME ~DbMayFail, ~EarlySubmit, Shape, AccountInv, OnceInv, LateInv, [Next]_vars
    PROVE  LateInv'
<1>0. queue \in Seq(Job) /\ job \in [Job -> JobRecord]
  BY DEF Shape, TypeOK
<1>1. ASSUME NEW k \in Job, Submission(k) PROVE LateInv'
  <2>1. service' = service
    BY <1>1 DEF Submission, Validate, EnqueueAccepts, EnqueueRefuses, EnqueueSaveFails,
                SubmitUnchanged
  <2>2. CASE Validate(k)
    BY <2>1, <2>2 DEF Validate, Open, LateInv
  <2>3. CASE EnqueueRefuses(k)
    BY <2>1, <2>3 DEF EnqueueRefuses, LateInv
  <2>4. CASE EnqueueAccepts(k)
    <3>1. PICK v \in validated :
            /\ job[k].state = "none"
            /\ job' = [job EXCEPT ![k] = [state |-> "QUEUED", plans |-> v[2],
                                          done |-> <<>>]]
            /\ queue' = Append(queue, k)
      BY <2>4 DEF EnqueueAccepts, Accepts
    <3>2. service \notin {"down", "starting"}
      BY <3>1 DEF LateInv
    <3>3. ASSUME NEW i \in DOMAIN queue'
          PROVE  queue'[i] = k \/ (i \in DOMAIN queue /\ queue'[i] = queue[i])
      <4>1. /\ Len(queue) \in Nat /\ DOMAIN queue = 1..Len(queue)
            /\ DOMAIN queue' = 1..(Len(queue) + 1)
        BY <1>0, <3>1
      <4>2. i \in DOMAIN queue \/ i = Len(queue) + 1
        BY <4>1
      <4> QED BY <1>0, <3>1, <4>1, <4>2
    <3>4. \A i \in DOMAIN queue' : job'[queue'[i]].state = "QUEUED"
      BY <1>0, <3>1, <3>3 DEF LateInv
    <3> QED BY <2>1, <3>2, <3>4 DEF LateInv
  <2> QED BY <1>1, <2>2, <2>3, <2>4 DEF Submission, EnqueueSaveFails
<1>2. ASSUME UNCHANGED <<queue, validated, service>>,
             \A j \in Job : In(queue, j) => job'[j].state = job[j].state
      PROVE  LateInv'
  BY <1>0, <1>2 DEF LateInv, In
<1>3. ASSUME NEW k \in Job, FollowStep(k) PROVE LateInv'
  <2>1. job[k].state = "VERIFY_SCHEDULED"
    BY <1>3, FollowKinds DEF Due, OnceInv, FollowAwaits
  <2>2. ~In(queue, k)
    BY <2>1 DEF In, LateInv
  <2>3. UNCHANGED <<queue, validated, service>>
    BY <1>3, FollowKinds DEF FollowUnchanged
  <2>4. \A j \in Job \ {k} : job'[j] = job[j]
    BY <1>0, <1>3, FollowKinds DEF EndFollow
  <2> QED BY <1>2, <2>2, <2>3, <2>4
<1>4. ASSUME ReaderStep PROVE LateInv'
  <2>1. CASE ReaderGoesOn
    BY <1>2, <2>1 DEF ReaderGoesOn
  <2>2. CASE ReleaseJob
    BY <1>2, <2>2 DEF ReleaseJob, ReaderUnchanged
  <2>3. CASE Schedule \/ FinishJob
    <3>1. reader.stage \in {"close", "finish"} /\ Current = reader.job
      BY <2>3 DEF Schedule, FinishJob, Working, Current
    <3>2. ~In(queue, Current)
      BY <3>1 DEF In, OnceInv, QueuedOnce
    <3>3. UNCHANGED <<queue, validated, service>>
      BY <2>3 DEF Schedule, FinishJob, ReaderUnchanged
    <3>4. \A j \in Job \ {Current} : job'[j] = job[j]
      BY <1>0, <2>3 DEF Schedule, FinishJob
    <3> QED BY <1>2, <3>2, <3>3, <3>4
  <2>4. CASE Dequeue
    <3>1. /\ queue # <<>> /\ queue' = Tail(queue)
          /\ job' = [job EXCEPT ![Head(queue)].state = "RUNNING"]
          /\ service \in {"serving", "stopping"} /\ service' = service
      BY <2>4 DEF Dequeue, Working, ReaderUnchanged
    <3>2. ASSUME NEW i \in DOMAIN queue' PROVE job'[queue'[i]].state = "QUEUED"
      <4>1. /\ i + 1 \in DOMAIN queue /\ 1 \in DOMAIN queue /\ i + 1 # 1
            /\ queue'[i] = queue[i + 1] /\ Head(queue) = queue[1]
        BY <1>0, <3>1
      <4>2. queue[i + 1] \in Job /\ queue[i + 1] # Head(queue)
        BY <1>0, <4>1 DEF OnceInv, QueuedOnce
      <4> QED BY <1>0, <3>1, <4>1, <4>2 DEF LateInv
    <3> QED BY <3>1, <3>2 DEF LateInv
  <2>5. CASE DequeueWithoutRecord
    <3>1. queue # <<>> /\ job[Head(queue)].state = "none"
      BY <2>5 DEF DequeueWithoutRecord
    <3>2. 1 \in DOMAIN queue /\ Head(queue) = queue[1]
      BY <1>0, <3>1
    <3> QED BY <3>1, <3>2 DEF LateInv
  <2> QED BY <1>4, <2>1, <2>2, <2>3, <2>4, <2>5, ReaderKinds
<1>5. ASSUME HostStep PROVE LateInv'
  <2>1. CASE Maintain \/ EndMaintain
    BY <1>2, <2>1 DEF Maintain, EndMaintain, HostUnchanged
  <2>2. CASE HostStops \/ Restart
    BY <2>2 DEF HostStops, Restart, HostUnchanged, LateInv
  <2>3. CASE Exit \/ Crash
    BY <2>3 DEF Exit, Crash, ProcessEnds, LateInv
  <2>4. CASE Recover
    BY <2>4 DEF Recover, LateInv
  <2> QED BY <1>5, <2>1, <2>2, <2>3, <2>4 DEF HostStep
<1>6. ASSUME NEW c \in Caller, CallStep(c) \/ (c \in Client /\ ClientStep(c))
      PROVE  LateInv'
  <2>1. UNCHANGED <<queue, validated, service, job>>
    BY <1>6 DEF CallStep, ClientStep, ClaimBusy, ClaimAnswered, Claim, RefreshLive,
                WorkerReturns, DirectCall, DirectCallAnswered, CallUnchanged
  <2> QED BY <1>2, <2>1
<1>7. CASE UNCHANGED vars
  BY <1>2, <1>7 DEF vars
<1> QED BY <1>1, <1>3, <1>4, <1>5, <1>6, <1>7 DEF Next, Caller

\* No step writes the state of a closed job.
LEMMA ClosedStep ==
    ASSUME ~DbMayFail, Shape, AccountInv, OnceInv, LateInv, [Next]_vars,
           NEW j \in Job, job[j].state \in Finished
    PROVE  job'[j].state = job[j].state
<1> SUFFICES ASSUME StateWrite(j) PROVE FALSE
  BY StateWrites
<1>1. ASSUME Dequeue, queue # <<>>, j = Head(queue) PROVE FALSE
  <2>1. 1 \in DOMAIN queue /\ Head(queue) = queue[1]
    BY <1>1 DEF Shape, TypeOK
  <2> QED BY <1>1, <2>1 DEF LateInv, Finished
<1> QED BY <1>1 DEF StateWrite, Finished, Unfinished

-----------------------------------------------------------------------------
(* Invocations: whose they are, and what the reader asks for.              *)

\* Asking for an operation changes the caller's own call.
LEMMA InvokeWrites ==
    ASSUME Shape, NEW c \in Caller, NEW op, NEW p, NEW owner, NEW anchored,
           Invoke(c, op, p, owner, anchored)
    PROVE  /\ call[c].pc = "idle"
           /\ \A d \in Caller \ {c} : call'[d] = call[d]
           /\ call'[c].op = op /\ call'[c].plan = p /\ call'[c].owner = owner
           /\ \/ call'[c].pc = "checked" /\ call'[c].res = "none"
              \/ call'[c].pc = "done" /\ call'[c].res \in Error
<1> DEFINE asked == [CallIdle EXCEPT !.op = op, !.plan = p, !.owner = owner]
           checked == [asked EXCEPT !.pc = "checked"]
           refused == [asked EXCEPT !.pc = "done", !.res = "REFUSED"]
           login == [asked EXCEPT !.pc = "done", !.res = "LOGIN"]
<1>1. call[c].pc = "idle" /\ call \in [Caller -> CallRecord]
  BY DEF Invoke, Shape, TypeOK
<1>2. PICK new \in {checked, refused, login} : call' = [call EXCEPT ![c] = new]
  BY DEF Invoke
<1>3. /\ new.op = op /\ new.plan = p /\ new.owner = owner
      /\ \/ new.pc = "checked" /\ new.res = "none"
         \/ new.pc = "done" /\ new.res \in Error
  BY DEF CallIdle, Error
<1> HIDE DEF checked, refused, login
<1> QED BY <1>1, <1>2, <1>3

\* A call that goes on changes itself alone, and not what was asked.
LEMMA CallGoes ==
    ASSUME Shape, NEW c \in Caller, CallStep(c)
    PROVE  /\ CallUnchanged
           /\ \A d \in Caller \ {c} : call'[d] = call[d]
           /\ call'[c].op = call[c].op /\ call'[c].plan = call[c].plan
           /\ call'[c].owner = call[c].owner
           /\ call[c].pc \in {"checked", "live", "running"}
           /\ call'[c].pc \in {"live", "running", "done"}
           /\ call'[c].pc # "done" => call'[c].res \in RunState \cup {call[c].res}
<1>1. call \in [Caller -> CallRecord] /\ run \in [Plan -> RunRecord]
  BY DEF Shape, TypeOK
<1>2. CASE ClaimBusy(c)
  BY <1>1, <1>2, AnswerType DEF ClaimBusy, Answer, CallRecord
<1>3. CASE ClaimAnswered(c)
  <2>1. PICK res, eff : call' = [call EXCEPT ![c] = Answer(c, res, eff)]
    BY <1>3 DEF ClaimAnswered
  <2>2. CallUnchanged /\ call[c].pc = "checked"
    BY <1>3 DEF ClaimAnswered
  <2> QED BY <1>1, <2>1, <2>2 DEF Answer, CallRecord
<1>4. CASE Claim(c)
  BY <1>1, <1>4 DEF Claim, ToWorker, CallRecord
<1>5. CASE RefreshLive(c)
  <2>1. call[c].plan \in Plan /\ call[c].pc = "live" /\ CallUnchanged
    BY <1>5 DEF RefreshLive, Shape, CallShape
  <2>2. CASE call' = [call EXCEPT ![c] = Answer(c, "REFUSED", "PENDING")]
    BY <1>1, <2>1, <2>2 DEF Answer, CallRecord
  <2>3. ASSUME NEW live \in VerifyResults(call[c].plan),
               call' = [call EXCEPT ![c].pc = "running", ![c].res = live.state]
        PROVE  /\ \A d \in Caller \ {c} : call'[d] = call[d]
               /\ call'[c].op = call[c].op /\ call'[c].plan = call[c].plan
               /\ call'[c].owner = call[c].owner
               /\ call'[c].pc = "running" /\ call'[c].res = live.state
    BY <1>1, <2>3 DEF CallRecord
  <2>4. ASSUME NEW live \in VerifyResults(call[c].plan) PROVE live.state \in RunState
    BY <2>1, VerifyResultsType DEF Final, RunRecord
  <2> QED BY <1>5, <2>1, <2>2, <2>3, <2>4 DEF RefreshLive
<1>6. CASE WorkerReturns(c)
  BY <1>1, <1>6 DEF WorkerReturns, Answer, CallRecord
<1> QED BY <1>2, <1>3, <1>4, <1>5, <1>6 DEF CallStep

\* The reader sends a request or takes its answer.
ReaderAsks == StepStart \/ RefreshStart \/ CheckStart
ReaderHearsAnswer == StepError \/ StepDone \/ RefreshDone \/ CheckDone

\* A call changes by its own step, or with the process.
LEMMA CallWrites ==
    ASSUME Shape, [Next]_vars, NEW c \in Caller
    PROVE  \/ call'[c] = call[c]
           \/ CallStep(c)
           \/ ProcessEnds
           \/ c = Reader /\ (ReaderAsks \/ ReaderHearsAnswer)
           \/ c \in Job /\ FollowStep(c) /\ (FollowStart(c) \/ call'[c] = CallIdle)
           \/ c \in Client /\ (DirectCall(c) \/ DirectCallAnswered(c))
<1>0. call \in [Caller -> CallRecord] /\ Reader \in Caller
  BY DEF Shape, TypeOK, Caller
<1>1. ASSUME NEW j \in Job, Submission(j) PROVE call' = call
  BY <1>1 DEF Submission, Validate, EnqueueAccepts, EnqueueRefuses, EnqueueSaveFails,
              SubmitUnchanged
<1>2. ASSUME NEW j \in Job, FollowStep(j)
      PROVE  \/ call'[c] = call[c]
             \/ c \in Job /\ FollowStep(c) /\ (FollowStart(c) \/ call'[c] = CallIdle)
  <2>1. j \in Caller
    BY DEF Caller
  <2>2. CASE FollowStart(j)
    BY <1>2, <2>1, <2>2, InvokeWrites DEF FollowStart
  <2> QED BY <1>0, <1>2, <2>1, <2>2 DEF FollowStep, FollowStopped, FollowSkipped,
                                        FollowFails, FollowMeasured
<1>3. ASSUME NEW d \in Caller, CallStep(d) PROVE call'[c] = call[c] \/ CallStep(c)
  BY <1>3, CallGoes
<1>4. ASSUME NEW d \in Client, ClientStep(d)
      PROVE  \/ call'[c] = call[c]
             \/ c \in Client /\ (DirectCall(c) \/ DirectCallAnswered(c))
  <2>1. d \in Caller
    BY DEF Caller
  <2>2. CASE DirectCall(d)
    <3>1. PICK x \in DirectCalls : Invoke(d, x[1], x[2], NoJob, FALSE)
      BY <2>2 DEF DirectCall
    <3> QED BY <2>1, <2>2, <3>1, InvokeWrites
  <2> QED BY <1>0, <1>4, <2>1, <2>2 DEF ClientStep, DirectCallAnswered
<1>5. ASSUME ReaderStep
      PROVE  call'[c] = call[c] \/ (c = Reader /\ (ReaderAsks \/ ReaderHearsAnswer))
  <2>1. CASE ReaderAsks
    BY <1>0, <2>1, InvokeWrites DEF ReaderAsks, StepStart, RefreshStart, CheckStart
  <2>2. CASE ReaderHearsAnswer
    BY <1>0, <2>2 DEF ReaderHearsAnswer, StepError, StepDone, RefreshDone, CheckDone,
                      HangUp
  <2> QED BY <1>5, <2>1, <2>2
          DEF ReaderAsks, ReaderHearsAnswer, ReaderStep, Dequeue, DequeueWithoutRecord,
              ScanEnds, StepStopped, StepRefused, Mark, MarksDone, CheckRead, ChecksDone,
              Schedule, Close, FinishJob, ReleaseJob
<1>6. ASSUME HostStep PROVE call' = call \/ ProcessEnds
  BY <1>6 DEF HostStep, Maintain, EndMaintain, HostStops, Exit, Crash, Restart, Recover,
              HostUnchanged
<1>7. CASE UNCHANGED vars
  BY <1>7 DEF vars
<1> QED BY <1>1, <1>2, <1>3, <1>4, <1>5, <1>6, <1>7 DEF Next

\* Plans of an accepted record never change; the reader appends to the completed
\* operations of its own workflow.
LEMMA RecordKept ==
    ASSUME Shape, [Next]_vars, NEW j \in Job, job[j].state # "none"
    PROVE  /\ job'[j].plans = job[j].plans /\ job'[j].state # "none"
           /\ \/ job'[j].done = job[j].done
              \/ StepDone /\ j = reader.job
                 /\ job'[j].done = Append(job[j].done, call[Reader].plan)
<1>0. job \in [Job -> JobRecord]
  BY DEF Shape, TypeOK
<1> DEFINE Kept == /\ job'[j].plans = job[j].plans /\ job'[j].state # "none"
                   /\ job'[j].done = job[j].done
<1>1. ASSUME job' = job PROVE Kept
  BY <1>1
<1>2. ASSUME NEW k \in Job, NEW state \in JobState \ {"none"},
             job' = [job EXCEPT ![k].state = state]
      PROVE  Kept
  BY <1>0, <1>2 DEF JobRecord
<1>3. ASSUME NEW k \in Job, Submission(k) PROVE Kept
  <2>1. CASE EnqueueAccepts(k) \/ EnqueueSaveFails(k)
    <3>1. PICK ps :
            /\ job[k].state = "none"
            /\ \/ UNCHANGED job
               \/ job' = [job EXCEPT ![k] = [state |-> "QUEUED", plans |-> ps,
                                             done |-> <<>>]]
      BY <2>1 DEF EnqueueAccepts, EnqueueSaveFails, Accepts
    <3> QED BY <1>0, <1>1, <3>1
  <2> QED BY <1>1, <1>3, <2>1 DEF Submission, Validate, EnqueueRefuses
<1>4. ASSUME NEW k \in Job, FollowStep(k) PROVE Kept
  <2>1. ASSUME NEW state \in Finished, EndFollow(k, state) PROVE Kept
    <3>1. state \in JobState \ {"none"}
      BY DEF JobState, Finished
    <3> QED BY <1>2, <2>1, <3>1 DEF EndFollow
  <2> QED BY <1>1, <1>4, <2>1, FollowKinds
<1>5. CASE Schedule \/ FinishJob
  <2>1. PICK state \in JobState \ {"none"} : job' = [job EXCEPT ![Current].state = state]
    <3>1. CASE Schedule
      BY <3>1 DEF Schedule, JobState, Unfinished
    <3>2. CASE FinishJob
      <4>1. reader.outcome \in JobState \ {"none"}
        BY <3>2 DEF FinishJob, Working, Shape, ReaderShape, JobState, Finished
      <4> QED BY <3>2, <4>1 DEF FinishJob
    <3> QED BY <1>5, <3>1, <3>2
  <2>2. Current \in Job
    BY <1>5, CurrentType DEF Schedule, FinishJob, Working
  <2> QED BY <1>2, <2>1, <2>2
<1>6. CASE Dequeue
  <2>1. /\ job' = [job EXCEPT ![Head(queue)].state = "RUNNING"]
        /\ Head(queue) \in Job
    BY <1>6 DEF Dequeue, Shape, TypeOK
  <2>2. "RUNNING" \in JobState \ {"none"}
    BY DEF JobState, Unfinished
  <2> QED BY <1>2, <2>1, <2>2
<1>7. CASE StepDone
  <2>1. /\ job' = [job EXCEPT ![Current].done = Append(@, call[Reader].plan)]
        /\ Current = reader.job
    BY <1>7 DEF StepDone, Current
  <2> QED BY <1>0, <1>7, <2>1 DEF JobRecord
<1>8. ASSUME ReaderStep, ~StepDone, ~Dequeue, ~Schedule, ~FinishJob PROVE job' = job
  BY <1>8 DEF ReaderStep, DequeueWithoutRecord, ScanEnds, StepStopped,
              StepRefused, StepStart, StepError, Mark, MarksDone, RefreshStart,
              RefreshDone, CheckStart, CheckDone, CheckRead, ChecksDone, Close,
              ReleaseJob
<1>9. CASE Recover
  BY <1>0, <1>9 DEF Recover, JobRecord
<1>10. ASSUME HostStep, ~Recover PROVE job' = job
  BY <1>10 DEF HostStep, Maintain, EndMaintain, HostStops, Exit, Crash, Restart,
               ProcessEnds, HostUnchanged
<1>11. ASSUME NEW c \in Caller, CallStep(c) \/ (c \in Client /\ ClientStep(c))
       PROVE  job' = job
  BY <1>11 DEF CallStep, ClientStep, ClaimBusy, ClaimAnswered, Claim, RefreshLive,
               WorkerReturns, DirectCall, DirectCallAnswered, CallUnchanged
<1>12. CASE UNCHANGED vars
  BY <1>12 DEF vars
<1> QED BY <1>1, <1>3, <1>4, <1>5, <1>6, <1>7, <1>8, <1>9, <1>10, <1>11, <1>12
        DEF Next, Caller

-----------------------------------------------------------------------------
(* The theorems about a workflow that is processed once.                   *)

\* Without a failing save, a workflow in the channel is there once and untouched,
\* and whoever has a workflow has its reservation.
THEOREM OnceInductive == ASSUME ~DbMayFail PROVE Spec => []OnceInv
<1>1. IInv => Shape
  BY DEF IInv
<1>2. OnceInv /\ AccountInv /\ Shape /\ [Next]_vars => OnceInv'
  BY NextOnce
<1> QED BY <1>1, <1>2, InitOnce, Inductive, AccountInductive, PTL DEF Spec

\* A workflow that Finish or the recovery of a restart closed stays closed: its
\* approvals are never executed again (WorkspaceWorkflows.cs:102-119 and 258).
THEOREM ClosedJobsStayClosed ==
    ASSUME ~DbMayFail, ~EarlySubmit PROVE Spec => ClosedStaysClosed
<1>1. IInv => Shape
  BY DEF IInv
<1>2. Init => LateInv
  BY DEF Init, LateInv
<1>3. LateInv /\ OnceInv /\ AccountInv /\ Shape /\ [Next]_vars => LateInv'
  BY LateStep
<1>4. LateInv /\ OnceInv /\ AccountInv /\ Shape /\ [Next]_vars =>
        [\A j \in Job : job[j].state \in Finished => job'[j].state = job[j].state]_vars
  BY ClosedStep
<1> QED BY <1>1, <1>2, <1>3, <1>4, Inductive, AccountInductive, OnceInductive, PTL
        DEF Spec, ClosedStaysClosed

-----------------------------------------------------------------------------
(* A check that was skipped is not forgotten.                              *)

\* Only a running task remembers a skipped check, and only an answer is an error.
SkippedLive == \A j \in Job : follow[j].skipped => follow[j].round > 0
Unanswered == \A c \in Caller : call[c].pc # "done" => call[c].res \notin Error
SkipInv == SkippedLive /\ Unanswered

\* Only a call that is done has an error for a result, after any step.
LEMMA NextUnanswered == ASSUME Shape, Unanswered, [Next]_vars PROVE Unanswered'
<1> SUFFICES ASSUME NEW c \in Caller, call'[c].pc # "done" PROVE call'[c].res \notin Error
  BY DEF Unanswered
<1>1. /\ call[c].pc # "done" => call[c].res \notin Error
      /\ call \in [Caller -> CallRecord]
      /\ CallIdle.res \notin Error /\ Reader \in Caller
      /\ Job \subseteq Caller /\ Client \subseteq Caller
  BY DEF Unanswered, Shape, TypeOK, CallIdle, Error, Caller
<1>2. CASE CallStep(c)
  <2>1. call[c].res \notin Error /\ call'[c].res \in RunState \cup {call[c].res}
    BY <1>1, <1>2, CallGoes
  <2> QED BY <2>1 DEF RunState, InProgress, Published, Unsure, Error
<1>3. CASE ProcessEnds
  BY <1>1, <1>3 DEF ProcessEnds
<1>4. CASE c = Reader /\ ReaderAsks
  BY <1>1, <1>4, InvokeWrites DEF ReaderAsks, StepStart, RefreshStart, CheckStart, Error
<1>5. CASE c = Reader /\ ReaderHearsAnswer
  BY <1>1, <1>5 DEF ReaderHearsAnswer, StepError, StepDone, RefreshDone, CheckDone, HangUp
<1>6. CASE c \in Job /\ (FollowStart(c) \/ call'[c] = CallIdle)
  BY <1>1, <1>6, InvokeWrites DEF FollowStart, Error
<1>7. CASE c \in Client /\ DirectCall(c)
  <2>1. PICK d \in DirectCalls : Invoke(c, d[1], d[2], NoJob, FALSE)
    BY <1>7 DEF DirectCall
  <2> QED BY <2>1, InvokeWrites DEF Error
<1>8. CASE c \in Client /\ DirectCallAnswered(c)
  BY <1>1, <1>8 DEF DirectCallAnswered
<1> QED BY <1>1, <1>2, <1>3, <1>4, <1>5, <1>6, <1>7, <1>8, CallWrites

\* What the next check of a task remembers of the checks before it.
LEMMA FollowNextRemembers ==
    ASSUME Shape, NEW j \in Job, Due(j), NEW pending \in BOOLEAN,
           NEW skipped \in BOOLEAN, FollowNext(j, pending, skipped)
    PROVE  /\ follow'[j].skipped => follow'[j].round > 0
           /\ follow'[j].round > 0 => follow'[j].skipped = skipped
           /\ skipped => job'[j].state \in {job[j].state, "CHECKS_INCOMPLETE"}
<1>1. /\ follow \in [Job -> FollowRecord] /\ follow[j] \in FollowRecord
      /\ job \in [Job -> JobRecord]
      /\ follow[j].round > 0 /\ follow[j].round \in 0..3
  BY DEF Shape, TypeOK, Due, FollowRecord
<1> DEFINE f == [follow[j] EXCEPT !.pending = pending, !.skipped = skipped]
<1>2. f \in FollowRecord /\ f.round = follow[j].round /\ f.skipped = skipped
  BY <1>1 DEF FollowRecord
<1>3. CASE f.n < Len(job[j].done)
  <2>1. UNCHANGED job /\ follow' = [follow EXCEPT ![j] = [f EXCEPT !.n = @ + 1]]
    BY <1>3 DEF FollowNext
  <2>2. [f EXCEPT !.n = @ + 1].round = f.round /\ [f EXCEPT !.n = @ + 1].skipped = skipped
    BY <1>2 DEF FollowRecord
  <2> QED BY <1>1, <1>2, <2>1, <2>2
<1>4. CASE ~(f.n < Len(job[j].done)) /\ f.round < Request[j].rounds
  <2> DEFINE next == [f EXCEPT !.n = 1, !.round = @ + 1, !.pending = FALSE]
  <2>1. UNCHANGED job /\ follow' = [follow EXCEPT ![j] = next]
    BY <1>4 DEF FollowNext
  <2>2. next.round = f.round + 1 /\ next.skipped = skipped
    BY <1>2 DEF FollowRecord
  <2>3. next.round > 0
    BY <1>1, <1>2, <2>2
  <2> HIDE DEF next
  <2> QED BY <1>1, <2>1, <2>2, <2>3
<1>5. CASE ~(f.n < Len(job[j].done)) /\ ~(f.round < Request[j].rounds)
  <2>1. /\ follow' = [follow EXCEPT ![j] = FollowOff]
        /\ skipped => job' = [job EXCEPT ![j].state = "CHECKS_INCOMPLETE"]
    BY <1>5 DEF FollowNext, EndFollow
  <2>2. ~FollowOff.skipped /\ ~(FollowOff.round > 0)
    BY DEF FollowOff
  <2> QED BY <1>1, <2>1, <2>2 DEF JobRecord
<1> QED BY <1>3, <1>4, <1>5

\* Only a running follow-up task remembers a skipped check, after any step.
LEMMA NextSkippedLive == ASSUME Shape, SkippedLive, [Next]_vars PROVE SkippedLive'
<1> SUFFICES ASSUME NEW j \in Job, follow'[j].skipped PROVE follow'[j].round > 0
  BY DEF SkippedLive
<1>1. follow[j].skipped => follow[j].round > 0
  BY DEF SkippedLive
<1>2. ~FollowOff.skipped /\ ~[FollowOff EXCEPT !.round = 1].skipped
  BY DEF FollowOff
<1>3. CASE follow'[j] = follow[j]
  BY <1>1, <1>3
<1>4. CASE FollowStep(j)
  <2>1. follow \in [Job -> FollowRecord]
    BY DEF Shape, TypeOK
  <2>2. CASE FollowStart(j)
    BY <1>3, <2>2 DEF FollowStart
  <2>3. CASE FollowStopped(j) \/ FollowFails(j)
    BY <1>2, <2>1, <2>3 DEF FollowStopped, FollowFails, EndFollow
  <2>4. ASSUME NEW pending \in BOOLEAN, NEW skipped \in BOOLEAN, Due(j),
               FollowNext(j, pending, skipped)
        PROVE  follow'[j].round > 0
    BY <2>4, FollowNextRemembers
  <2>5. CASE FollowSkipped(j)
    BY <2>1, <2>4, <2>5 DEF FollowSkipped, FollowRecord
  <2>6. CASE FollowMeasured(j)
    BY <2>1, <2>4, <2>6 DEF FollowMeasured, FollowRecord
  <2> QED BY <1>4, <2>2, <2>3, <2>5, <2>6 DEF FollowStep
<1>5. CASE ProcessEnds
  BY <1>2, <1>5 DEF ProcessEnds
<1> QED BY <1>2, <1>3, <1>4, <1>5, FollowWrites

\* A step of the task that skips a check, or has skipped one.
LEMMA SkippedOwnStep ==
    ASSUME Shape, NEW j \in Job, FollowStep(j), job[j].state = "VERIFY_SCHEDULED",
           \/ follow[j].skipped
           \/ call[j].pc = "done" /\ call[j].res = "BUSY"
    PROVE  /\ job'[j].state # "COMPLETED"
           /\ follow'[j].round > 0 => follow'[j].skipped
<1>1. follow \in [Job -> FollowRecord] /\ job \in [Job -> JobRecord]
  BY DEF Shape, TypeOK
<1>2. CASE FollowStart(j)
  BY <1>2 DEF FollowStart, Invoke
<1>3. CASE FollowStopped(j) \/ FollowFails(j)
  <2>1. PICK state \in Finished \ {"COMPLETED"} : EndFollow(j, state)
    BY <1>3 DEF FollowStopped, FollowFails, FailState, Finished
  <2>2. job'[j].state = state /\ follow'[j] = FollowOff
    BY <1>1, <2>1 DEF EndFollow, JobRecord
  <2> QED BY <2>2 DEF FollowOff
<1>4. ASSUME NEW pending \in BOOLEAN, Due(j), FollowNext(j, pending, TRUE)
      PROVE  /\ job'[j].state # "COMPLETED"
             /\ follow'[j].round > 0 => follow'[j].skipped
  BY <1>4, FollowNextRemembers
<1>5. CASE FollowSkipped(j)
  BY <1>1, <1>4, <1>5 DEF FollowSkipped, FollowRecord
<1>6. CASE FollowMeasured(j)
  <2>1. follow[j].skipped = TRUE
    BY <1>1, <1>6 DEF FollowMeasured, Error, FollowRecord
  <2>2. follow[j].pending \/ (call[j].res # "ROLLED_BACK" /\ call[j].eff # "VERIFIED")
          \in BOOLEAN
    OBVIOUS
  <2> QED BY <1>4, <1>6, <2>1, <2>2 DEF FollowMeasured
<1> QED BY <1>2, <1>3, <1>5, <1>6 DEF FollowStep

\* No step completes a job whose round skipped a check.
LEMMA SkippedStep ==
    ASSUME ~DbMayFail, Shape, AccountInv, OnceInv, SkipInv, [Next]_vars, NEW j \in Job,
           \/ follow[j].skipped
           \/ follow[j].round > 0 /\ call[j].res = "BUSY" /\ call'[j] # call[j]
    PROVE  /\ job'[j].state # "COMPLETED"
           /\ follow'[j].round > 0 => follow'[j].skipped
<1>1. /\ follow[j].round > 0 /\ job[j].state = "VERIFY_SCHEDULED"
      /\ reader.job = j => reader.stage = "release"
      /\ service \notin {"down", "starting"}
      /\ follow \in [Job -> FollowRecord]
  BY DEF SkipInv, SkippedLive, OnceInv, FollowAwaits, Rests, Shape, TypeOK, FollowRecord
<1>2. j \in Caller /\ j # Reader /\ j \notin Client
  BY CallerAssumption DEF Caller
<1>3. call[j].res = "BUSY" => call[j].pc = "done"
  BY <1>2 DEF SkipInv, Unanswered, Error
<1>4. CASE FollowStep(j)
  <2>1. \/ follow[j].skipped
        \/ call[j].pc = "done" /\ call[j].res = "BUSY"
    BY <1>3
  <2> QED BY <1>1, <1>4, <2>1, SkippedOwnStep
<1>5. CASE ProcessEnds
  BY <1>1, <1>5 DEF ProcessEnds, FollowOff
<1>6. CASE ~FollowStep(j) /\ ~ProcessEnds
  <2>1. job'[j].state # "COMPLETED"
    <3>1. CASE StateWrite(j)
      BY <1>1, <1>6, <3>1 DEF StateWrite, Recover
    <3> QED BY <1>1, <3>1, StateWrites
  <2>2. ~Schedule \/ reader.job # j
    BY <1>1 DEF Schedule, Working
  <2>3. follow'[j] = follow[j]
    BY <1>6, <2>2, FollowWrites
  <2>4. ~CallStep(j) \/ call[j].pc # "done"
    BY <1>2, CallGoes
  <2>5. follow[j].skipped
    BY <1>2, <1>3, <1>6, <2>4, CallWrites
  <2> QED BY <2>1, <2>3, <2>5
<1> QED BY <1>4, <1>5, <1>6

\* A follow-up that skipped a check because its GPO was busy remembers it and never
\* ends COMPLETED (WorkspaceWorkflows.cs:231-250).
THEOREM SkippedChecksRemembered == ASSUME ~DbMayFail PROVE Spec => SkippedNeverCompleted
<1>1. IInv => Shape
  BY DEF IInv
<1>2. Init => SkipInv
  BY DEF Init, SkipInv, SkippedLive, Unanswered, FollowOff, CallIdle, Error
<1>3. SkipInv /\ Shape /\ [Next]_vars => SkipInv'
  BY NextSkippedLive, NextUnanswered DEF SkipInv
<1>4. SkipInv /\ OnceInv /\ AccountInv /\ Shape /\ [Next]_vars =>
        [\A j \in Job :
           \/ follow[j].skipped
           \/ follow[j].round > 0 /\ call[j].res = "BUSY" /\ call'[j] # call[j]
           => /\ job'[j].state # "COMPLETED"
              /\ follow'[j].round > 0 => follow'[j].skipped]_vars
  BY SkippedStep
<1> QED BY <1>1, <1>2, <1>3, <1>4, Inductive, AccountInductive, OnceInductive, PTL
        DEF Spec, SkippedNeverCompleted

-----------------------------------------------------------------------------
(* The reader's question: whose it is, and what it is about.               *)

CallsOwned == \A c \in Caller \ {Reader} : call[c].owner = NoJob
ReaderAsked ==
    call[Reader].pc # "idle" =>
        /\ call[Reader].owner = reader.job
        /\ \/ /\ reader.stage = "steps"
              /\ call[Reader].op = CurrentRequest.action
              /\ call[Reader].plan = StepPlan
           \/ /\ reader.stage = "refresh"
              /\ call[Reader].op = "refresh"
              /\ call[Reader].plan = CurrentDone[Len(CurrentDone)]
           \/ /\ reader.stage = "checks"
              /\ call[Reader].op = "verify" /\ CurrentRequest.action # "verify"
              /\ reader.n <= Len(CurrentDone)
              /\ call[Reader].plan = CurrentDone[reader.n]
AskInv == CallsOwned /\ ReaderAsked

\* Only the reader's call has an owner, after any step.
LEMMA NextCallsOwned == ASSUME Shape, CallsOwned, [Next]_vars PROVE CallsOwned'
<1> SUFFICES ASSUME NEW c \in Caller \ {Reader} PROVE call'[c].owner = NoJob
  BY DEF CallsOwned
<1>1. call[c].owner = NoJob /\ CallIdle.owner = NoJob
  BY DEF CallsOwned, CallIdle
<1>2. CASE CallStep(c)
  BY <1>1, <1>2, CallGoes
<1>3. CASE ProcessEnds
  BY <1>1, <1>3 DEF ProcessEnds
<1>4. CASE c \in Job /\ (FollowStart(c) \/ call'[c] = CallIdle)
  BY <1>1, <1>4, InvokeWrites DEF FollowStart
<1>5. CASE c \in Client /\ (DirectCall(c) \/ DirectCallAnswered(c))
  <2>1. CASE DirectCall(c)
    <3>1. PICK d \in DirectCalls : Invoke(c, d[1], d[2], NoJob, FALSE)
      BY <2>1 DEF DirectCall
    <3> QED BY <3>1, InvokeWrites
  <2>2. CASE DirectCallAnswered(c)
    BY <1>1, <2>2 DEF DirectCallAnswered, Shape, TypeOK
  <2> QED BY <1>5, <2>1, <2>2
<1> QED BY <1>1, <1>2, <1>3, <1>4, <1>5, CallWrites

\* Only the reader moves the reader, until the process ends.
LEMMA ReaderKept ==
    ASSUME [Next]_vars, ~ReaderStep, ~ProcessEnds PROVE reader' = reader
  BY DEF Next, vars, Submission, Validate, EnqueueAccepts, EnqueueRefuses,
       EnqueueSaveFails, SubmitUnchanged, FollowStep, FollowStart, FollowStopped,
       FollowSkipped, FollowFails, FollowMeasured, FollowUnchanged, CallStep, ClaimBusy,
       ClaimAnswered, Claim, RefreshLive, WorkerReturns, CallUnchanged, ClientStep,
       DirectCall, DirectCallAnswered, HostStep, Maintain, EndMaintain, HostStops, Exit,
       Crash, Restart, Recover, HostUnchanged

\* While its question is open, the reader and its workflow wait.
LEMMA ReaderWaits ==
    ASSUME Shape, ReaderAsked, [Next]_vars,
           call[Reader].pc # "idle", call'[Reader].pc # "idle"
    PROVE  /\ reader' = reader /\ CurrentRequest' = CurrentRequest
           /\ CurrentDone' = CurrentDone /\ StepPlan' = StepPlan
           /\ reader.job \in Job /\ job[reader.job].state # "none"
           /\ job'[reader.job].plans = job[reader.job].plans
<1>1. /\ reader.stage \in {"steps", "refresh", "checks"}
      /\ reader.stage = "checks" => CurrentRequest.action # "verify"
      /\ CallIdle.pc = "idle" /\ Reader \in Caller
  BY DEF ReaderAsked, CallIdle, Caller
<1>2. reader.job \in Job /\ job[reader.job].state # "none"
  BY <1>1 DEF Shape, ReaderShape
<1>3. ~ReaderHearsAnswer /\ ~ProcessEnds
  BY <1>1 DEF ReaderHearsAnswer, StepError, StepDone, RefreshDone, CheckDone, HangUp,
              ProcessEnds, Shape, TypeOK
<1>4. ~ReaderAsks
  BY <1>1, InvokeWrites DEF ReaderAsks, StepStart, RefreshStart, CheckStart
<1>5. ~ReaderStep
  BY <1>1, <1>3, <1>4
     DEF ReaderStep, ReaderHearsAnswer, ReaderAsks, Dequeue, DequeueWithoutRecord,
         ScanEnds, StepStopped, StepRefused, ReaderFree, Mark, MarksDone, CheckRead,
         ChecksDone, Schedule, Close, FinishJob, ReleaseJob, Working
<1>6. reader' = reader
  BY <1>3, <1>5, ReaderKept
<1>7. /\ job'[reader.job].plans = job[reader.job].plans
      /\ job'[reader.job].done = job[reader.job].done
  BY <1>2, <1>3, RecordKept DEF ReaderHearsAnswer
<1> QED BY <1>2, <1>6, <1>7 DEF CurrentRequest, CurrentDone, StepPlan, Current

\* The reader asks at the stages that call an operation, after any step.
LEMMA NextReaderAsked == ASSUME Shape, ReaderAsked, [Next]_vars PROVE ReaderAsked'
<1> SUFFICES ASSUME call'[Reader].pc # "idle"
             PROVE  ReaderAsked'
  BY DEF ReaderAsked
<1>1. CallIdle.pc = "idle" /\ Reader \in Caller /\ call \in [Caller -> CallRecord]
  BY DEF CallIdle, Caller, Shape, TypeOK
<1>2. CASE ReaderAsks
  <2>1. UNCHANGED <<reader, job>>
    BY <1>2 DEF ReaderAsks, StepStart, RefreshStart, CheckStart
  <2>2. /\ CurrentRequest' = CurrentRequest /\ CurrentDone' = CurrentDone
        /\ StepPlan' = StepPlan
    BY <2>1 DEF CurrentRequest, CurrentDone, StepPlan, Current
  <2>3. CASE StepStart
    BY <1>1, <2>1, <2>2, <2>3, InvokeWrites DEF StepStart, ReaderAsked, Working, Current
  <2>4. CASE RefreshStart
    BY <1>1, <2>1, <2>2, <2>4, InvokeWrites DEF RefreshStart, ReaderAsked, Working, Current
  <2>5. CASE CheckStart
    <3>1. /\ reader.stage = "checks" /\ CurrentRequest.action # "verify"
          /\ reader.n <= Len(CurrentDone)
          /\ Invoke(Reader, "verify", CurrentDone[reader.n], reader.job, FALSE)
      BY <2>5 DEF CheckStart, Working, Current
    <3>2. /\ call'[Reader].op = "verify" /\ call'[Reader].plan = CurrentDone[reader.n]
          /\ call'[Reader].owner = reader.job
      BY <1>1, <3>1, InvokeWrites
    <3> QED BY <2>1, <2>2, <3>1, <3>2 DEF ReaderAsked
  <2> QED BY <1>2, <2>3, <2>4, <2>5 DEF ReaderAsks
<1>3. CASE ~ReaderAsks
  <2>1. ~ProcessEnds /\ ~ReaderHearsAnswer
    BY <1>1 DEF ReaderHearsAnswer, StepError, StepDone, RefreshDone, CheckDone, HangUp,
                ProcessEnds
  <2>2. Reader \notin Job \cup Client
    BY CallerAssumption
  <2>3. call'[Reader] = call[Reader] \/ CallStep(Reader)
    BY <1>1, <1>3, <2>1, <2>2, CallWrites
  <2>4. /\ call[Reader].pc # "idle" /\ call'[Reader].op = call[Reader].op
        /\ call'[Reader].plan = call[Reader].plan /\ call'[Reader].owner = call[Reader].owner
    BY <1>1, <2>3, CallGoes
  <2> QED BY <2>4, ReaderWaits DEF ReaderAsked
<1> QED BY <1>2, <1>3

-----------------------------------------------------------------------------
(* Where the reader goes.                                                  *)

ReaderAt(stage, n) ==
    /\ reader'.job = reader.job /\ reader'.stage = stage /\ reader'.n = n
    /\ reader'.pending = reader.pending
Fails ==
    /\ ReaderAt("finish", reader.n) /\ reader'.outcome # "COMPLETED"
    /\ reader.stage \in {"scan", "steps", "refresh", "checks"}
CheckPassed(state, eff) ==
    /\ reader'.job = reader.job /\ reader'.stage = "checks"
    /\ reader'.n = reader.n + 1
    /\ \/ state = "ROLLED_BACK" /\ reader'.pending = reader.pending
       \/ /\ ~Contradicts(state, eff, CurrentRequest.rounds > 0)
          /\ reader'.pending = (reader.pending \/ eff # "VERIFIED")

\* A reader that closes its job is at its finish with that outcome.
LEMMA ClosingAt ==
    ASSUME Shape, NEW state, reader' = Closing(state)
    PROVE  ReaderAt("finish", reader.n) /\ reader'.outcome = state
  BY ClosingGoesOn DEF ReaderAt

\* A reader that moves its position keeps its job and what it has to do.
LEMMA MovesTo ==
    ASSUME Shape, NEW stage, NEW n,
           \/ reader' = [reader EXCEPT !.n = n, !.stage = stage]
           \/ reader' = [reader EXCEPT !.stage = stage] /\ n = reader.n
           \/ reader' = [reader EXCEPT !.n = n] /\ stage = reader.stage
    PROVE  ReaderAt(stage, n)
<1>1. reader \in ReaderRecord
  BY DEF Shape, TypeOK
<1> QED BY <1>1 DEF ReaderAt, ReaderRecord

\* A check that was measured passes or fails the job.
LEMMA MeasuredMoves ==
    ASSUME Shape, reader.stage = "checks", NEW state, NEW eff, CheckMeasured(state, eff)
    PROVE  Fails \/ CheckPassed(state, eff)
<1>1. reader \in ReaderRecord
  BY DEF Shape, TypeOK
<1>2. CASE state = "ROLLED_BACK"
  <2>1. reader' = [reader EXCEPT !.n = reader.n + 1]
    BY <1>2 DEF CheckMeasured
  <2> QED BY <1>1, <1>2, <2>1 DEF CheckPassed, ReaderRecord
<1>3. CASE state # "ROLLED_BACK" /\ Contradicts(state, eff, CurrentRequest.rounds > 0)
  BY <1>3, ClosingAt DEF CheckMeasured, Fails
<1>4. CASE state # "ROLLED_BACK" /\ ~Contradicts(state, eff, CurrentRequest.rounds > 0)
  <2>1. reader' = [reader EXCEPT !.n = @ + 1, !.pending = @ \/ eff # "VERIFIED"]
    BY <1>4 DEF CheckMeasured
  <2>2. reader'.n = reader.n + 1 /\ reader'.job = reader.job /\ reader'.stage = "checks"
    BY <1>1, <2>1 DEF ReaderRecord
  <2>3. reader'.pending = (reader.pending \/ eff # "VERIFIED")
    BY <1>1, <2>1, Zenon DEF ReaderRecord
  <2> QED BY <1>4, <2>2, <2>3 DEF CheckPassed
<1> QED BY <1>2, <1>3, <1>4

\* Where each step of the reader leads: its stage, and what it has done.
LEMMA ReaderTurns ==
    ASSUME Shape, ReaderStep
    PROVE  \/ Dequeue \/ DequeueWithoutRecord \/ Schedule \/ FinishJob \/ ReleaseJob
           \/ ReaderAsks /\ reader' = reader
           \/ ScanEnds /\ ReaderAt("finish", reader.n)
           \/ /\ Close /\ ReaderAt("finish", reader.n)
              /\ reader'.outcome = "COMPLETED" => ~reader.pending
           \/ Fails
           \/ /\ StepDone /\ reader.n < Len(job[Current].plans)
              /\ PassesStep(CurrentRequest.action, call[Reader].res)
              /\ ReaderAt("steps", reader.n + 1)
           \/ /\ StepDone /\ ~(reader.n < Len(job[Current].plans))
              /\ PassesStep(CurrentRequest.action, call[Reader].res)
              /\ ReaderAt(AfterSteps, 1)
           \/ Mark /\ ReaderAt("marks", reader.n + 1)
           \/ MarksDone /\ ReaderAt(AfterMarks, 1)
           \/ /\ RefreshDone /\ ReaderAt(AfterRefresh, reader.n)
              /\ PassesStep("refresh", call[Reader].res)
           \/ CheckDone /\ CheckPassed(call[Reader].res, call[Reader].eff)
           \/ /\ CheckRead
              /\ \E state, eff : CheckPassed(state, eff)
           \/ ChecksDone /\ ReaderAt("close", reader.n)
<1>1. reader \in ReaderRecord
  BY DEF Shape, TypeOK
<1>2. CASE ScanEnds
  BY <1>2, ClosingAt DEF ScanEnds
<1>3. CASE Close
  <2>1. reader' = Closing(IF reader.pending THEN "CHECKS_INCOMPLETE" ELSE "COMPLETED")
    BY <1>3 DEF Close
  <2> QED BY <1>3, <2>1, ClosingAt
<1>4. CASE StepStopped \/ StepRefused \/ StepError
  <2>1. reader.stage \in {"steps", "refresh", "checks"}
    BY <1>4 DEF StepStopped, StepRefused, StepError, Working
  <2>2. PICK state \in {"NEEDS_REVIEW", "WAITING_CONNECTION"} : reader' = Closing(state)
    BY <1>4 DEF StepStopped, StepRefused, StepError, FailState
  <2> QED BY <2>1, <2>2, ClosingAt DEF Fails
<1>5. CASE StepDone
  <2>1. CASE reader' = Closing("NEEDS_REVIEW")
    BY <1>5, <2>1, ClosingAt DEF Fails, StepDone, Working
  <2>2. CASE /\ PassesStep(CurrentRequest.action, call[Reader].res)
             /\ reader' = IF reader.n < Len(job[Current].plans)
                          THEN [reader EXCEPT !.n = @ + 1]
                          ELSE [reader EXCEPT !.n = 1, !.stage = AfterSteps]
    <3>1. reader.stage = "steps"
      BY <1>5 DEF StepDone, Working
    <3>2. CASE reader.n < Len(job[Current].plans)
      <4>1. reader' = [reader EXCEPT !.n = reader.n + 1]
        BY <2>2, <3>2
      <4> QED BY <1>5, <2>2, <3>1, <3>2, <4>1, MovesTo
    <3>3. CASE ~(reader.n < Len(job[Current].plans))
      <4>1. reader' = [reader EXCEPT !.n = 1, !.stage = AfterSteps]
        BY <2>2, <3>3
      <4>2. ReaderAt(AfterSteps, 1)
        BY <4>1, MovesTo
      <4> QED BY <1>5, <2>2, <3>3, <4>2
    <3> QED BY <3>2, <3>3
  <2> QED BY <1>5, <2>1, <2>2 DEF StepDone
<1>6. CASE Mark
  <2>1. reader.stage = "marks" /\ reader' = [reader EXCEPT !.n = reader.n + 1]
    BY <1>6 DEF Mark, Working
  <2> QED BY <1>6, <2>1, MovesTo
<1>7. CASE MarksDone
  <2>1. reader' = [reader EXCEPT !.n = 1, !.stage = AfterMarks]
    BY <1>7 DEF MarksDone
  <2>2. ReaderAt(AfterMarks, 1)
    BY <2>1, MovesTo
  <2> QED BY <1>7, <2>2
<1>8. CASE RefreshDone
  <2>1. CASE reader' = Closing("NEEDS_REVIEW")
    BY <1>8, <2>1, ClosingAt DEF Fails, RefreshDone, Working
  <2>2. CASE /\ PassesStep("refresh", call[Reader].res)
             /\ reader' = [reader EXCEPT !.stage = AfterRefresh]
    <3>1. ReaderAt(AfterRefresh, reader.n)
      BY <2>2, MovesTo
    <3> QED BY <1>8, <2>2, <3>1
  <2> QED BY <1>8, <2>1, <2>2 DEF RefreshDone
<1>9. CASE CheckDone
  BY <1>9, MeasuredMoves DEF CheckDone, Working
<1>10. CASE CheckRead
  BY <1>10, MeasuredMoves DEF CheckRead, Working
<1>11. CASE ChecksDone
  <2>1. reader' = [reader EXCEPT !.stage = "close"]
    BY <1>11 DEF ChecksDone
  <2> QED BY <1>11, <2>1, MovesTo
<1>12. CASE StepStart \/ RefreshStart \/ CheckStart
  BY <1>12 DEF StepStart, RefreshStart, CheckStart, ReaderAsks
<1> QED BY <1>2, <1>3, <1>4, <1>5, <1>6, <1>7, <1>8, <1>9, <1>10, <1>11, <1>12
        DEF ReaderStep

-----------------------------------------------------------------------------
(* The GPO of a workflow: all its plans and all its operations are on it.  *)

OneGpo(ps) == \A i \in DOMAIN ps : GpoOf[ps[i]] = GpoOf[ps[1]]
\* A batch recovery has one plan, on the GPO of the batch it recovers.
FromBatch(j, ps) ==
    Request[j].source # NoJob =>
        /\ Request[Request[j].source].action = "apply"
        /\ job[Request[j].source].state # "none"
        /\ Len(ps) = 1
        /\ GpoOf[ps[1]] = GpoOf[job[Request[j].source].plans[1]]
SubmittedPlans == \A v \in validated : OneGpo(v[2]) /\ FromBatch(v[1], v[2])
AcceptedPlans ==
    \A j \in Job : job[j].state # "none" =>
        OneGpo(job[j].plans) /\ FromBatch(j, job[j].plans)
DonePlans ==
    \A j \in Job : \A i \in DOMAIN job[j].done :
        GpoOf[job[j].done[i]] = GpoOf[job[j].plans[1]]
PlansInv == SubmittedPlans /\ AcceptedPlans /\ DonePlans

\* A record is created by an accepted submission, with the plans validated.
LEMMA RecordCreated ==
    ASSUME Shape, [Next]_vars, NEW j \in Job, job[j].state = "none"
    PROVE  \/ job'[j] = job[j]
           \/ \E v \in validated : v[1] = j /\ job'[j] = [state |-> "QUEUED",
                                      plans |-> v[2], done |-> <<>>]
<1>0. job \in [Job -> JobRecord]
  BY DEF Shape, TypeOK
<1>1. ASSUME NEW k \in Job, Submission(k)
      PROVE  \/ job'[j] = job[j]
             \/ \E v \in validated : v[1] = j /\ job'[j] = [state |-> "QUEUED",
                                        plans |-> v[2], done |-> <<>>]
  BY <1>0, <1>1 DEF Submission, Validate, EnqueueAccepts, EnqueueRefuses, EnqueueSaveFails
<1>2. ASSUME NEW k \in Job, FollowStep(k) PROVE job'[j] = job[j]
  <2>1. k # j
    BY <1>2, FollowKinds DEF Due, Shape, FollowShape
  <2> QED BY <1>0, <1>2, <2>1, FollowKinds DEF EndFollow
<1>3. ASSUME ReaderStep PROVE job'[j] = job[j]
  <2>1. reader.stage \notin {"idle", "faulted"} => reader.job # j
    BY DEF Shape, ReaderShape
  <2>2. CASE Dequeue
    <3>1. Head(queue) # j /\ job' = [job EXCEPT ![Head(queue)].state = "RUNNING"]
      BY <2>2 DEF Dequeue
    <3> QED BY <1>0, <3>1
  <2>3. CASE Schedule \/ FinishJob
    BY <1>0, <2>1, <2>3 DEF Schedule, FinishJob, Working, Current
  <2> QED BY <1>3, <2>1, <2>2, <2>3, ReaderKinds DEF ReaderGoesOn, DequeueWithoutRecord,
                                                   ReleaseJob
<1>4. ASSUME HostStep PROVE job'[j] = job[j]
  BY <1>4 DEF HostStep, Maintain, EndMaintain, HostStops, Exit, Crash, Restart, Recover,
              ProcessEnds, HostUnchanged, Unfinished
<1>5. ASSUME NEW c \in Caller, CallStep(c) \/ (c \in Client /\ ClientStep(c))
      PROVE  job' = job
  BY <1>5 DEF CallStep, ClientStep, ClaimBusy, ClaimAnswered, Claim, RefreshLive,
              WorkerReturns, DirectCall, DirectCallAnswered, CallUnchanged
<1>6. CASE UNCHANGED vars
  BY <1>6 DEF vars
<1> QED BY <1>1, <1>2, <1>3, <1>4, <1>5, <1>6 DEF Next, Caller

\* What was found sound once stays so: the batch a recovery names keeps its plans.
LEMMA FromBatchStays ==
    ASSUME Shape, [Next]_vars, NEW j \in Job, NEW ps, FromBatch(j, ps)
    PROVE  FromBatch(j, ps)'
<1>1. CASE Request[j].source = NoJob
  BY <1>1 DEF FromBatch
<1>2. CASE Request[j].source # NoJob
  <2>1. Request[j].source \in Job
    BY <1>2, RequestAssumption
  <2> QED BY <1>2, <2>1, RecordKept DEF FromBatch
<1> QED BY <1>1, <1>2

\* The plans of a validated submission are of one GPO, and of its batch.
LEMMA ValidatePlans ==
    ASSUME Shape, PlansInv, NEW j \in Job, Validate(j), NEW v \in validated' \ validated
    PROVE  v[1] = j /\ OneGpo(v[2]) /\ FromBatch(j, v[2])
<1>1. PICK ps \in Targets(j) : v = <<j, ps>>
  BY DEF Validate
<1>2. CASE Request[j].source = NoJob
  <2>1. ps = Request[j].plans
    BY <1>1, <1>2 DEF Targets
  <2> QED BY <1>1, <1>2, <2>1, RequestAssumption DEF OneGpo, FromBatch
<1>3. CASE Request[j].source # NoJob
  <2> DEFINE s == Request[j].source
  <2>1. s \in Job /\ Request[s].action = "apply" /\ job[s].state # "none"
    BY <1>3, RequestAssumption DEF Validate, SourceUsable, Finished
  <2>2. PICK i \in DOMAIN job[s].done : ps = <<job[s].done[i]>>
    BY <1>1, <1>3 DEF Targets, BackedSteps
  <2>3. GpoOf[ps[1]] = GpoOf[job[s].plans[1]] /\ Len(ps) = 1
    BY <2>1, <2>2 DEF PlansInv, DonePlans
  <2>4. OneGpo(ps)
    BY <2>2 DEF OneGpo
  <2> QED BY <1>1, <1>3, <2>1, <2>3, <2>4 DEF FromBatch
<1> QED BY <1>2, <1>3

\* Only a validation adds to what is validated.
LEMMA ValidatedWrites ==
    ASSUME [Next]_vars, NEW v \in validated'
    PROVE  v \in validated \/ \E j \in Job : Validate(j)
<1>1. ASSUME NEW j \in Job, Submission(j) PROVE v \in validated \/ Validate(j)
  BY <1>1 DEF Submission, EnqueueAccepts, EnqueueRefuses, EnqueueSaveFails, Answered
<1>2. ASSUME NEW j \in Job, FollowStep(j) PROVE v \in validated
  BY <1>2 DEF FollowStep, FollowStart, FollowStopped, FollowSkipped, FollowFails,
              FollowMeasured, FollowUnchanged
<1>3. ASSUME ReaderStep PROVE v \in validated
  BY <1>3 DEF ReaderStep, Dequeue, DequeueWithoutRecord, ScanEnds, StepStopped,
              StepRefused, StepStart, StepError, StepDone, Mark, MarksDone, RefreshStart,
              RefreshDone, CheckStart, CheckDone, CheckRead, ChecksDone, Schedule, Close,
              FinishJob, ReleaseJob, ReaderUnchanged
<1>4. ASSUME HostStep PROVE v \in validated
  BY <1>4 DEF HostStep, Maintain, EndMaintain, HostStops, Exit, Crash, Restart, Recover,
              ProcessEnds, HostUnchanged
<1>5. ASSUME NEW c \in Caller, CallStep(c) \/ (c \in Client /\ ClientStep(c))
      PROVE  v \in validated
  BY <1>5 DEF CallStep, ClientStep, ClaimBusy, ClaimAnswered, Claim, RefreshLive,
              WorkerReturns, DirectCall, DirectCallAnswered, CallUnchanged
<1>6. CASE UNCHANGED vars
  BY <1>6 DEF vars
<1> QED BY <1>1, <1>2, <1>3, <1>4, <1>5, <1>6 DEF Next, Caller

\* The plans of every record are of one GPO and of its batch, after any step.
LEMMA NextPlans ==
    ASSUME Shape, ReaderAsked, PlansInv, [Next]_vars PROVE PlansInv'
<1>0. job \in [Job -> JobRecord] /\ validated \subseteq Job \X Seq(Plan)
  BY DEF Shape, TypeOK
<1>1. SubmittedPlans'
  <2> SUFFICES ASSUME NEW v \in validated'
               PROVE  OneGpo(v[2]) /\ FromBatch(v[1], v[2])'
    BY DEF SubmittedPlans
  <2>1. CASE v \in validated
    <3>1. v[1] \in Job /\ OneGpo(v[2]) /\ FromBatch(v[1], v[2])
      BY <1>0, <2>1 DEF PlansInv, SubmittedPlans
    <3> QED BY <3>1, FromBatchStays
  <2>2. CASE v \notin validated
    <3>1. PICK j \in Job : Validate(j)
      BY <2>2, ValidatedWrites
    <3>2. v[1] = j /\ OneGpo(v[2]) /\ FromBatch(j, v[2])
      BY <2>2, <3>1, ValidatePlans
    <3> QED BY <3>2, FromBatchStays
  <2> QED BY <2>1, <2>2
<1>2. AcceptedPlans'
  <2> SUFFICES ASSUME NEW j \in Job, job'[j].state # "none"
               PROVE  OneGpo(job'[j].plans) /\ FromBatch(j, job[j].plans)'
    BY DEF AcceptedPlans, OneGpo, FromBatch
  <2>1. PICK ps : job'[j].plans = ps /\ OneGpo(ps) /\ FromBatch(j, ps)
    <3>1. CASE job[j].state # "none"
      BY <3>1, RecordKept DEF PlansInv, AcceptedPlans
    <3>2. CASE job[j].state = "none"
      <4>1. job'[j] # job[j]
        BY <3>2
      <4>2. PICK v \in validated :
              v[1] = j /\ job'[j] = [state |-> "QUEUED", plans |-> v[2], done |-> <<>>]
        BY <3>2, <4>1, RecordCreated
      <4>3. job'[j].plans = v[2]
        BY <4>2
      <4> QED BY <4>2, <4>3 DEF PlansInv, SubmittedPlans
    <3> QED BY <3>1, <3>2
  <2>2. FromBatch(j, ps)'
    BY <2>1, FromBatchStays
  <2> QED BY <2>1, <2>2 DEF FromBatch
<1>3. DonePlans'
  <2> SUFFICES ASSUME NEW j \in Job, NEW i \in DOMAIN job'[j].done
               PROVE  GpoOf[job'[j].done[i]] = GpoOf[job'[j].plans[1]]
    BY DEF DonePlans
  <2>1. CASE job[j].state = "none"
    <3>1. CASE job'[j] = job[j]
      BY <3>1 DEF PlansInv, DonePlans
    <3>2. CASE job'[j] # job[j]
      <4>1. PICK v \in validated :
              job'[j] = [state |-> "QUEUED", plans |-> v[2], done |-> <<>>]
        BY <2>1, <3>2, RecordCreated
      <4>2. job'[j].done = <<>>
        BY <4>1
      <4> QED BY <4>2
    <3> QED BY <3>1, <3>2
  <2>2. CASE job[j].state # "none" /\ job'[j].done = job[j].done
    BY <2>2, RecordKept DEF PlansInv, DonePlans
  <2>3. CASE /\ job[j].state # "none" /\ StepDone /\ j = reader.job
             /\ job'[j].done = Append(job[j].done, call[Reader].plan)
    <3>1. /\ call[Reader].plan = StepPlan /\ Current = j
          /\ job[j].plans \in Seq(Plan) /\ job[j].done \in Seq(Plan)
          /\ reader.n \in 1..Len(job[j].plans)
      <4>1. reader.stage = "steps" /\ call[Reader].pc # "idle"
        BY <2>3 DEF StepDone, Working, ReaderAnswered
      <4>2. reader.n \in Nat \ {0} /\ reader.n <= Len(job[j].plans)
        BY <2>3, <4>1 DEF Shape, TypeOK, ReaderRecord, ReaderShape
      <4>3. job[j].plans \in Seq(Plan) /\ job[j].done \in Seq(Plan)
        BY <1>0 DEF JobRecord
      <4> QED BY <2>3, <4>1, <4>2, <4>3 DEF ReaderAsked, Current
    <3>2. OneGpo(job[j].plans)
      BY <2>3 DEF PlansInv, AcceptedPlans
    <3>3. job[j].plans[reader.n] \in Plan
          /\ GpoOf[job[j].plans[reader.n]] = GpoOf[job[j].plans[1]]
      BY <3>1, <3>2 DEF OneGpo
    <3>4. GpoOf[call[Reader].plan] = GpoOf[job[j].plans[1]]
      BY <3>1, <3>3, PlanAssumption DEF StepPlan
    <3>5. job'[j].plans = job[j].plans
      BY <2>3, RecordKept
    <3>6. \/ i \in DOMAIN job[j].done /\ job'[j].done[i] = job[j].done[i]
          \/ job'[j].done[i] = call[Reader].plan
      BY <2>3, <3>1
    <3> QED BY <3>4, <3>5, <3>6 DEF PlansInv, DonePlans
  <2> QED BY <2>1, <2>2, <2>3, RecordKept
<1> QED BY <1>1, <1>2, <1>3 DEF PlansInv

\* Where the reader is in its workflow.
Positions ==
    /\ reader.stage = "scan" => CurrentRequest.action = "scan"
    /\ reader.stage = "steps" => Len(CurrentDone) = reader.n - 1
    /\ reader.stage = "refresh" => reader.n = 1
    /\ reader.stage = "checks" => Checked
    /\ reader.stage \in {"marks", "refresh", "checks", "close"} =>
           Len(CurrentDone) = Len(job[Current].plans)

\* The checks are reached only by a job that is to be checked.
LEMMA AfterChecked ==
    /\ AfterRefresh = "checks" => Checked
    /\ AfterMarks = "checks" => Checked
    /\ AfterSteps = "checks" => Checked
  BY DEF AfterRefresh, AfterMarks, AfterSteps

\* The reader is within the plans of its job, after any step.
LEMMA NextPositions ==
    ASSUME Shape, OnceInv, Positions, [Next]_vars PROVE Positions'
<1>0. /\ job \in [Job -> JobRecord] /\ reader \in ReaderRecord
      /\ \A j \in Job : job[j].done \in Seq(Plan) /\ job[j].plans \in Seq(Plan)
  BY DEF Shape, TypeOK, JobRecord
<1> DEFINE N == reader.n
           D == Len(CurrentDone)
           P == Len(job[Current].plans)
<1>1. /\ reader.stage \notin {"idle", "faulted"} => D \in Nat /\ P \in Nat
      /\ N \in Nat \ {0}
      /\ reader.stage = "steps" => N <= P
  BY <1>0 DEF Shape, ReaderShape, ReaderRecord, CurrentDone, Current
<1>2. ASSUME reader'.job = reader.job, ~StepDone, reader.stage \notin {"idle", "faulted"}
      PROVE  /\ CurrentDone' = CurrentDone
             /\ CurrentRequest' = CurrentRequest /\ Checked' = Checked
             /\ job'[Current'].plans = job[Current].plans
  BY <1>2, RecordKept DEF Shape, ReaderShape, CurrentDone, CurrentRequest, Checked, Current
<1>3. CASE ~ReaderStep /\ ~ProcessEnds
  <2>1. reader' = reader /\ ~StepDone
    BY <1>3, ReaderKept DEF ReaderStep
  <2>2. CASE reader.stage \in {"idle", "faulted"}
    BY <2>1, <2>2 DEF Positions
  <2> QED BY <1>2, <2>1, <2>2 DEF Positions
<1>4. CASE ProcessEnds
  BY <1>4 DEF ProcessEnds, Positions, ReaderIdle
<1>5. CASE ReaderStep
  <2>1. CASE Dequeue
    <3> DEFINE j == Head(queue)
    <3>1. /\ queue # <<>> /\ job' = [job EXCEPT ![j].state = "RUNNING"]
          /\ reader'.job = j /\ reader'.n = 1
          /\ reader'.stage = IF Request[j].action = "scan" THEN "scan" ELSE "steps"
      BY <2>1 DEF Dequeue, ReaderIdle
    <3>2. 1 \in DOMAIN queue /\ queue[1] = j /\ j \in Job
      BY <3>1 DEF Shape, TypeOK
    <3>3. job[j].done = <<>> /\ job'[j].done = job[j].done
      BY <1>0, <3>1, <3>2 DEF OnceInv, QueuedOnce, JobRecord
    <3> QED BY <3>1, <3>3 DEF Positions, CurrentDone, CurrentRequest, Current
  <2>2. CASE DequeueWithoutRecord \/ ReleaseJob \/ Schedule \/ FinishJob
    <3>1. reader'.stage \in {"faulted", "idle", "release"}
      BY <1>0, <2>2 DEF DequeueWithoutRecord, ReleaseJob, Schedule, FinishJob,
                        ReaderIdle, ReaderRecord
    <3> QED BY <3>1 DEF Positions
  <2>3. CASE ReaderAsks /\ reader' = reader
    <3>1. reader.stage \notin {"idle", "faulted"} /\ job' = job
      BY <2>3 DEF ReaderAsks, StepStart, RefreshStart, CheckStart, Working
    <3> QED BY <2>3, <3>1 DEF Positions, CurrentDone, CurrentRequest, Checked, Current
  <2>4. CASE reader'.stage = "finish"
    BY <2>4 DEF Positions
  <2>5. CASE StepDone
    <3>1. /\ reader.stage = "steps" /\ Current \in Job
          /\ job' = [job EXCEPT ![Current].done = Append(@, call[Reader].plan)]
      BY <2>5, CurrentType DEF StepDone, Working
    <3>2. /\ job'[Current].done = Append(CurrentDone, call[Reader].plan)
          /\ job'[Current].plans = job[Current].plans
          /\ CurrentDone \in Seq(Plan)
      BY <1>0, <3>1 DEF CurrentDone, JobRecord
    <3>3. Len(job'[Current].done) = D + 1
      BY <3>2
    <3>4. CASE reader.n < P /\ ReaderAt("steps", reader.n + 1)
      BY <1>1, <3>1, <3>2, <3>3, <3>4 DEF Positions, ReaderAt, CurrentDone, Current
    <3>5. CASE ~(reader.n < P) /\ ReaderAt(AfterSteps, 1)
      <4>1. D + 1 = P /\ AfterSteps \in {"marks", "refresh", "checks", "close"}
        BY <1>1, <3>1, <3>5, AfterStages DEF Positions
      <4>2. CurrentRequest' = CurrentRequest /\ Checked' = Checked
        BY <3>5 DEF ReaderAt, CurrentRequest, Checked, Current
      <4> QED BY <3>2, <3>3, <3>5, <4>1, <4>2, AfterChecked
              DEF Positions, ReaderAt, CurrentDone, Current
    <3>6. CASE Fails
      BY <3>6 DEF Positions, Fails, ReaderAt
    <3>7. ~ScanEnds /\ ~Close /\ ~Mark /\ ~MarksDone /\ ~RefreshDone /\ ~CheckDone
          /\ ~CheckRead /\ ~ChecksDone
      BY <3>1 DEF ScanEnds, Close, Mark, MarksDone, RefreshDone, CheckDone, CheckRead,
                  ChecksDone, Working
    <3> QED BY <1>5, <2>1, <2>2, <2>3, <3>4, <3>5, <3>6, <3>7, ReaderTurns
  <2>6. ASSUME ~StepDone, NEW stage, NEW n, reader'.job = reader.job,
               reader'.stage = stage, reader'.n = n,
               stage = "refresh" => n = 1, stage = "checks" => Checked,
               reader.stage \in {"marks", "refresh", "checks"},
               stage \in {"marks", "refresh", "checks", "close"}
        PROVE  Positions'
    BY <1>2, <2>6 DEF Positions
  <2>7. CASE Mark /\ ReaderAt("marks", reader.n + 1)
    BY <2>6, <2>7 DEF Mark, StepDone, Working, ReaderAt
  <2>8. CASE MarksDone /\ ReaderAt(AfterMarks, 1)
    BY <2>6, <2>8, AfterStages, AfterChecked DEF MarksDone, StepDone, Working, ReaderAt
  <2>9. CASE RefreshDone /\ ReaderAt(AfterRefresh, reader.n)
    BY <2>6, <2>9, AfterStages, AfterChecked DEF RefreshDone, StepDone, Working, ReaderAt
  <2>10. ASSUME NEW state, NEW eff, CheckDone \/ CheckRead, CheckPassed(state, eff)
         PROVE  Positions'
    BY <2>6, <2>10 DEF CheckDone, CheckRead, StepDone, Working, CheckPassed, Positions
  <2>11. CASE ChecksDone /\ ReaderAt("close", reader.n)
    BY <2>6, <2>11 DEF ChecksDone, StepDone, Working, ReaderAt
  <2>12. ASSUME NEW n, ReaderAt("finish", n) PROVE reader'.stage = "finish"
    BY <2>12 DEF ReaderAt
  <2> QED BY <1>5, <2>1, <2>2, <2>3, <2>4, <2>5, <2>7, <2>8, <2>9, <2>10, <2>11, <2>12,
             ReaderTurns DEF Fails
<1> QED BY <1>3, <1>4, <1>5

-----------------------------------------------------------------------------
(* The runs of the reader's own GPO are written by the reader alone.       *)

\* What the following lemmas build on.
Ground ==
    /\ Shape /\ AccountInv /\ OnceInv /\ BusyOwns
    /\ AskInv /\ PlansInv /\ Positions
\* The workflows that reserve their GPO.
Writing == CurrentRequest.action \in {"apply", "rollback", "refresh"}
OnGpo(p) == GpoOf[p] = GpoOf[job[Current].plans[1]]

\* A run changes by a call for its plan, or by a batch recovery's mark.
LEMMA RunWrites ==
    ASSUME Shape, [Next]_vars, NEW p \in Plan
    PROVE  \/ run'[p] = run[p]
           \/ \E c \in Caller : /\ call[c].plan = p
                                /\ Claim(c) \/ RefreshLive(c) \/ WorkerReturns(c)
           \/ Mark
           \/ Restart
<1>0. run \in [Plan -> RunRecord]
  BY DEF Shape, TypeOK
<1>1. ASSUME NEW j \in Job, Submission(j) \/ FollowStep(j) PROVE run' = run
  BY <1>1 DEF Submission, Validate, EnqueueAccepts, EnqueueRefuses, EnqueueSaveFails,
       SubmitUnchanged, FollowStep, FollowStart, FollowStopped, FollowSkipped,
       FollowFails, FollowMeasured, FollowUnchanged
<1>2. ASSUME NEW c \in Caller, CallStep(c)
      PROVE  \/ run'[p] = run[p]
             \/ call[c].plan = p /\ (Claim(c) \/ RefreshLive(c) \/ WorkerReturns(c))
  <2>1. CASE ClaimBusy(c) \/ ClaimAnswered(c)
    BY <2>1 DEF ClaimBusy, ClaimAnswered
  <2>2. CASE Claim(c)
    BY <1>0, <2>2 DEF Claim, ToWorker
  <2>3. CASE RefreshLive(c)
    BY <1>0, <2>3 DEF RefreshLive
  <2>4. CASE WorkerReturns(c)
    BY <1>0, <2>4 DEF WorkerReturns
  <2> QED BY <1>2, <2>1, <2>2, <2>3, <2>4 DEF CallStep
<1>3. ASSUME NEW c \in Client, ClientStep(c) PROVE run' = run
  BY <1>3 DEF ClientStep, DirectCall, DirectCallAnswered
<1>4. ASSUME ReaderStep, ~Mark PROVE run' = run
  BY <1>4 DEF ReaderStep, Dequeue, DequeueWithoutRecord, ScanEnds, StepStopped,
              StepRefused, StepStart, StepError, StepDone, MarksDone, RefreshStart,
              RefreshDone, CheckStart, CheckDone, CheckRead, ChecksDone, Schedule, Close,
              FinishJob, ReleaseJob
<1>5. ASSUME HostStep, ~Restart PROVE run' = run
  BY <1>5 DEF HostStep, Maintain, EndMaintain, HostStops, Exit, Crash, Recover,
              ProcessEnds, HostUnchanged
<1>6. CASE UNCHANGED vars
  BY <1>6 DEF vars
<1> QED BY <1>1, <1>2, <1>3, <1>4, <1>5, <1>6 DEF Next

\* While the reader has a GPO no other caller changes a run on it.
LEMMA OwnRunKept ==
    ASSUME Ground, [Next]_vars, reader.stage \notin {"idle", "faulted", "release"}, Writing,
           NEW p \in Plan, OnGpo(p), ~Mark,
           ~(CallStep(Reader) /\ call[Reader].plan = p)
    PROVE  run'[p] = run[p]
<1> DEFINE g == GpoOf[p]
<1>1. /\ reader.job \in Job /\ reservations[g] = reader.job
      /\ service \notin {"down", "starting"}
  <2>1. Current \in Job /\ job[Current].plans \in Seq(Plan)
    BY CurrentType DEF Ground, JobRecord
  <2>2. g \in Resources(Current, job[Current].plans)
    BY <2>1 DEF Resources, Writing, CurrentRequest, OnGpo
  <2>3. reservations[g] = reader.job
    BY <2>1, <2>2 DEF Ground, OnceInv, WorkHolds, Current
  <2> QED BY <2>1, <2>3, NoJobAssumption DEF Ground, OnceInv, Rests, Current
<1>2. ~Restart
  BY <1>1 DEF Restart
<1>3. ASSUME NEW c \in Caller, call[c].plan = p, c # Reader,
             Claim(c) \/ RefreshLive(c) \/ WorkerReturns(c)
      PROVE  FALSE
  <2>1. call[c].owner = NoJob
    BY <1>3 DEF Ground, AskInv, CallsOwned
  <2>2. reservations[g] \in {NoJob, call[c].owner}
    <3>1. CASE Claim(c)
      BY <1>3, <3>1 DEF Claim, BeginOperation, CanBegin
    <3>2. CASE RefreshLive(c) \/ WorkerReturns(c)
      BY <1>3, <3>2 DEF RefreshLive, WorkerReturns, Ground, BusyOwns, Busy, GpoOfCall
    <3> QED BY <1>3, <3>1, <3>2
  <2> QED BY <1>1, <2>1, <2>2, NoJobAssumption
<1>4. ~(Shape /\ call[Reader].plan = p /\
          (Claim(Reader) \/ RefreshLive(Reader) \/ WorkerReturns(Reader)))
  BY DEF CallStep
<1> QED BY <1>2, <1>3, <1>4, RunWrites DEF Ground

\* The plan that the reader asks about is on its GPO, and so is whatever it completed.
LEMMA DoneOnGpo ==
    ASSUME Ground, reader.stage \notin {"idle", "faulted"}, NEW i \in DOMAIN CurrentDone
    PROVE  CurrentDone[i] \in Plan /\ OnGpo(CurrentDone[i])
<1>1. Current \in Job /\ job[Current].done \in Seq(Plan)
  BY CurrentType DEF Ground, JobRecord
<1> QED BY <1>1 DEF Ground, PlansInv, DonePlans, OnGpo, CurrentDone

\* What the reader asks for is on the GPO its job has reserved.
LEMMA AskedOnGpo ==
    ASSUME Ground, call[Reader].pc # "idle"
    PROVE  /\ call[Reader].plan \in Plan /\ OnGpo(call[Reader].plan)
           /\ reader.stage \in {"steps", "refresh", "checks"}
           /\ Current \in Job /\ call[Reader].owner = Current
<1>1. /\ reader.stage \in {"steps", "refresh", "checks"}
      /\ call[Reader].owner = Current
  BY DEF Ground, AskInv, ReaderAsked, Current
<1>2. /\ Current \in Job /\ job[Current] \in JobRecord /\ job[Current].state # "none"
      /\ reader.n \in Nat \ {0} /\ CurrentDone \in Seq(Plan)
      /\ reader.stage = "steps" => reader.n \in DOMAIN job[Current].plans
      /\ reader.stage \in {"refresh", "checks"} => CurrentDone # <<>>
  BY <1>1, CurrentType DEF Ground, Shape, ReaderShape, ReaderRecord, Current,
                           JobRecord, CurrentDone
<1>3. CASE reader.stage = "steps"
  <2>1. call[Reader].plan = StepPlan
    BY <1>3 DEF Ground, AskInv, ReaderAsked
  <2>2. job[Current].plans[reader.n] \in Plan /\ OnGpo(job[Current].plans[reader.n])
    BY <1>2, <1>3 DEF Ground, PlansInv, AcceptedPlans, OneGpo, OnGpo, JobRecord
  <2> QED BY <1>1, <1>2, <2>1, <2>2, PlanAssumption DEF StepPlan, OnGpo
<1>4. CASE reader.stage = "refresh"
  <2>1. call[Reader].plan = CurrentDone[Len(CurrentDone)]
    BY <1>4 DEF Ground, AskInv, ReaderAsked
  <2>2. Len(CurrentDone) \in DOMAIN CurrentDone
    BY <1>2, <1>4
  <2> QED BY <1>1, <1>2, <2>1, <2>2, DoneOnGpo
<1>5. CASE reader.stage = "checks"
  <2>1. call[Reader].plan = CurrentDone[reader.n] /\ reader.n <= Len(CurrentDone)
    BY <1>5 DEF Ground, AskInv, ReaderAsked
  <2>2. reader.n \in DOMAIN CurrentDone
    BY <1>2, <1>5, <2>1
  <2> QED BY <1>1, <1>2, <2>1, <2>2, DoneOnGpo
<1> QED BY <1>1, <1>3, <1>4, <1>5

-----------------------------------------------------------------------------
(* What the reader is told is what the record says, until it asks again.   *)

\* An answer that is no error was written, or read, under the claim.
LEMMA AnswerIsRecord ==
    ASSUME Shape, NEW c \in Caller, CallStep(c),
           call'[c].pc = "done", call'[c].res \notin Error
    PROVE  /\ call[c].plan \in Plan
           /\ run'[call[c].plan].state = call'[c].res
           /\ run'[call[c].plan].eff = call'[c].eff
           /\ \/ call[c].op = "apply" /\ run' = run
              \/ /\ call[c].pc = "running"
                 /\ run'[call[c].plan] \in Outcomes(c, call[c].plan)
                 /\ Learn(call[c].plan, call'[c].res)
<1> DEFINE p == call[c].plan
<1>1. /\ call \in [Caller -> CallRecord] /\ run \in [Plan -> RunRecord]
      /\ call[c].pc # "idle" /\ p \in Plan
  BY CallGoes DEF Shape, TypeOK, CallShape
<1>2. ASSUME NEW res, NEW eff, call' = [call EXCEPT ![c] = Answer(c, res, eff)]
      PROVE  call'[c].res = res /\ call'[c].eff = eff
  BY <1>1, <1>2 DEF Answer, CallRecord
<1>3. CASE ClaimBusy(c)
  BY <1>2, <1>3 DEF ClaimBusy, Error
<1>4. CASE ClaimAnswered(c)
  <2>1. CASE /\ AnswersUnderClaim(call[c].op, p)
            /\ call' = [call EXCEPT ![c] = Answer(c, run[p].state, run[p].eff)]
    BY <1>1, <1>2, <1>4, <2>1 DEF ClaimAnswered, AnswersUnderClaim
  <2>2. CASE call' = [call EXCEPT ![c] = Answer(c, "REFUSED", "PENDING")]
    BY <1>2, <2>2 DEF Error
  <2> QED BY <1>4, <2>1, <2>2 DEF ClaimAnswered
<1>5. CASE Claim(c)
  BY <1>1, <1>5 DEF Claim, ToWorker, CallRecord
<1>6. CASE RefreshLive(c)
  <2>1. CASE call' = [call EXCEPT ![c] = Answer(c, "REFUSED", "PENDING")]
    BY <1>2, <2>1 DEF Error
  <2>2. ASSUME NEW live, call' = [call EXCEPT ![c].pc = "running", ![c].res = live]
        PROVE  FALSE
    BY <1>1, <2>2 DEF CallRecord
  <2> QED BY <1>6, <2>1, <2>2 DEF RefreshLive
<1>7. CASE WorkerReturns(c)
  <2>1. PICK out \in Outcomes(c, p) :
          /\ run' = [run EXCEPT ![p] = out]
          /\ call' = [call EXCEPT ![c] = Answer(c, out.state, out.eff)]
          /\ Learn(p, out.state)
    BY <1>7 DEF WorkerReturns
  <2> QED BY <1>1, <1>2, <1>7, <2>1 DEF WorkerReturns
<1> QED BY <1>3, <1>4, <1>5, <1>6, <1>7 DEF CallStep

\* How an invocation gets to its worker run.
LEMMA GoesToWorker ==
    ASSUME Shape, NEW c \in Caller, CallStep(c), call'[c].pc \in {"live", "running"}
    PROVE  /\ call[c].plan \in Plan /\ call'[c].pc # call[c].pc
           /\ \/ /\ Claim(c) /\ call[c].op = "refresh" /\ call'[c].pc = "live"
                 /\ run' = run
              \/ /\ Claim(c) /\ call[c].op # "refresh" /\ call'[c].pc = "running"
                 /\ run'[call[c].plan].state = Started(call[c].op)
                 /\ call[c].op = "apply" => run[call[c].plan].state = "none"
              \/ /\ call[c].pc = "live" /\ call'[c].pc = "running"
                 /\ run'[call[c].plan].state = Started("refresh")
                 /\ \E live \in VerifyResults(call[c].plan) :
                        /\ live.state \in Published \cup {"ROLLED_BACK"}
                        /\ call'[c].res = live.state
<1> DEFINE p == call[c].plan
<1>1. /\ call \in [Caller -> CallRecord] /\ run \in [Plan -> RunRecord]
      /\ call[c].pc # "idle" /\ p \in Plan
  BY CallGoes DEF Shape, TypeOK, CallShape
<1>2. ASSUME NEW res, NEW eff, call' = [call EXCEPT ![c] = Answer(c, res, eff)]
      PROVE  FALSE
  BY <1>1, <1>2 DEF Answer, CallRecord
<1>3. CASE ClaimBusy(c) \/ ClaimAnswered(c) \/ WorkerReturns(c)
  BY <1>2, <1>3 DEF ClaimBusy, ClaimAnswered, WorkerReturns
<1>4. CASE Claim(c)
  <2>1. CASE call[c].op = "refresh"
    BY <1>1, <1>4, <2>1 DEF Claim, CallRecord
  <2>2. CASE call[c].op # "refresh"
    <3>1. /\ run' = [run EXCEPT ![p].state = Started(call[c].op)]
          /\ call' = [call EXCEPT ![c].pc = "running"]
          /\ call[c].pc = "checked"
          /\ call[c].op = "apply" => run[p].state = "none"
      BY <1>4, <2>2 DEF Claim, ToWorker, AnswersUnderClaim
    <3> QED BY <1>1, <1>4, <2>2, <3>1 DEF CallRecord, RunRecord
  <2> QED BY <2>1, <2>2
<1>5. CASE RefreshLive(c)
  <2>1. call[c].pc = "live"
    BY <1>5 DEF RefreshLive
  <2>2. PICK live \in VerifyResults(p) :
          /\ live.state \in Published \cup {"ROLLED_BACK"}
          /\ run' = [run EXCEPT ![p] = [live EXCEPT !.state = Started("refresh")]]
          /\ call' = [call EXCEPT ![c].pc = "running", ![c].res = live.state]
    BY <1>2, <1>5 DEF RefreshLive
  <2>3. live \in RunRecord
    BY <1>1, VerifyResultsType DEF Final
  <2>4. run'[p].state = Started("refresh")
    BY <1>1, <2>2, <2>3 DEF RunRecord
  <2>5. call'[c].pc = "running" /\ call'[c].res = live.state
    BY <1>1, <2>2 DEF CallRecord
  <2> QED BY <1>1, <2>1, <2>2, <2>4, <2>5
<1> QED BY <1>3, <1>4, <1>5 DEF CallStep

LiveIsRefresh == call[Reader].pc = "live" => call[Reader].op = "refresh"
RunningRecord ==
    call[Reader].pc = "running" /\ Writing =>
        run[call[Reader].plan].state = Started(call[Reader].op)
AnswerStands ==
    call[Reader].pc = "done" /\ call[Reader].res \notin Error /\ Writing =>
        /\ run[call[Reader].plan].state = call[Reader].res
        /\ run[call[Reader].plan].eff = call[Reader].eff
VerifyAnswers ==
    /\ call[Reader].pc = "done" /\ call[Reader].op = "verify"
    /\ call[Reader].res \notin Error /\ call[Reader].eff = "VERIFIED"
    => call[Reader].res \in Published \cup Unsure
AnswerInv == LiveIsRefresh /\ RunningRecord /\ AnswerStands /\ VerifyAnswers

\* What becomes of the reader's question in a step.
LEMMA QuestionSteps ==
    ASSUME Ground, [Next]_vars, call'[Reader].pc # "idle"
    PROVE  \/ /\ ReaderAsks /\ call[Reader].pc = "idle"
              /\ \/ call'[Reader].pc = "checked"
                 \/ call'[Reader].pc = "done" /\ call'[Reader].res \in Error
           \/ /\ call'[Reader] = call[Reader] /\ ~CallStep(Reader) /\ ~Mark
              /\ reader' = reader /\ Writing' = Writing
           \/ /\ CallStep(Reader) /\ reader' = reader /\ Writing' = Writing
<1>1. /\ CallIdle.pc = "idle" /\ Reader \in Caller /\ call \in [Caller -> CallRecord]
      /\ Shape /\ ReaderAsked
  BY DEF CallIdle, Caller, Ground, Shape, TypeOK, AskInv
<1>2. CASE ReaderAsks
  BY <1>1, <1>2, InvokeWrites DEF ReaderAsks, StepStart, RefreshStart, CheckStart
<1>3. CASE ~ReaderAsks
  <2>1. ~ProcessEnds /\ ~ReaderHearsAnswer
    BY <1>1 DEF ReaderHearsAnswer, StepError, StepDone, RefreshDone, CheckDone, HangUp,
                ProcessEnds
  <2>2. call'[Reader] = call[Reader] \/ CallStep(Reader)
    BY <1>1, <1>3, <2>1, CallerAssumption, CallWrites
  <2>3. call[Reader].pc # "idle"
    BY <1>1, <2>2, CallGoes
  <2>4. reader' = reader /\ Writing' = Writing
    BY <1>1, <2>3, ReaderWaits DEF Writing, CurrentRequest
  <2>5. ~Mark
    BY <2>3, AskedOnGpo DEF Mark, Working
  <2> QED BY <2>2, <2>4, <2>5
<1> QED BY <1>2, <1>3

\* An answer the reader has not read yet still says what the run says.
LEMMA NextAnswers == ASSUME Ground, AnswerInv, [Next]_vars PROVE AnswerInv'
<1>1. CASE call'[Reader].pc = "idle"
  BY <1>1 DEF AnswerInv, LiveIsRefresh, RunningRecord, AnswerStands, VerifyAnswers
<1>2. CASE ReaderAsks /\ \/ call'[Reader].pc = "checked"
                         \/ call'[Reader].pc = "done" /\ call'[Reader].res \in Error
  BY <1>2 DEF AnswerInv, LiveIsRefresh, RunningRecord, AnswerStands, VerifyAnswers
<1>3. CASE /\ call'[Reader].pc # "idle" /\ call'[Reader] = call[Reader]
           /\ ~CallStep(Reader) /\ ~Mark /\ reader' = reader /\ Writing' = Writing
  <2>1. Writing => run'[call[Reader].plan] = run[call[Reader].plan]
    BY <1>3, AskedOnGpo, OwnRunKept
  <2> QED BY <1>3, <2>1 DEF AnswerInv, LiveIsRefresh, RunningRecord, AnswerStands,
                            VerifyAnswers
<1>4. CASE CallStep(Reader) /\ reader' = reader /\ Writing' = Writing
  <2>1. /\ Reader \in Caller /\ Shape
        /\ call'[Reader].op = call[Reader].op /\ call'[Reader].plan = call[Reader].plan
    BY <1>4, CallGoes DEF Caller, Ground
  <2>2. LiveIsRefresh' /\ RunningRecord'
    BY <1>4, <2>1, GoesToWorker DEF AnswerInv, LiveIsRefresh, RunningRecord
  <2>3. AnswerStands'
    BY <1>4, <2>1, AnswerIsRecord DEF AnswerStands
  <2>4. VerifyAnswers'
    <3> SUFFICES ASSUME call'[Reader].pc = "done", call[Reader].op = "verify",
                        call'[Reader].res \notin Error, call'[Reader].eff = "VERIFIED"
                 PROVE  call'[Reader].res \in Published \cup Unsure
      BY <2>1 DEF VerifyAnswers
    <3> DEFINE p == call[Reader].plan
               out == run'[p]
    <3>1. /\ out \in Outcomes(Reader, p)
          /\ out.state = call'[Reader].res /\ out.eff = "VERIFIED"
      BY <1>4, <2>1, AnswerIsRecord
    <3>2. out \in Failures("verify", p) \cup VerifyResults(p)
      BY <3>1 DEF Outcomes
    <3>3. CASE out \in Failures("verify", p)
      BY <3>1, <3>3 DEF Failures, Unsure
    <3>4. CASE out \in VerifyResults(p)
      BY <3>1, <3>4 DEF VerifyResults, Unsure, Published
    <3> QED BY <3>2, <3>3, <3>4
  <2> QED BY <2>2, <2>3, <2>4 DEF AnswerInv
<1> QED BY <1>1, <1>2, <1>3, <1>4, QuestionSteps

-----------------------------------------------------------------------------
(* A batch is applied operation by operation.                              *)

\* While the reader applies, every operation that it completed is published.
StepsPublished ==
    reader.stage = "steps" /\ CurrentRequest.action = "apply" =>
        \A i \in DOMAIN CurrentDone : run[CurrentDone[i]].state \in Published

\* A step in which the reader stays where it is.
LEMMA ReaderStays ==
    ASSUME Ground, [Next]_vars, reader' = reader,
           reader.stage \notin {"idle", "faulted", "release"}
    PROVE  /\ CurrentDone' = CurrentDone /\ CurrentRequest' = CurrentRequest
           /\ job'[Current].plans = job[Current].plans
           /\ ~Mark /\ ~StepDone /\ Current \in Job
<1>0. reader.n + 1 # reader.n
  BY DEF Ground, Shape, TypeOK, ReaderRecord
<1>1. Current \in Job /\ job[Current].state # "none" /\ reader \in ReaderRecord
  BY CurrentType DEF Ground
<1>2. ~Mark
  <2> SUFFICES ASSUME Mark PROVE FALSE
    OBVIOUS
  <2>1. reader' = [reader EXCEPT !.n = reader.n + 1]
    BY DEF Mark
  <2> QED BY <1>0, <2>1, MovesTo DEF ReaderAt, Ground
<1>3. ~StepDone
  <2> SUFFICES ASSUME StepDone PROVE FALSE
    OBVIOUS
  <2>1. reader.stage = "steps"
    BY DEF StepDone, Working
  <2>2. CASE reader' = Closing("NEEDS_REVIEW")
    BY <2>1, <2>2, ClosingAt DEF ReaderAt, Ground
  <2>3. CASE reader' = [reader EXCEPT !.n = reader.n + 1]
    BY <1>0, <2>3, MovesTo DEF ReaderAt, Ground
  <2>4. CASE reader' = [reader EXCEPT !.n = 1, !.stage = AfterSteps]
    BY <1>1, <2>1, <2>4, AfterStages DEF ReaderRecord
  <2> QED BY <2>2, <2>3, <2>4 DEF StepDone
<1> QED BY <1>1, <1>2, <1>3, RecordKept DEF Ground, CurrentDone, CurrentRequest, Current

\* The steps done so far are published, after any step.
LEMMA NextStepsPublished ==
    ASSUME Ground, AnswerInv, StepsPublished, [Next]_vars PROVE StepsPublished'
<1> SUFFICES ASSUME reader'.stage = "steps", CurrentRequest'.action = "apply"
             PROVE  \A i \in DOMAIN CurrentDone' : run'[CurrentDone'[i]].state \in Published
  BY DEF StepsPublished
<1>1. CASE reader' = reader
  <2>1. /\ CurrentDone' = CurrentDone /\ ~Mark
        /\ reader.stage = "steps" /\ CurrentRequest.action = "apply"
    BY <1>1, ReaderStays
  <2> SUFFICES ASSUME NEW i \in DOMAIN CurrentDone
               PROVE  run'[CurrentDone[i]].state \in Published
    BY <2>1
  <2> DEFINE p == CurrentDone[i]
  <2>2. p \in Plan /\ OnGpo(p) /\ run[p].state \in Published /\ Writing
    BY <2>1, DoneOnGpo DEF StepsPublished, Writing
  <2>3. CASE ~(CallStep(Reader) /\ call[Reader].plan = p)
    <3>1. run'[p] = run[p]
      BY <2>1, <2>2, <2>3, OwnRunKept
    <3> QED BY <2>2, <3>1
  <2>4. CASE CallStep(Reader) /\ call[Reader].plan = p
    <3>1. Reader \in Caller /\ Shape /\ call[Reader].pc # "idle"
      BY <2>4, CallGoes DEF Caller, Ground
    <3>2. call[Reader].op = "apply"
      BY <2>1, <3>1 DEF Ground, AskInv, ReaderAsked
    <3>3. /\ call[Reader].pc # "live"
          /\ call[Reader].pc = "running" => run[p].state = "APPLYING"
      BY <2>2, <2>4, <3>2 DEF AnswerInv, LiveIsRefresh, RunningRecord, Started
    <3>4. ~WorkerReturns(Reader) /\ ~RefreshLive(Reader)
      BY <2>2, <3>3 DEF WorkerReturns, RefreshLive, Published
    <3>5. ~Claim(Reader)
      BY <2>2, <2>4, <3>2 DEF Claim, AnswersUnderClaim, Published
    <3>6. run' = run
      BY <2>4, <3>4, <3>5 DEF CallStep, ClaimBusy, ClaimAnswered
    <3> QED BY <2>2, <3>6
  <2> QED BY <2>3, <2>4
<1>2. CASE ReaderStep /\ Dequeue
  <2> DEFINE j == Head(queue)
  <2>1. /\ queue # <<>> /\ job' = [job EXCEPT ![j].state = "RUNNING"]
        /\ reader'.job = j
    BY <1>2 DEF Dequeue, ReaderIdle
  <2>2. 1 \in DOMAIN queue /\ queue[1] = j /\ j \in Job
    BY <2>1 DEF Ground, Shape, TypeOK
  <2>3. job[j].done = <<>> /\ job'[j].done = job[j].done
    BY <2>1, <2>2 DEF Ground, OnceInv, QueuedOnce, Shape, TypeOK, JobRecord
  <2> QED BY <2>1, <2>3 DEF CurrentDone, Current
<1>3. CASE StepDone /\ PassesStep(CurrentRequest.action, call[Reader].res)
  <2>1. /\ reader.stage = "steps" /\ call[Reader].pc = "done" /\ run' = run
        /\ call[Reader].res \notin Error
        /\ job' = [job EXCEPT ![Current].done = Append(@, call[Reader].plan)]
    BY <1>3 DEF StepDone, Working, ReaderAnswered
  <2>2. Current \in Job /\ job[Current] \in JobRecord
    BY <2>1, CurrentType DEF Ground
  <2>3. reader'.job = reader.job
    <3>1. ReaderStep /\ reader.stage = "steps"
      BY <1>3, <2>1 DEF ReaderStep
    <3> QED BY <3>1, ReaderKinds DEF Working, Ground, ReaderGoesOn, Dequeue,
                             DequeueWithoutRecord, Schedule, FinishJob, ReleaseJob
  <2>4. /\ CurrentDone' = Append(CurrentDone, call[Reader].plan)
        /\ CurrentRequest.action = "apply" /\ CurrentDone \in Seq(Plan)
    BY <2>1, <2>2, <2>3 DEF CurrentDone, CurrentRequest, Current, JobRecord, Ground,
                            Shape, TypeOK
  <2>5. run[call[Reader].plan].state \in Published
    BY <1>3, <2>1, <2>4 DEF AnswerInv, AnswerStands, Writing, PassesStep, StopsStep
  <2>6. \A i \in DOMAIN CurrentDone' :
          \/ i \in DOMAIN CurrentDone /\ CurrentDone'[i] = CurrentDone[i]
          \/ CurrentDone'[i] = call[Reader].plan
    BY <2>4
  <2> QED BY <2>1, <2>4, <2>5, <2>6 DEF StepsPublished
<1>4. CASE ReaderStep /\ reader' # reader /\ ~Dequeue
           /\ ~(StepDone /\ PassesStep(CurrentRequest.action, call[Reader].res))
  <2>1. ReaderAsks => reader' = reader
    BY DEF ReaderAsks, StepStart, RefreshStart, CheckStart
  <2>2. AfterSteps # "steps" /\ AfterMarks # "steps" /\ AfterRefresh # "steps"
    BY AfterStages
  <2>3. ~DequeueWithoutRecord /\ ~Schedule /\ ~FinishJob /\ ~ReleaseJob
    BY DEF DequeueWithoutRecord, Schedule, FinishJob, ReleaseJob, ReaderIdle, Ground,
           Shape, TypeOK, ReaderRecord
  <2> QED BY <1>4, <2>1, <2>2, <2>3, ReaderTurns DEF ReaderAt, Fails, CheckPassed, Ground
<1>5. CASE ProcessEnds
  BY <1>5 DEF ProcessEnds, ReaderIdle
<1> QED BY <1>1, <1>2, <1>3, <1>4, <1>5, ReaderKept DEF ReaderStep

-----------------------------------------------------------------------------
(* A workflow is completed on what its checks measured.                    *)

Good(p) == \/ run[p].state = "ROLLED_BACK"
           \/ run[p].state \in Published /\ run[p].eff = "VERIFIED"
Asked(p) == call[Reader].pc # "idle" /\ call[Reader].plan = p
MeasuredOnce ==
    CurrentRequest.action \in {"apply", "refresh"} /\ CurrentRequest.rounds = 0
\* The operations that were checked, or all of them once the workflow completes.
ChecksMeasured ==
    /\ reader.stage = "checks" /\ ~reader.pending /\ MeasuredOnce =>
         \A i \in DOMAIN CurrentDone :
             i < reader.n => Good(CurrentDone[i]) \/ Asked(CurrentDone[i])
    /\ \/ reader.stage = "close" /\ ~reader.pending /\ MeasuredOnce
       \/ reader.stage = "finish" /\ reader.outcome = "COMPLETED" /\ MeasuredOnce
       => \A i \in DOMAIN CurrentDone : Good(CurrentDone[i])

\* A check that the reader passed found its operation good.
LEMMA PassedIsGood ==
    ASSUME Ground, AnswerInv, MeasuredOnce, CheckDone,
           CheckPassed(call[Reader].res, call[Reader].eff), ~reader'.pending
    PROVE  /\ ~reader.pending /\ reader.n \in DOMAIN CurrentDone
           /\ call[Reader].plan = CurrentDone[reader.n]
           /\ Good(call[Reader].plan)
<1>1. /\ reader.stage = "checks" /\ call[Reader].pc = "done"
      /\ call[Reader].res \notin Error /\ Writing
  BY DEF CheckDone, Working, ReaderAnswered, MeasuredOnce, Writing
<1>2. /\ call[Reader].op = "verify" /\ call[Reader].plan = CurrentDone[reader.n]
      /\ reader.n <= Len(CurrentDone)
  BY <1>1 DEF Ground, AskInv, ReaderAsked
<1>3. reader.n \in DOMAIN CurrentDone
  <2>1. CurrentDone \in Seq(Plan) /\ reader.n \in Nat \ {0}
    BY <1>1, CurrentType DEF Ground, JobRecord, ReaderRecord, CurrentDone
  <2> QED BY <1>2, <2>1
<1>4. /\ run[call[Reader].plan].state = call[Reader].res
      /\ run[call[Reader].plan].eff = call[Reader].eff
      /\ call[Reader].eff = "VERIFIED" => call[Reader].res \in Published \cup Unsure
  BY <1>1, <1>2 DEF AnswerInv, AnswerStands, VerifyAnswers
<1>5. /\ ~reader.pending
      /\ \/ call[Reader].res = "ROLLED_BACK"
         \/ call[Reader].res \notin Unsure /\ call[Reader].eff = "VERIFIED"
  BY DEF CheckPassed, Contradicts
<1> QED BY <1>2, <1>3, <1>4, <1>5 DEF Good

\* The operations of the reader's workflow, in a step that moves the reader and
\* neither completes nor marks one.
LEMMA ReaderGoesDone ==
    ASSUME Ground, [Next]_vars, reader'.job = reader.job, ~StepDone,
           reader.stage \notin {"idle", "faulted"}
    PROVE  CurrentDone' = CurrentDone /\ CurrentRequest' = CurrentRequest
<1>1. Current \in Job /\ job[Current].state # "none"
  BY CurrentType DEF Ground
<1> QED BY <1>1, RecordKept DEF Ground, CurrentDone, CurrentRequest, Current

\* What was measured stays so while the reader stays.
LEMMA MeasuredStays ==
    ASSUME Ground, ChecksMeasured, [Next]_vars, reader' = reader PROVE ChecksMeasured'
<1> SUFFICES ASSUME reader.stage \in {"checks", "close", "finish"}
             PROVE  ChecksMeasured'
  BY DEF ChecksMeasured
<1>1. CurrentDone' = CurrentDone /\ CurrentRequest' = CurrentRequest /\ ~Mark
  BY ReaderStays
<1>2. MeasuredOnce' = MeasuredOnce
  BY <1>1 DEF MeasuredOnce
<1>3. ASSUME NEW p \in Plan, OnGpo(p), MeasuredOnce, Good(p) \/ Asked(p)
      PROVE  /\ Good(p)' \/ Asked(p)'
             /\ reader.stage \in {"close", "finish"} => Good(p)'
  <2>0. Writing
    BY <1>3 DEF MeasuredOnce, Writing
  <2>1. CASE CallStep(Reader) /\ call[Reader].plan = p
    <3>1. /\ Reader \in Caller /\ call[Reader].pc # "idle" /\ call'[Reader].pc # "idle"
          /\ call'[Reader].plan = p
      BY <2>1, CallGoes DEF Caller, Ground
    <3>2. reader.stage = "checks"
      BY <3>1, AskedOnGpo
    <3> QED BY <3>1, <3>2 DEF Asked
  <2>2. CASE Good(p) /\ ~(CallStep(Reader) /\ call[Reader].plan = p)
    <3>1. run'[p] = run[p]
      BY <1>1, <1>3, <2>0, <2>2, OwnRunKept
    <3> QED BY <2>2, <3>1 DEF Good
  <2>3. CASE Asked(p) /\ ~(CallStep(Reader) /\ call[Reader].plan = p)
    <3>1. call[Reader].pc # "idle" /\ call[Reader].plan = p /\ ~CallStep(Reader)
      BY <2>3 DEF Asked
    <3>2. reader.stage = "checks"
      BY <3>1, AskedOnGpo
    <3>3. ~ReaderHearsAnswer /\ ~ReaderAsks
      <4>1. ~ReaderAsks
        BY <3>1 DEF ReaderAsks, StepStart, RefreshStart, CheckStart, Invoke
      <4>2. reader.n + 1 # reader.n
        BY DEF Ground, Shape, TypeOK, ReaderRecord
      <4>3. ~ReaderHearsAnswer
        BY <3>2, <4>2, ReaderTurns, ClosingAt, MeasuredMoves
           DEF ReaderHearsAnswer, StepError, StepDone, RefreshDone, CheckDone, Working,
               ReaderAt, CheckPassed, Fails, Ground
      <4> QED BY <4>1, <4>3
    <3>4. ~ProcessEnds
      BY <3>2 DEF ProcessEnds, ReaderIdle
    <3>5. call'[Reader] = call[Reader]
      BY <3>1, <3>3, <3>4, CallWrites, CallerAssumption DEF Caller, Ground
    <3> QED BY <3>1, <3>2, <3>5 DEF Asked
  <2> QED BY <1>3, <2>1, <2>2, <2>3
<1>4. \A i \in DOMAIN CurrentDone : CurrentDone[i] \in Plan /\ OnGpo(CurrentDone[i])
  BY DoneOnGpo
<1>5. ASSUME NEW i \in DOMAIN CurrentDone, MeasuredOnce,
             Good(CurrentDone[i]) \/ Asked(CurrentDone[i])
      PROVE  /\ Good(CurrentDone[i])' \/ Asked(CurrentDone[i])'
             /\ reader.stage \in {"close", "finish"} => Good(CurrentDone[i])'
  <2>1. PICK p \in Plan : p = CurrentDone[i] /\ OnGpo(p)
    BY <1>4, <1>5
  <2> QED BY <1>1, <1>3, <1>5, <2>1 DEF Good, Asked
<1> QED BY <1>1, <1>2, <1>5 DEF ChecksMeasured, Good, Asked

\* The checks done so far were measured, after any step.
LEMMA NextChecksMeasured ==
    ASSUME Ground, AnswerInv, ChecksMeasured, [Next]_vars PROVE ChecksMeasured'
<1>0. reader \in ReaderRecord /\ Shape
  BY DEF Ground, Shape, TypeOK
<1>1. CASE reader' = reader
  BY <1>1, MeasuredStays
<1>2. CASE ProcessEnds
  BY <1>2 DEF ProcessEnds, ReaderIdle, ChecksMeasured
<1>3. ASSUME ReaderStep, reader'.stage \notin {"checks", "close", "finish"}
      PROVE  ChecksMeasured'
  BY <1>3 DEF ChecksMeasured
<1>4. CASE Dequeue \/ DequeueWithoutRecord \/ Schedule \/ FinishJob \/ ReleaseJob
  <2>1. reader'.stage \notin {"checks", "close", "finish"}
    <3>1. CASE Dequeue
      <4>1. reader' \in {[ReaderIdle EXCEPT !.job = Head(queue), !.stage = stage] :
                           stage \in {"scan", "steps"}}
        BY <3>1 DEF Dequeue
      <4> QED BY <4>1 DEF ReaderIdle
    <3>2. CASE ~Dequeue
      BY <1>0, <1>4, <3>2 DEF DequeueWithoutRecord, Schedule, FinishJob, ReleaseJob,
                              ReaderIdle, ReaderRecord
    <3> QED BY <3>1, <3>2
  <2> QED BY <2>1 DEF ChecksMeasured
<1>5. CASE ScanEnds /\ ReaderAt("finish", reader.n)
  <2>1. reader.stage = "scan"
    BY <1>5 DEF ScanEnds, Working
  <2>2. CurrentRequest.action = "scan"
    BY <2>1 DEF Ground, Positions
  <2>3. CurrentRequest' = CurrentRequest
    BY <1>5 DEF ReaderAt, CurrentRequest, Current
  <2>4. ~MeasuredOnce'
    BY <2>2, <2>3 DEF MeasuredOnce
  <2> QED BY <2>4 DEF ChecksMeasured
<1>6. CASE Fails
  BY <1>6 DEF Fails, ReaderAt, ChecksMeasured
<1>7. CASE Close /\ ReaderAt("finish", reader.n)
           /\ (reader'.outcome = "COMPLETED" => ~reader.pending)
  <2>1. reader.stage = "close" /\ run' = run /\ ~StepDone
    BY <1>7 DEF Close, Working, StepDone
  <2>2. CurrentDone' = CurrentDone /\ CurrentRequest' = CurrentRequest
    BY <1>7, <2>1, ReaderGoesDone DEF ReaderAt
  <2>3. MeasuredOnce' = MeasuredOnce
    BY <2>2 DEF MeasuredOnce
  <2>4. reader'.stage = "finish"
    BY <1>7 DEF ReaderAt
  <2>5. reader'.outcome = "COMPLETED" /\ MeasuredOnce' =>
           \A i \in DOMAIN CurrentDone : Good(CurrentDone[i])
    BY <1>7, <2>1, <2>3 DEF ChecksMeasured
  <2>6. (reader'.outcome = "COMPLETED" /\ MeasuredOnce') =>
           \A i \in DOMAIN CurrentDone' :
              \/ run'[CurrentDone'[i]].state = "ROLLED_BACK"
              \/ /\ run'[CurrentDone'[i]].state \in Published
                 /\ run'[CurrentDone'[i]].eff = "VERIFIED"
    BY <2>1, <2>2, <2>5 DEF Good
  <2> QED BY <2>4, <2>6 DEF ChecksMeasured, Good
\* The checks begin at the first operation, and an apply or a refresh has them.
<1>8. ASSUME reader'.job = reader.job, reader'.n = 1, reader'.stage # "finish",
             reader'.stage = "close" => ~Checked
      PROVE  ChecksMeasured'
  <2>1. CurrentRequest' = CurrentRequest
    BY <1>8 DEF CurrentRequest, Current
  <2>2. MeasuredOnce' => Checked
    BY <2>1 DEF MeasuredOnce, Checked
  <2>3. CASE reader'.stage = "checks"
    <3>1. CurrentDone' \in Seq(Plan)
      <4>1. reader'.job \in Job /\ job' \in [Job -> JobRecord]
        <5>1. Shape'
          BY <1>0, NextShape
        <5> QED BY <2>3, <5>1 DEF Shape, TypeOK, ReaderShape
      <4> QED BY <4>1 DEF CurrentDone, Current, JobRecord
    <3>2. ~\E i \in DOMAIN CurrentDone' : i < 1
      BY <3>1
    <3> QED BY <1>8, <2>3, <3>2 DEF ChecksMeasured
  <2>4. CASE reader'.stage # "checks"
    BY <1>8, <2>2, <2>4 DEF ChecksMeasured
  <2> QED BY <2>3, <2>4
<1>9. CASE StepDone /\ ReaderAt(AfterSteps, 1)
  <2>1. AfterSteps = "close" => ~Checked
    <3>1. CurrentRequest.source # NoJob => CurrentRequest.action = "rollback"
      BY <1>9, CurrentType, RequestAssumption DEF StepDone, Working, Ground, CurrentRequest
    <3> QED BY <3>1 DEF AfterSteps, AfterMarks, AfterRefresh, Checked
  <2> QED BY <1>8, <1>9, <2>1, AfterStages DEF ReaderAt
<1>10. CASE MarksDone /\ ReaderAt(AfterMarks, 1)
  <2>1. AfterMarks = "close" => ~Checked
    BY DEF AfterMarks, AfterRefresh
  <2> QED BY <1>8, <1>10, <2>1, AfterStages DEF ReaderAt
<1>11. CASE RefreshDone /\ ReaderAt(AfterRefresh, reader.n)
  <2>1. reader.n = 1 /\ (AfterRefresh = "close" => ~Checked)
    BY <1>11 DEF AfterRefresh, RefreshDone, Working, Ground, Positions
  <2> QED BY <1>8, <1>11, <2>1, AfterStages DEF ReaderAt
<1>12. CASE CheckDone /\ CheckPassed(call[Reader].res, call[Reader].eff)
  <2>1. /\ reader.stage = "checks" /\ run' = run /\ ~StepDone /\ call[Reader].pc = "done"
        /\ reader'.job = reader.job /\ reader'.stage = "checks"
        /\ reader'.n = reader.n + 1
    BY <1>12 DEF CheckDone, Working, StepDone, CheckPassed, ReaderAnswered
  <2>2. CurrentDone' = CurrentDone /\ CurrentRequest' = CurrentRequest
    BY <2>1, ReaderGoesDone
  <2>3. MeasuredOnce' = MeasuredOnce
    BY <2>2 DEF MeasuredOnce
  <2> SUFFICES ASSUME ~reader'.pending, MeasuredOnce, NEW i \in DOMAIN CurrentDone,
                      i < reader.n + 1
               PROVE  Good(CurrentDone[i])
    BY <2>1, <2>2, <2>3 DEF ChecksMeasured, Good
  <2>4. /\ ~reader.pending /\ reader.n \in DOMAIN CurrentDone
        /\ call[Reader].plan = CurrentDone[reader.n] /\ Good(call[Reader].plan)
    BY <1>12, PassedIsGood
  <2>5. i < reader.n \/ i = reader.n
    <3>1. CurrentDone \in Seq(Plan) /\ reader.n \in Nat
      BY <1>0, <2>1, CurrentType DEF JobRecord, ReaderRecord, CurrentDone
    <3> QED BY <3>1
  <2>6. CASE i < reader.n
    <3>1. Good(CurrentDone[i]) \/ Asked(CurrentDone[i])
      BY <2>1, <2>4, <2>6 DEF ChecksMeasured
    <3> QED BY <2>4, <3>1 DEF Asked
  <2> QED BY <2>4, <2>5, <2>6
<1>13. ASSUME CheckRead, NEW state, NEW eff, CheckPassed(state, eff)
       PROVE  ChecksMeasured'
  <2>1. CurrentRequest' = CurrentRequest /\ CurrentRequest.action = "verify"
    BY <1>13 DEF CheckRead, CheckPassed, CurrentRequest, Current
  <2>2. ~MeasuredOnce'
    BY <2>1 DEF MeasuredOnce
  <2> QED BY <2>2 DEF ChecksMeasured
<1>14. CASE ChecksDone /\ ReaderAt("close", reader.n)
  <2>1. /\ reader.stage = "checks" /\ run' = run /\ ~StepDone /\ call[Reader].pc = "idle"
        /\ reader.n > Len(CurrentDone)
        /\ reader'.stage = "close" /\ reader'.pending = reader.pending
    BY <1>14 DEF ChecksDone, Working, StepDone, ReaderFree, ReaderAt
  <2>2. CurrentDone' = CurrentDone /\ CurrentRequest' = CurrentRequest
    BY <1>14, <2>1, ReaderGoesDone DEF ReaderAt
  <2>3. MeasuredOnce' = MeasuredOnce
    BY <2>2 DEF MeasuredOnce
  <2>4. ASSUME NEW i \in DOMAIN CurrentDone, ~reader.pending, MeasuredOnce
        PROVE  Good(CurrentDone[i])
    <3>1. i < reader.n
      <4>1. CurrentDone \in Seq(Plan) /\ reader.n \in Nat
        BY <1>0, <2>1, CurrentType DEF JobRecord, ReaderRecord, CurrentDone
      <4> QED BY <2>1, <4>1
    <3> QED BY <2>1, <2>4, <3>1 DEF ChecksMeasured, Asked
  <2> QED BY <2>1, <2>2, <2>3, <2>4 DEF ChecksMeasured, Good
<1>15. CASE StepDone /\ ReaderAt("steps", reader.n + 1)
  BY <1>15 DEF ReaderAt, ChecksMeasured
<1>16. CASE Mark /\ ReaderAt("marks", reader.n + 1)
  BY <1>16 DEF ReaderAt, ChecksMeasured
<1>17. CASE ReaderStep
  BY <1>0, <1>1, <1>4, <1>5, <1>6, <1>7, <1>9, <1>10, <1>11, <1>12, <1>13, <1>14, <1>15,
     <1>16, <1>17, ReaderTurns
<1> QED BY <1>1, <1>2, <1>17, ReaderKept

-----------------------------------------------------------------------------
(* A batch recovery covers its batch.                                      *)

\* A record that says that its plan was restored is never said before the DC was.
RestoredKnown == \A p \in Plan : run[p].state = "ROLLED_BACK" => restored[p] = "yes"

\* What is known of a restore is not forgotten.
LEMMA LearnKeeps ==
    ASSUME Shape, NEW p \in Plan, NEW state, Learn(p, state)
    PROVE  /\ \A q \in Plan : restored[q] = "yes" => restored'[q] = "yes"
           /\ state = "ROLLED_BACK" => restored'[p] = "yes"
  BY DEF Learn, Shape, TypeOK

\* A plan that was restored stays restored, after any step.
LEMMA RestoredStays ==
    ASSUME Shape, [Next]_vars, NEW p \in Plan, restored[p] = "yes"
    PROVE  restored'[p] = "yes"
<1>1. ASSUME NEW j \in Job, Submission(j) \/ FollowStep(j) PROVE restored' = restored
  BY <1>1 DEF Submission, Validate, EnqueueAccepts, EnqueueRefuses, EnqueueSaveFails,
       SubmitUnchanged, FollowStep, FollowStart, FollowStopped, FollowSkipped,
       FollowFails, FollowMeasured, FollowUnchanged, historyVars
<1>2. ASSUME NEW c \in Caller, CallStep(c) PROVE restored'[p] = "yes"
  <2>1. call[c].plan \in Plan
    BY <1>2, CallGoes DEF Shape, CallShape
  <2>2. CASE ClaimBusy(c) \/ ClaimAnswered(c)
    BY <2>2 DEF ClaimBusy, ClaimAnswered
  <2>3. CASE Claim(c)
    BY <2>3 DEF Claim, ToWorker, Shape, TypeOK
  <2>4. CASE RefreshLive(c)
    BY <2>1, <2>4, LearnKeeps DEF RefreshLive
  <2>5. CASE WorkerReturns(c)
    BY <2>1, <2>5, LearnKeeps DEF WorkerReturns
  <2> QED BY <1>2, <2>2, <2>3, <2>4, <2>5 DEF CallStep
<1>3. ASSUME NEW c \in Client, ClientStep(c) PROVE restored' = restored
  BY <1>3 DEF ClientStep, DirectCall, DirectCallAnswered
<1>4. ASSUME ReaderStep PROVE restored' = restored
  BY <1>4 DEF ReaderStep, Dequeue, DequeueWithoutRecord, ScanEnds, StepStopped,
              StepRefused, StepStart, StepError, StepDone, Mark, MarksDone, RefreshStart,
              RefreshDone, CheckStart, CheckDone, CheckRead, ChecksDone, Schedule, Close,
              FinishJob, ReleaseJob, ReaderUnchanged, historyVars
<1>5. ASSUME HostStep PROVE restored' = restored
  BY <1>5 DEF HostStep, Maintain, EndMaintain, HostStops, Exit, Crash, Restart, Recover,
              ProcessEnds, HostUnchanged, historyVars
<1>6. CASE UNCHANGED vars
  BY <1>6 DEF vars
<1> QED BY <1>1, <1>2, <1>3, <1>4, <1>5, <1>6 DEF Next

\* A run that says it is rolled back was restored, after any step.
LEMMA NextRestoredKnown ==
    ASSUME Shape, RestoredKnown, [Next]_vars PROVE RestoredKnown'
<1> SUFFICES ASSUME NEW p \in Plan, run'[p].state = "ROLLED_BACK"
             PROVE  restored'[p] = "yes"
  BY DEF RestoredKnown
<1>0. run \in [Plan -> RunRecord]
  BY DEF Shape, TypeOK
<1>1. CASE run'[p] = run[p]
  BY <1>1, RestoredStays DEF RestoredKnown
<1>2. ASSUME NEW c \in Caller, call[c].plan = p, Claim(c) PROVE run'[p] = run[p]
  <2>1. call[c].pc = "checked" /\ call[c].op \in Operation
    BY <1>2 DEF Claim, Shape, CallShape
  <2>2. CASE call[c].op = "refresh"
    BY <1>2, <2>2 DEF Claim
  <2>3. CASE call[c].op # "refresh"
    <3>1. run' = [run EXCEPT ![p].state = Started(call[c].op)]
      BY <1>2, <2>3 DEF Claim, ToWorker
    <3>2. run'[p].state = Started(call[c].op)
      BY <1>0, <3>1 DEF RunRecord
    <3>3. Started(call[c].op) # "ROLLED_BACK"
      BY <2>1 DEF Started, Operation
    <3> QED BY <3>2, <3>3
  <2> QED BY <2>2, <2>3
<1>3. ASSUME NEW c \in Caller, call[c].plan = p, RefreshLive(c), run'[p] # run[p]
      PROVE  restored'[p] = "yes"
  <2>1. PICK live \in VerifyResults(p) :
          /\ Learn(p, live.state)
          /\ \/ run' = [run EXCEPT ![p] = [live EXCEPT !.state = Started("refresh")]]
             \/ run' = [run EXCEPT ![p] = live]
    BY <1>3 DEF RefreshLive
  <2>2. live \in RunRecord
    BY VerifyResultsType DEF Final
  <2>3. CASE run' = [run EXCEPT ![p] = [live EXCEPT !.state = Started("refresh")]]
    BY <1>0, <2>2, <2>3 DEF RunRecord, Started
  <2>4. CASE run' = [run EXCEPT ![p] = live]
    BY <1>0, <2>1, <2>4, LearnKeeps
  <2> QED BY <2>1, <2>3, <2>4
<1>4. ASSUME NEW c \in Caller, call[c].plan = p, WorkerReturns(c)
      PROVE  restored'[p] = "yes"
  <2>1. PICK out : run' = [run EXCEPT ![p] = out] /\ Learn(p, out.state)
    BY <1>4 DEF WorkerReturns
  <2> QED BY <1>0, <2>1, LearnKeeps
<1>5. CASE Mark
  <2>1. \/ run' = run
        \/ \E q : run' = [run EXCEPT ![q].state = "BATCH_ROLLED_BACK", ![q].eff = "PENDING"]
    BY <1>5 DEF Mark
  <2>2. ASSUME NEW q, q # p,
               run' = [run EXCEPT ![q].state = "BATCH_ROLLED_BACK", ![q].eff = "PENDING"]
        PROVE  run'[p] = run[p]
    BY <1>0, <2>2
  <2>3. ASSUME run' = [run EXCEPT ![p].state = "BATCH_ROLLED_BACK", ![p].eff = "PENDING"]
        PROVE  FALSE
    BY <1>0, <2>3 DEF RunRecord
  <2> QED BY <1>1, <2>1, <2>2, <2>3
<1>6. CASE Restart
  <2>1. \/ run'[p] = run[p] \/ run'[p] = [run[p] EXCEPT !.state = "REVIEW_REQUIRED"]
    BY <1>6 DEF Restart
  <2> QED BY <1>0, <1>1, <2>1 DEF RunRecord
<1> QED BY <1>1, <1>2, <1>3, <1>4, <1>5, <1>6, RunWrites

Back == {"ROLLED_BACK", "BATCH_ROLLED_BACK"}
Recovering == CurrentRequest.source # NoJob
RefreshOutcome ==
    /\ call[Reader].pc = "running" => call[Reader].res = "ROLLED_BACK"
    /\ /\ call[Reader].pc = "done" /\ call[Reader].res \notin Error
       /\ PassesStep("refresh", call[Reader].res)
       => call[Reader].res = "ROLLED_BACK"
\* What a batch recovery has restored or marked so far.
Marked ==
    /\ reader.stage = "marks" =>
         /\ run[CurrentDone[1]].state = "ROLLED_BACK"
         /\ \A i \in DOMAIN Batch : i < reader.n => run[Batch[i]].state \in Back
    /\ reader.stage = "refresh" /\ Recovering =>
         /\ restored[CurrentDone[1]] = "yes"
         /\ \A i \in DOMAIN Batch :
                Batch[i] = CurrentDone[1] \/ run[Batch[i]].state \in Back
         /\ RefreshOutcome
    /\ \/ reader.stage = "close" /\ Recovering
       \/ reader.stage = "finish" /\ reader.outcome = "COMPLETED" /\ Recovering
       => \A i \in DOMAIN Batch : run[Batch[i]].state \in Back

\* The batch that a recovery works on is on the GPO that the recovery holds.
LEMMA BatchOnGpo ==
    ASSUME Ground, reader.stage \notin {"idle", "faulted"}, Recovering
    PROVE  /\ Writing /\ ~Checked /\ CurrentRequest.action = "rollback"
           /\ Batch \in Seq(Plan)
           /\ \A i \in DOMAIN Batch : Batch[i] \in Plan /\ OnGpo(Batch[i])
           /\ Len(job[Current].plans) = 1
           /\ CurrentRequest.source \in Job \ {Current}
           /\ job[CurrentRequest.source].state # "none"
<1> DEFINE s == CurrentRequest.source
<1>1. /\ Current \in Job /\ job[Current].state # "none" /\ s \in Job
      /\ CurrentRequest.action = "rollback"
  BY CurrentType, RequestAssumption DEF Ground, Recovering, CurrentRequest
<1>2. FromBatch(Current, job[Current].plans)
  BY <1>1 DEF Ground, PlansInv, AcceptedPlans
<1>3. /\ Request[s].action = "apply" /\ job[s].state # "none"
      /\ Len(job[Current].plans) = 1
      /\ GpoOf[job[Current].plans[1]] = GpoOf[job[s].plans[1]]
  BY <1>1, <1>2 DEF FromBatch, Recovering, CurrentRequest
<1>4. Batch \in Seq(Plan)
  BY <1>1 DEF Batch, Ground, Shape, TypeOK, JobRecord
<1>5. \A i \in DOMAIN Batch : Batch[i] \in Plan /\ OnGpo(Batch[i])
  BY <1>1, <1>3, <1>4 DEF Ground, PlansInv, DonePlans, Batch, OnGpo
<1>6. s # Current
  BY <1>1, <1>3 DEF CurrentRequest
<1> QED BY <1>1, <1>3, <1>4, <1>5, <1>6 DEF Writing, Checked

\* A batch that is being recovered keeps its plans.
LEMMA BatchKept ==
    ASSUME Ground, [Next]_vars, reader.stage \notin {"idle", "faulted"}, Recovering,
           reader'.job = reader.job
    PROVE  Batch' = Batch /\ Recovering' = Recovering
<1>1. /\ CurrentRequest.source \in Job \ {Current}
      /\ job[CurrentRequest.source].state # "none"
  BY BatchOnGpo
<1>2. CurrentRequest' = CurrentRequest
  BY DEF CurrentRequest, Current
<1>3. job'[CurrentRequest.source].done = job[CurrentRequest.source].done
  BY <1>1, RecordKept DEF Ground, Current
<1> QED BY <1>2, <1>3 DEF Batch, Recovering

\* Once it has restored its operation, a recovery has completed one operation.
LEMMA OneRestored ==
    ASSUME Ground, Recovering, reader.stage \in {"marks", "refresh", "checks", "close"}
    PROVE  /\ CurrentDone \in Seq(Plan) /\ Len(CurrentDone) = 1
           /\ CurrentDone[1] \in Plan /\ OnGpo(CurrentDone[1])
<1>1. CurrentDone \in Seq(Plan)
  BY CurrentType DEF Ground, JobRecord, CurrentDone
<1>2. Len(CurrentDone) = 1
  BY BatchOnGpo DEF Ground, Positions
<1> QED BY <1>1, <1>2, DoneOnGpo

\* A recovery's refresh passes only with its member rolled back, after any step.
LEMMA NextRefreshOutcome ==
    ASSUME Ground, [Next]_vars, Recovering, reader.stage = "refresh", reader' = reader,
           RefreshOutcome, restored[CurrentDone[1]] = "yes"
    PROVE  RefreshOutcome'
<1>1. CASE call'[Reader].pc = "idle"
  BY <1>1 DEF RefreshOutcome
<1>2. CASE \/ call'[Reader].pc = "checked"
           \/ call'[Reader].pc = "done" /\ call'[Reader].res \in Error
  BY <1>2 DEF RefreshOutcome
<1>3. CASE call'[Reader] = call[Reader]
  BY <1>3 DEF RefreshOutcome
<1>4. CASE CallStep(Reader)
  <2> DEFINE p == call[Reader].plan
  <2>1. /\ Reader \in Caller /\ Shape /\ call[Reader].pc # "idle"
        /\ call'[Reader].pc \in {"live", "running", "done"}
    BY <1>4, CallGoes DEF Caller, Ground
  <2>2. p = CurrentDone[1] /\ call[Reader].op = "refresh"
    BY <2>1, OneRestored DEF Ground, AskInv, ReaderAsked
  <2>3. CASE call'[Reader].pc = "live"
    BY <2>3 DEF RefreshOutcome
  <2>4. CASE call'[Reader].pc = "running"
    <3>1. PICK live \in VerifyResults(p) :
            /\ live.state \in Published \cup {"ROLLED_BACK"}
            /\ call'[Reader].res = live.state
      BY <1>4, <2>1, <2>2, <2>4, GoesToWorker
    <3>2. live.state = "ROLLED_BACK"
      BY <2>2, <3>1 DEF VerifyResults, Published, Unsure
    <3> QED BY <2>4, <3>1, <3>2 DEF RefreshOutcome
  <2>5. CASE call'[Reader].pc = "done" /\ call'[Reader].res \notin Error
    <3>1. /\ call[Reader].pc = "running" /\ run'[p] \in Outcomes(Reader, p)
          /\ run'[p].state = call'[Reader].res
      BY <1>4, <2>1, <2>2, <2>5, AnswerIsRecord
    <3>2. call[Reader].res = "ROLLED_BACK"
      BY <3>1 DEF RefreshOutcome
    <3>3. run'[p].state \in {"REVIEW_REQUIRED", "ROLLED_BACK", "DRIFT_DETECTED"}
      BY <2>2, <3>1, <3>2 DEF Outcomes, Failures, RefreshResults
    <3> QED BY <2>5, <3>1, <3>3 DEF RefreshOutcome, PassesStep, Unsure
  <2> QED BY <1>2, <2>1, <2>3, <2>4, <2>5
<1> QED BY <1>1, <1>2, <1>3, <1>4, QuestionSteps

\* Steps of others leave the marks of a recovery as they are.
LEMMA MarkedStays ==
    ASSUME Ground, Marked, [Next]_vars, reader' = reader PROVE Marked'
<1> SUFFICES ASSUME reader.stage \in {"marks", "refresh", "close", "finish"}, Recovering
             PROVE  Marked'
  <2>1. CurrentRequest' = CurrentRequest
    BY DEF CurrentRequest, Current
  <2>2. Recovering' = Recovering
    BY <2>1 DEF Recovering
  <2>3. reader.stage = "marks" => Recovering
    BY DEF Ground, Shape, ReaderShape, Recovering, CurrentRequest, Current
  <2> QED BY <2>2, <2>3 DEF Marked
<1>1. /\ Batch' = Batch /\ Recovering' = Recovering /\ CurrentDone' = CurrentDone
      /\ ~Mark /\ Writing
  BY ReaderStays, BatchKept, BatchOnGpo
<1>2. \A i \in DOMAIN Batch : Batch[i] \in Plan /\ OnGpo(Batch[i])
  BY BatchOnGpo
<1>3. ASSUME CallStep(Reader)
      PROVE  reader.stage = "refresh" /\ call[Reader].plan = CurrentDone[1]
  <2>1. call[Reader].pc # "idle"
    BY <1>3, CallGoes DEF Caller, Ground
  <2>2. reader.stage = "refresh"
    BY <2>1, AskedOnGpo
  <2> QED BY <2>1, <2>2, OneRestored DEF Ground, AskInv, ReaderAsked
<1>4. ASSUME NEW p \in Plan, OnGpo(p), reader.stage = "refresh" => p # CurrentDone[1]
      PROVE  run'[p] = run[p]
  BY <1>1, <1>3, <1>4, OwnRunKept
<1>5. CASE reader.stage = "marks"
  <2>1. CurrentDone[1] \in Plan /\ OnGpo(CurrentDone[1])
    BY <1>5, OneRestored
  <2>2. run'[CurrentDone[1]] = run[CurrentDone[1]]
    BY <1>4, <1>5, <2>1
  <2>3. \A i \in DOMAIN Batch : run'[Batch[i]] = run[Batch[i]]
    BY <1>2, <1>4, <1>5
  <2> QED BY <1>1, <1>5, <2>2, <2>3 DEF Marked
<1>6. CASE reader.stage = "refresh"
  <2>1. CurrentDone[1] \in Plan
    BY <1>6, OneRestored
  <2>2. restored[CurrentDone[1]] = "yes" /\ RefreshOutcome
    BY <1>6 DEF Marked
  <2>3. restored'[CurrentDone[1]] = "yes"
    BY <2>1, <2>2, RestoredStays DEF Ground
  <2>4. RefreshOutcome'
    BY <1>6, <2>2, NextRefreshOutcome
  <2>5. ASSUME NEW i \in DOMAIN Batch
        PROVE  Batch[i] = CurrentDone[1] \/ run'[Batch[i]].state \in Back
    BY <1>2, <1>4, <1>6, <2>5 DEF Marked
  <2> QED BY <1>1, <1>6, <2>3, <2>4, <2>5 DEF Marked
<1>7. CASE reader.stage \in {"close", "finish"}
  <2>1. \A i \in DOMAIN Batch : run'[Batch[i]] = run[Batch[i]]
    BY <1>2, <1>4, <1>7
  <2> QED BY <1>1, <1>7, <2>1 DEF Marked
<1> QED BY <1>5, <1>6, <1>7

\* One record is marked: the restored operation keeps its own.
LEMMA MarkMarks ==
    ASSUME Ground, Marked, [Next]_vars, Mark, ReaderAt("marks", reader.n + 1)
    PROVE  Marked'
<1>1. /\ reader.stage = "marks" /\ reader.n <= Len(Batch) /\ Recovering /\ ~StepDone
  BY DEF Mark, Working, Ground, Shape, ReaderShape, Recovering, CurrentRequest, Current,
         StepDone
<1>2. /\ Batch' = Batch /\ CurrentDone' = CurrentDone
      /\ Batch \in Seq(Plan) /\ \A i \in DOMAIN Batch : Batch[i] \in Plan
      /\ run \in [Plan -> RunRecord] /\ reader.n \in Nat \ {0}
  BY <1>1, BatchKept, BatchOnGpo, ReaderGoesDone DEF ReaderAt, Ground, Shape, TypeOK,
                                                     ReaderRecord
<1>3. reader.n \in DOMAIN Batch /\ CurrentDone[1] \in Plan
  BY <1>1, <1>2, OneRestored
<1> DEFINE p == Batch[reader.n]
<1>4. /\ run[CurrentDone[1]].state = "ROLLED_BACK"
      /\ \A i \in DOMAIN Batch : i < reader.n => run[Batch[i]].state \in Back
  BY <1>1 DEF Marked
<1>5. /\ run'[CurrentDone[1]].state = "ROLLED_BACK"
      /\ run'[p].state \in Back
      /\ \A q \in Plan : run[q].state \in Back => run'[q].state \in Back
  <2>1. CASE Spared(p)
    BY <1>3, <1>4, <2>1 DEF Mark, Spared, Back
  <2>2. CASE ~Spared(p)
    <3>1. run' = [run EXCEPT ![p].state = "BATCH_ROLLED_BACK", ![p].eff = "PENDING"]
      BY <2>2 DEF Mark
    <3>2. p # CurrentDone[1] /\ p \in Plan
      BY <1>2, <1>3, <2>2 DEF Spared
    <3>3. run'[p].state = "BATCH_ROLLED_BACK" /\ \A q \in Plan \ {p} : run'[q] = run[q]
      BY <1>2, <3>1, <3>2 DEF RunRecord
    <3> QED BY <1>3, <1>4, <3>2, <3>3 DEF Back
  <2> QED BY <2>1, <2>2
<1>6. ASSUME NEW i \in DOMAIN Batch, i < reader.n + 1 PROVE run'[Batch[i]].state \in Back
  <2>1. i < reader.n \/ i = reader.n
    BY <1>2, <1>6
  <2> QED BY <1>2, <1>4, <1>5, <1>6, <2>1
<1> QED BY <1>2, <1>5, <1>6 DEF Marked, ReaderAt

\* The restore itself succeeded.
LEMMA StepDoneMarks ==
    ASSUME Ground, AnswerInv, [Next]_vars, StepDone, ReaderAt(AfterSteps, 1),
           PassesStep(CurrentRequest.action, call[Reader].res)
    PROVE  Marked'
<1>1. /\ reader.stage = "steps" /\ call[Reader].pc = "done" /\ run' = run
      /\ call[Reader].res \notin Error
      /\ job' = [job EXCEPT ![Current].done = Append(@, call[Reader].plan)]
  BY DEF StepDone, Working, ReaderAnswered
<1>2. CurrentRequest' = CurrentRequest /\ Recovering' = Recovering
  BY DEF ReaderAt, CurrentRequest, Current, Recovering
<1>3. CASE ~Recovering
  <2>1. reader'.stage # "marks"
    BY <1>3, AfterStages DEF Recovering, ReaderAt
  <2> QED BY <1>2, <1>3, <2>1 DEF Marked
<1>4. CASE Recovering
  <2>1. /\ Current \in Job /\ CurrentDone \in Seq(Plan) /\ reader.n \in Nat \ {0}
        /\ reader.n <= Len(job[Current].plans) /\ Len(CurrentDone) = reader.n - 1
        /\ job[Current] \in JobRecord
    BY <1>1, CurrentType DEF Ground, JobRecord, CurrentDone, ReaderRecord, Shape,
                             ReaderShape, Positions, Current
  <2>2. /\ Len(job[Current].plans) = 1 /\ Writing /\ CurrentRequest.action = "rollback"
        /\ Batch \in Seq(Plan)
    BY <1>1, <1>4, BatchOnGpo
  <2>3. CurrentDone = <<>>
    BY <2>1, <2>2
  <2>4. CurrentDone' = <<call[Reader].plan>>
    <3>1. job'[Current].done = Append(<<>>, call[Reader].plan)
      BY <1>1, <2>1, <2>3, Zenon DEF CurrentDone, JobRecord, Ground, Shape, TypeOK
    <3> QED BY <3>1 DEF CurrentDone, Current, ReaderAt
  <2>5. run[call[Reader].plan].state = "ROLLED_BACK"
    BY <1>1, <2>2 DEF AnswerInv, AnswerStands, PassesStep, StopsStep
  <2>6. reader'.stage = "marks" /\ reader'.n = 1
    BY <1>4 DEF ReaderAt, AfterSteps, Recovering
  <2>7. Batch' = Batch
    BY <1>1, <1>4, BatchKept DEF ReaderAt
  <2>8. ~\E i \in DOMAIN Batch : i < 1
    BY <2>2
  <2> QED BY <1>1, <2>4, <2>5, <2>6, <2>7, <2>8 DEF Marked
<1> QED BY <1>3, <1>4

\* Every record of the batch is marked when the recovery leaves the marks, and its
\* refresh leaves the restored operation restored.
LEMMA MarksDoneMarks ==
    ASSUME Ground, RestoredKnown, Marked, [Next]_vars, MarksDone, ReaderAt(AfterMarks, 1)
    PROVE  Marked'
<1>1. /\ reader.stage = "marks" /\ reader.n > Len(Batch) /\ run' = run
      /\ call' = call /\ restored' = restored /\ ~StepDone /\ Recovering
  BY DEF MarksDone, Working, StepDone, ReaderUnchanged, historyVars, Ground, Shape,
         ReaderShape, Recovering, CurrentRequest, Current
<1>2. /\ Batch' = Batch /\ CurrentDone' = CurrentDone
      /\ Batch \in Seq(Plan) /\ reader.n \in Nat
  BY <1>1, BatchKept, BatchOnGpo, ReaderGoesDone DEF ReaderAt, Ground, Shape, TypeOK,
                                                     ReaderRecord
<1>3. \A i \in DOMAIN Batch : run[Batch[i]].state \in Back
  <2>1. \A i \in DOMAIN Batch : i < reader.n
    BY <1>1, <1>2
  <2> QED BY <1>1, <2>1 DEF Marked
<1>4. restored[CurrentDone[1]] = "yes"
  BY <1>1, OneRestored DEF Marked, RestoredKnown
<1>5. call[Reader].pc = "idle"
  BY <1>1, AskedOnGpo
<1>6. reader'.stage # "marks"
  BY AfterStages DEF ReaderAt
<1> QED BY <1>1, <1>2, <1>3, <1>4, <1>5, <1>6 DEF Marked, RefreshOutcome

\* A refresh that passes after the marks leaves the whole batch rolled back.
LEMMA RefreshDoneMarks ==
    ASSUME Ground, AnswerInv, Marked, [Next]_vars, RefreshDone,
           ReaderAt(AfterRefresh, reader.n), PassesStep("refresh", call[Reader].res)
    PROVE  Marked'
<1>1. /\ reader.stage = "refresh" /\ run' = run /\ ~StepDone
      /\ call[Reader].pc = "done" /\ call[Reader].res \notin Error
  BY DEF RefreshDone, Working, StepDone, ReaderAnswered
<1>2. reader'.stage \in {"checks", "close"}
  BY AfterStages DEF ReaderAt
<1>3. CASE ~Recovering
  <2>1. Recovering' = Recovering
    BY DEF ReaderAt, CurrentRequest, Current, Recovering
  <2> QED BY <1>2, <1>3, <2>1 DEF Marked
<1>4. CASE Recovering
  <2>1. Batch' = Batch /\ Writing
    BY <1>1, <1>4, BatchKept, BatchOnGpo DEF ReaderAt
  <2>2. call[Reader].plan = CurrentDone[1]
    BY <1>1, <1>4, OneRestored DEF Ground, AskInv, ReaderAsked
  <2>3. run[CurrentDone[1]].state = "ROLLED_BACK"
    BY <1>1, <1>4, <2>1, <2>2 DEF Marked, RefreshOutcome, AnswerInv, AnswerStands
  <2>4. \A i \in DOMAIN Batch : run[Batch[i]].state \in Back
    BY <1>1, <1>4, <2>3 DEF Marked, Back
  <2> QED BY <1>1, <1>2, <2>1, <2>4 DEF Marked
<1> QED BY <1>3, <1>4

\* The members a recovery has passed are marked, after any step.
LEMMA NextMarked ==
    ASSUME Ground, AnswerInv, RestoredKnown, Marked, [Next]_vars PROVE Marked'
<1>0. reader \in ReaderRecord /\ Shape
  BY DEF Ground, Shape, TypeOK
<1>1. CASE reader' = reader
  BY <1>1, MarkedStays
<1>2. CASE ProcessEnds
  BY <1>2 DEF ProcessEnds, ReaderIdle, Marked
<1>3. ASSUME reader'.stage \notin {"marks", "refresh", "close", "finish"}
      PROVE  Marked'
  BY <1>3 DEF Marked
<1>4. CASE Dequeue \/ DequeueWithoutRecord \/ Schedule \/ FinishJob \/ ReleaseJob
  <2>1. CASE Dequeue
    <3>1. reader' \in {[ReaderIdle EXCEPT !.job = Head(queue), !.stage = stage] :
                         stage \in {"scan", "steps"}}
      BY <2>1 DEF Dequeue
    <3>2. reader'.stage \in {"scan", "steps"}
      BY <3>1 DEF ReaderIdle
    <3> QED BY <1>3, <3>2
  <2>2. CASE ~Dequeue
    <3>1. reader'.stage \in {"faulted", "idle", "release"}
      BY <1>0, <1>4, <2>2 DEF DequeueWithoutRecord, Schedule, FinishJob, ReleaseJob,
                              ReaderIdle, ReaderRecord
    <3> QED BY <1>3, <3>1
  <2> QED BY <2>1, <2>2
<1>5. CASE ScanEnds /\ ReaderAt("finish", reader.n)
  <2>1. CurrentRequest.action = "scan"
    BY <1>5 DEF ScanEnds, Working, Ground, Positions
  <2>2. ~Recovering
    BY <1>5, <2>1, BatchOnGpo DEF ScanEnds, Working
  <2>3. Recovering' = Recovering /\ reader'.stage = "finish"
    BY <1>5 DEF ReaderAt, Recovering, CurrentRequest, Current
  <2> QED BY <2>2, <2>3 DEF Marked
<1>6. CASE Fails
  BY <1>6 DEF Fails, ReaderAt, Marked
<1>7. ASSUME reader.stage = "close", run' = run, ReaderAt("finish", reader.n)
      PROVE  Marked'
  <2>1. Recovering' = Recovering /\ reader'.stage = "finish"
    BY <1>7 DEF ReaderAt, Recovering, CurrentRequest, Current
  <2>2. Recovering => Batch' = Batch
    BY <1>7, BatchKept DEF ReaderAt
  <2> QED BY <1>7, <2>1, <2>2 DEF Marked
<1>8. CASE StepDone /\ ReaderAt("steps", reader.n + 1)
  BY <1>3, <1>8 DEF ReaderAt
<1>9. CASE (CheckDone /\ CheckPassed(call[Reader].res, call[Reader].eff))
           \/ \E state, eff : CheckPassed(state, eff)
  BY <1>3, <1>9 DEF CheckPassed
\* A recovery has no checks.
<1>10. CASE ChecksDone /\ ReaderAt("close", reader.n)
  <2>1. Checked /\ reader.stage = "checks"
    BY <1>10 DEF ChecksDone, Working, Ground, Positions
  <2>2. ~Recovering
    BY <2>1, BatchOnGpo
  <2>3. Recovering' = Recovering /\ reader'.stage = "close"
    BY <1>10 DEF ReaderAt, Recovering, CurrentRequest, Current
  <2> QED BY <2>2, <2>3 DEF Marked
<1>11. CASE Close /\ ReaderAt("finish", reader.n)
  BY <1>7, <1>11 DEF Close, Working
<1>12. CASE ReaderStep
  BY <1>0, <1>1, <1>4, <1>5, <1>6, <1>8, <1>9, <1>10, <1>11, <1>12, MarkMarks,
     MarksDoneMarks, RefreshDoneMarks, StepDoneMarks, ReaderTurns
<1> QED BY <1>1, <1>2, <1>12, ReaderKept

-----------------------------------------------------------------------------
(* The theorems about the reader's answers.                                *)

\* What the reader is told, has published, has measured and has marked.
OutcomeInv ==
    /\ AskInv /\ PlansInv /\ Positions /\ AnswerInv
    /\ StepsPublished /\ ChecksMeasured /\ RestoredKnown /\ Marked

\* At the start nothing has an outcome.
LEMMA InitOutcome == Init => OutcomeInv
<1> SUFFICES ASSUME Init PROVE OutcomeInv
  OBVIOUS
<1>1. /\ reader = ReaderIdle /\ call = [c \in Caller |-> CallIdle] /\ validated = {}
      /\ job = [j \in Job |-> NoRecord] /\ run = [p \in Plan |-> NoRun]
  BY DEF Init
<1>2. reader.stage = "idle" /\ call[Reader].pc = "idle"
  BY <1>1 DEF ReaderIdle, CallIdle, Caller
<1>3. AskInv
  BY <1>1, <1>2 DEF AskInv, CallsOwned, ReaderAsked, CallIdle
<1>4. PlansInv
  BY <1>1 DEF PlansInv, SubmittedPlans, AcceptedPlans, DonePlans, NoRecord
<1>5. RestoredKnown
  BY <1>1 DEF RestoredKnown, NoRun
<1>6. Positions /\ StepsPublished /\ ChecksMeasured /\ Marked
  BY <1>2 DEF Positions, StepsPublished, ChecksMeasured, Marked
<1>7. AnswerInv
  BY <1>2 DEF AnswerInv, LiveIsRefresh, RunningRecord, AnswerStands, VerifyAnswers
<1> QED BY <1>3, <1>4, <1>5, <1>6, <1>7 DEF OutcomeInv

\* Every step keeps the outcomes.
LEMMA NextOutcome ==
    ASSUME IInv, AccountInv, OnceInv, OutcomeInv, [Next]_vars PROVE OutcomeInv'
<1>1. Ground /\ Shape
  BY DEF IInv, OutcomeInv, Ground
<1>2. AskInv'
  BY <1>1, NextCallsOwned, NextReaderAsked DEF OutcomeInv, AskInv
<1>3. PlansInv' /\ Positions'
  BY <1>1, NextPlans, NextPositions DEF OutcomeInv, AskInv
<1>4. AnswerInv' /\ StepsPublished' /\ ChecksMeasured' /\ RestoredKnown' /\ Marked'
  BY <1>1, NextAnswers, NextStepsPublished, NextChecksMeasured, NextRestoredKnown,
     NextMarked DEF OutcomeInv
<1> QED BY <1>2, <1>3, <1>4 DEF OutcomeInv

\* Without a failing save, what the reader knows of the runs is true in every state.
THEOREM OutcomeInductive == ASSUME ~DbMayFail PROVE Spec => []OutcomeInv
<1>1. IInv /\ AccountInv /\ OnceInv /\ OutcomeInv /\ [Next]_vars => OutcomeInv'
  BY NextOutcome
<1> QED BY <1>1, InitOutcome, Inductive, AccountInductive, OnceInductive, PTL DEF Spec

\* A batch writes its next operation only while each operation that it completed is
\* published, whatever other requests, tasks, stops and restarts do meanwhile
\* (WorkspaceWorkflows.cs:128-145).
THEOREM BatchStepsArePublished ==
    ASSUME ~DbMayFail PROVE Spec => []BatchStepsFollowPublished
<1>1. OutcomeInv => BatchStepsFollowPublished
  <2> SUFFICES ASSUME OutcomeInv, Busy(Reader), call[Reader].op = "apply"
               PROVE  \A i \in DOMAIN CurrentDone : run[CurrentDone[i]].state \in Published
    BY DEF BatchStepsFollowPublished
  <2>1. reader.stage = "steps" /\ CurrentRequest.action = "apply"
    BY DEF Busy, OutcomeInv, AskInv, ReaderAsked
  <2> QED BY <2>1 DEF OutcomeInv, StepsPublished
<1> QED BY <1>1, OutcomeInductive, PTL

\* The only step that completes a running workflow, and what it leaves alone.
LEMMA CompletingStep ==
    ASSUME ~DbMayFail, Shape, AccountInv, OnceInv, [Next]_vars, NEW j \in Job,
           job[j].state = "RUNNING", job'[j].state \in {"COMPLETED", "VERIFY_SCHEDULED"}
    PROVE  /\ reader.job = j /\ run' = run
           /\ \/ reader.stage = "close" /\ CurrentRequest.rounds > 0
              \/ /\ reader.stage = "finish" /\ reader.outcome = job'[j].state
                 /\ reader.outcome \in Finished
<1>1. StateWrite(j)
  BY StateWrites
<1>2. ~Recover
  <2> SUFFICES ASSUME Recover PROVE FALSE
    OBVIOUS
  <2>1. job'[j].state \in {"WAITING_CONNECTION", "NEEDS_REVIEW"}
    BY DEF Recover, Unfinished, Shape, TypeOK, JobRecord
  <2> QED BY <2>1
<1>3. reader.job = j /\ (Schedule \/ (FinishJob /\ job'[j].state = reader.outcome))
  BY <1>1, <1>2 DEF StateWrite
<1> QED BY <1>3 DEF Schedule, FinishJob, Working, Shape, ReaderShape

\* An apply or refresh workflow without scheduled checks ends COMPLETED only when
\* each of its operations is verified effective, or restored, at that very moment
\* (WorkspaceWorkflows.cs:178-190).
THEOREM CompletedIsVerified == ASSUME ~DbMayFail PROVE Spec => CompletedMeansVerified
<1>1. IInv /\ AccountInv /\ OnceInv /\ OutcomeInv /\ [Next]_vars =>
        [\A j \in Job :
           /\ Request[j].action \in {"apply", "refresh"}
           /\ Request[j].rounds = 0
           /\ job[j].state = "RUNNING"
           /\ job'[j].state = "COMPLETED"
           => \A i \in DOMAIN job[j].done :
                LET r == run'[job[j].done[i]]
                IN  \/ r.state = "ROLLED_BACK"
                    \/ r.state \in Published /\ r.eff = "VERIFIED"]_vars
  <2> SUFFICES ASSUME IInv, AccountInv, OnceInv, OutcomeInv, [Next]_vars, NEW j \in Job,
                      Request[j].action \in {"apply", "refresh"}, Request[j].rounds = 0,
                      job[j].state = "RUNNING", job'[j].state = "COMPLETED",
                      NEW i \in DOMAIN job[j].done
               PROVE  LET r == run'[job[j].done[i]]
                      IN  \/ r.state = "ROLLED_BACK"
                          \/ r.state \in Published /\ r.eff = "VERIFIED"
    OBVIOUS
  <2>1. /\ reader.job = j /\ run' = run
        /\ \/ reader.stage = "close" /\ CurrentRequest.rounds > 0
           \/ reader.stage = "finish" /\ reader.outcome = "COMPLETED"
    BY CompletingStep DEF IInv
  <2>2. MeasuredOnce /\ CurrentDone = job[j].done
    BY <2>1 DEF MeasuredOnce, CurrentRequest, CurrentDone, Current
  <2>3. CASE reader.stage = "finish" /\ reader.outcome = "COMPLETED"
    BY <2>1, <2>2, <2>3 DEF OutcomeInv, ChecksMeasured, Good
  <2>4. CASE CurrentRequest.rounds > 0
    BY <2>1, <2>4 DEF CurrentRequest, Current
  <2> QED BY <2>1, <2>3, <2>4
<1> QED BY <1>1, Inductive, AccountInductive, OnceInductive, OutcomeInductive, PTL
        DEF Spec, CompletedMeansVerified

\* When a batch recovery succeeds, no operation of the batch is left with a record
\* that still claims its change is published (WorkspaceWorkflows.cs:146-172).
THEOREM RecoveryCovers == ASSUME ~DbMayFail PROVE Spec => RecoveryCoversBatch
<1>1. IInv /\ AccountInv /\ OnceInv /\ OutcomeInv /\ [Next]_vars =>
        [\A j \in Job :
           /\ Request[j].source # NoJob
           /\ job[j].state = "RUNNING"
           /\ job'[j].state \in {"COMPLETED", "VERIFY_SCHEDULED"}
           => LET ps == job[Request[j].source].done
              IN  \A i \in DOMAIN ps :
                    run'[ps[i]].state \in {"ROLLED_BACK", "BATCH_ROLLED_BACK"}]_vars
  <2> SUFFICES ASSUME IInv, AccountInv, OnceInv, OutcomeInv, [Next]_vars, NEW j \in Job,
                      Request[j].source # NoJob, job[j].state = "RUNNING",
                      job'[j].state \in {"COMPLETED", "VERIFY_SCHEDULED"},
                      NEW i \in DOMAIN job[Request[j].source].done
               PROVE  run'[job[Request[j].source].done[i]].state
                        \in {"ROLLED_BACK", "BATCH_ROLLED_BACK"}
    OBVIOUS
  <2>1. /\ reader.job = j /\ run' = run
        /\ \/ reader.stage = "close"
           \/ reader.stage = "finish" /\ reader.outcome = "COMPLETED"
    BY CompletingStep DEF IInv, Finished
  <2>2. Recovering /\ Batch = job[Request[j].source].done
    BY <2>1 DEF Recovering, Batch, CurrentRequest, Current
  <2> QED BY <2>1, <2>2 DEF OutcomeInv, Marked, Back
<1> QED BY <1>1, Inductive, AccountInductive, OnceInductive, OutcomeInductive, PTL
        DEF Spec, RecoveryCoversBatch

-----------------------------------------------------------------------------
(* WorkspaceWorkflows implements GpoCustody.                               *)

Work(c) == [op |-> call[c].op, plan |-> call[c].plan, owner |-> call[c].owner]
IsOpen(j) == job[j].state \in Unfinished
Implements == Custody!CustodyNext \/ UNCHANGED Custody!custodyVars

\* Without early requests, nobody asks a process that has not recovered yet.
IdleInv ==
    service \in {"down", "starting"} =>
        validated = {} /\ \A c \in Caller : call[c].pc = "idle"
\* Only a workflow that writes goes through a refresh of its own.
RefreshWrites ==
    reader.stage = "refresh" => CurrentRequest.action \in {"apply", "rollback"}
CustodyInv ==
    /\ IInv /\ AccountInv /\ OnceInv /\ LateInv /\ OutcomeInv
    /\ IdleInv /\ RefreshWrites

\* A process that starts runs nothing until it serves, after any step.
LEMMA NextIdle == ASSUME ~EarlySubmit, Shape, IdleInv, [Next]_vars PROVE IdleInv'
<1> SUFFICES ASSUME service' \in {"down", "starting"}
             PROVE  validated' = {} /\ \A c \in Caller : call'[c].pc = "idle"
  BY DEF IdleInv
<1>1. CASE ProcessEnds
  BY <1>1 DEF ProcessEnds, CallIdle
<1>2. CASE ~ProcessEnds
  <2>1. service \in {"down", "starting"}
    BY <1>2 DEF Next, vars, Submission, Validate, EnqueueAccepts, EnqueueRefuses,
         EnqueueSaveFails, SubmitUnchanged, FollowStep, FollowStart, FollowStopped,
         FollowSkipped, FollowFails, FollowMeasured, FollowUnchanged, CallStep, ClaimBusy,
         ClaimAnswered, Claim, RefreshLive, WorkerReturns, CallUnchanged, ClientStep,
         DirectCall, DirectCallAnswered, HostStep, Maintain, EndMaintain, HostStops, Exit,
         Crash, Restart, Recover, HostUnchanged, ReaderStep, Dequeue, DequeueWithoutRecord,
         ScanEnds, StepStopped, StepRefused, StepStart, StepError, StepDone, Mark,
         MarksDone, RefreshStart, RefreshDone, CheckStart, CheckDone, CheckRead,
         ChecksDone, Schedule, Close, FinishJob, ReleaseJob, Working
  <2>2. validated = {} /\ ~Open /\ \A c \in Caller : call[c].pc = "idle"
    BY <2>1 DEF IdleInv, Open
  <2>3. \A c \in Caller : ~CallStep(c)
    BY <2>2, CallGoes
  <2>4. ~ReaderStep
    BY <2>1 DEF ReaderStep, Dequeue, DequeueWithoutRecord, ScanEnds, StepStopped,
         StepRefused, StepStart, StepError, StepDone, Mark, MarksDone, RefreshStart,
         RefreshDone, CheckStart, CheckDone, CheckRead, ChecksDone, Schedule, Close,
         FinishJob, ReleaseJob, Working
  <2>5. \A j \in Job : ~FollowStep(j) /\ ~Submission(j)
    BY <2>1, <2>2, FollowKinds DEF Due, Submission, Validate, EnqueueAccepts,
                                   EnqueueRefuses, EnqueueSaveFails
  <2>6. \A c \in Caller : ~DirectCall(c) /\ ~DirectCallAnswered(c)
    BY <2>2 DEF DirectCall, DirectCallAnswered
  <2>7. Client \subseteq Caller
    BY DEF Caller
  <2>8. UNCHANGED <<validated, call>>
    BY <1>2, <2>3, <2>4, <2>5, <2>6, <2>7
       DEF Next, vars, ClientStep, HostStep, Maintain, EndMaintain, HostStops, Exit, Crash,
           Restart, Recover, HostUnchanged
  <2> QED BY <2>2, <2>8
<1> QED BY <1>1, <1>2

\* The reader reaches a refresh only from the steps of a workflow that writes.
LEMMA NextRefreshWrites == ASSUME Shape, RefreshWrites, [Next]_vars PROVE RefreshWrites'
<1> SUFFICES ASSUME reader'.stage = "refresh"
             PROVE  Request[reader'.job].action \in {"apply", "rollback"}
  BY DEF RefreshWrites, CurrentRequest, Current
<1>1. ~ProcessEnds
  BY DEF ProcessEnds, ReaderIdle
<1>2. CASE reader' = reader
  BY <1>2 DEF RefreshWrites, CurrentRequest, Current
<1>3. CASE ReaderStep
  <2>1. ~Dequeue /\ ~DequeueWithoutRecord /\ ~Schedule /\ ~FinishJob /\ ~ReleaseJob
    <3>1. ~DequeueWithoutRecord /\ ~ReleaseJob
      BY DEF DequeueWithoutRecord, ReleaseJob, ReaderIdle
    <3>2. ASSUME reader' = [reader EXCEPT !.stage = "release"] PROVE FALSE
      BY <3>2 DEF Shape, TypeOK, ReaderRecord
    <3>3. ASSUME NEW j, NEW stage \in {"scan", "steps"},
                 reader' = [ReaderIdle EXCEPT !.job = j, !.stage = stage]
          PROVE  FALSE
      BY <3>3 DEF ReaderIdle
    <3> QED BY <3>1, <3>2, <3>3 DEF Schedule, FinishJob, Dequeue
  <2>2. CASE ReaderAt(AfterSteps, 1) \/ ReaderAt(AfterMarks, 1)
    BY <2>2 DEF ReaderAt, AfterSteps, AfterMarks, AfterRefresh, CurrentRequest, Current
  <2>3. ~ReaderAt(AfterRefresh, reader.n)
    BY DEF ReaderAt, AfterRefresh
  <2>4. \A state, eff : ~CheckPassed(state, eff)
    BY DEF CheckPassed, ReaderAt
  <2> QED BY <1>2, <1>3, <2>1, <2>2, <2>3, <2>4, ReaderTurns DEF ReaderAt, Fails
<1> QED BY <1>1, <1>2, <1>3, ReaderKept

\* A caller is at work when it is busy, and then on an operation of a plan.
LEMMA WorkKnown ==
    ASSUME Shape, NEW c \in Caller
    PROVE  /\ Busy(c) => WorkOf(c) = Work(c) /\ Work(c) \in Custody!Work
                         /\ Work(c) # Custody!NoWork
           /\ ~Busy(c) => WorkOf(c) = Custody!NoWork
<1>1. call[c] \in CallRecord
  BY DEF Shape, TypeOK
<1>2. Busy(c) => call[c].op \in Operation /\ call[c].plan \in Plan
  BY DEF Busy, Shape, CallShape
<1> QED BY <1>1, <1>2 DEF WorkOf, Work, NoWork, Custody!NoWork, Custody!Work, Operation,
                          CallRecord

\* The questions and answers of the actors change nothing that is worked on.
LEMMA WorkKept ==
    ASSUME Shape, NEW d \in Caller,
           \/ d = Reader /\ ReaderStep
           \/ d \in Job /\ FollowStep(d)
           \/ d \in Client /\ ClientStep(d)
    PROVE  \A c \in Caller : WorkOf(c)' = WorkOf(c)
<1>1. ASSUME call' = call PROVE \A c \in Caller : WorkOf(c)' = WorkOf(c)
  BY <1>1 DEF WorkOf, Busy
<1>2. ASSUME call[d].pc \in {"idle", "done"},
             call'[d].pc \in {"idle", "checked", "done"},
             \A c \in Caller \ {d} : call'[c] = call[c]
      PROVE  \A c \in Caller : WorkOf(c)' = WorkOf(c)
  BY <1>2 DEF WorkOf, Busy
<1>3. call \in [Caller -> CallRecord] /\ CallIdle.pc = "idle"
  BY DEF Shape, TypeOK, CallIdle
<1>4. ASSUME NEW op, NEW p, NEW owner, NEW anchored, Invoke(d, op, p, owner, anchored)
      PROVE  \A c \in Caller : WorkOf(c)' = WorkOf(c)
  BY <1>2, <1>4, InvokeWrites
<1>5. ASSUME call[d].pc = "done", call' = [call EXCEPT ![d] = CallIdle]
      PROVE  \A c \in Caller : WorkOf(c)' = WorkOf(c)
  BY <1>2, <1>3, <1>5
<1>6. CASE d = Reader /\ ReaderStep
  <2>1. CASE ReaderAsks
    BY <1>4, <1>6, <2>1 DEF ReaderAsks, StepStart, RefreshStart, CheckStart
  <2>2. CASE ReaderHearsAnswer
    BY <1>5, <1>6, <2>2 DEF ReaderHearsAnswer, StepError, StepDone, RefreshDone,
                            CheckDone, HangUp, ReaderAnswered
  <2> QED BY <1>1, <1>6, <2>1, <2>2
          DEF ReaderAsks, ReaderHearsAnswer, ReaderStep, Dequeue, DequeueWithoutRecord,
              ScanEnds, StepStopped, StepRefused, Mark, MarksDone, CheckRead, ChecksDone,
              Schedule, Close, FinishJob, ReleaseJob
<1>7. CASE d \in Job /\ FollowStep(d)
  BY <1>1, <1>4, <1>5, <1>7 DEF FollowStep, FollowStart, FollowStopped, FollowSkipped,
                                FollowFails, FollowMeasured
<1>8. CASE d \in Client /\ ClientStep(d)
  BY <1>4, <1>5, <1>8 DEF ClientStep, DirectCall, DirectCallAnswered
<1> QED BY <1>6, <1>7, <1>8

\* What neither opens, closes, reserves, works nor quietens changes nothing here.
LEMMA CustodyStays ==
    ASSUME UNCHANGED <<reservations, maintenance, applies, Up>>,
           \A j \in Job : Standing(j)' = Standing(j),
           \A c \in Caller : WorkOf(c)' = WorkOf(c)
    PROVE  Implements
<1>1. [j \in Job |-> Standing(j)'] = [j \in Job |-> Standing(j)]
  OBVIOUS
<1>2. [c \in Caller |-> WorkOf(c)'] = [c \in Caller |-> WorkOf(c)]
  OBVIOUS
<1> QED BY <1>1, <1>2 DEF Implements, Custody!custodyVars

\* A submission that is accepted takes the custody of its GPO, if it writes one.
LEMMA SubmissionRefines ==
    ASSUME ~DbMayFail, CustodyInv, [Next]_vars, NEW j \in Job, Submission(j)
    PROVE  Implements
<1>1. Shape /\ BusyInGate /\ job \in [Job -> JobRecord]
      /\ reservations \in [Gpo -> Job \cup {NoJob}]
  BY DEF CustodyInv, IInv, Shape, TypeOK, GateTypeOK
<1>2. UNCHANGED <<call, maintenance, applies, operations, Up>>
  BY DEF Submission, Validate, EnqueueAccepts, EnqueueRefuses, EnqueueSaveFails,
         SubmitUnchanged, Up
<1>3. \A c \in Caller : WorkOf(c)' = WorkOf(c)
  BY <1>2 DEF WorkOf, Busy
<1>4. CASE UNCHANGED <<job, reservations>>
  BY <1>2, <1>3, <1>4, CustodyStays DEF Standing
<1>5. CASE EnqueueAccepts(j)
  <2>1. PICK v \in validated :
          /\ v[1] = j /\ Accepts(j, v[2])
          /\ job' = [job EXCEPT ![j] = [state |-> "QUEUED", plans |-> v[2],
                                        done |-> <<>>]]
          /\ IF Resources(j, v[2]) = {} THEN UNCHANGED reservations
             ELSE \E g \in Resources(j, v[2]) : Reserve(g, j)
    BY <1>5 DEF EnqueueAccepts
  <2> DEFINE wanted == Resources(j, v[2])
  <2>2. /\ wanted \subseteq Gpo /\ \A g, h \in wanted : g = h
        /\ \A g \in wanted : CanReserve(g)
    <3>1. v[2] \in Seq(Plan) /\ (Request[j].action # "scan" => v[2] # <<>>)
      BY <1>1, <2>1 DEF Shape, TypeOK, PlansShape
    <3> QED BY <2>1, <3>1, ResourcesType DEF Resources, Accepts
  <2>3. Standing(j) = "none"
    BY <2>1 DEF Accepts, Standing, Unfinished
  <2>4. [k \in Job |-> Standing(k)'] = [[k \in Job |-> Standing(k)] EXCEPT ![j] = "open"]
    BY <1>1, <2>1 DEF Standing, Unfinished
  <2>5. \A g \in wanted : Custody!Free(g)
    <3> SUFFICES ASSUME NEW g \in wanted, NEW c \in Caller, Busy(c), GpoOf[WorkOf(c).plan] = g
                 PROVE  FALSE
      BY <2>2, WorkKnown, <1>1 DEF Custody!Free, Custody!Worked, CanReserve
    <3>1. GpoOfCall(c) = g
      BY DEF WorkOf, GpoOfCall
    <3> QED BY <1>1, <2>2, <3>1 DEF BusyInGate, CanReserve
  <2>6. reservations' = [g \in Gpo |-> IF g \in wanted THEN j ELSE reservations[g]]
    <3>1. CASE wanted = {}
      BY <1>1, <2>1, <3>1
    <3>2. CASE wanted # {}
      <4>1. PICK g \in wanted : Reserve(g, j)
        BY <2>1, <3>2
      <4> QED BY <1>1, <2>2, <4>1 DEF Reserve
    <3> QED BY <3>1, <3>2
  <2>7. [c \in Caller |-> WorkOf(c)'] = [c \in Caller |-> WorkOf(c)]
    BY <1>3
  <2> HIDE DEF wanted
  <2>8. Up
    BY <1>1, <2>1 DEF CustodyInv, IdleInv, Up, Shape, TypeOK
  <2>9. Custody!Accept(j, wanted)
    BY <1>2, <2>3, <2>4, <2>5, <2>6, <2>7, <2>8 DEF Custody!Accept
  <2> QED BY <2>2, <2>9 DEF Implements, Custody!CustodyNext
<1> QED BY <1>4, <1>5 DEF Submission, Validate, EnqueueRefuses, EnqueueSaveFails,
                          SubmitUnchanged

\* A workflow that nobody works for is closed.
LEMMA CloseRefines ==
    ASSUME CustodyInv, NEW j \in Job, NEW state \in Finished, IsOpen(j),
           job' = [job EXCEPT ![j].state = state],
           Up, UNCHANGED <<reservations, maintenance, applies, Up>>,
           \A c \in Caller : WorkOf(c)' = WorkOf(c),
           \A c \in Caller : Busy(c) => call[c].owner # j
    PROVE  Implements
<1>1. job \in [Job -> JobRecord] /\ Shape
  BY DEF CustodyInv, IInv, Shape, TypeOK
<1>2. [k \in Job |-> Standing(k)'] = [[k \in Job |-> Standing(k)] EXCEPT ![j] = state]
  BY <1>1 DEF Standing, Unfinished, Finished, JobRecord
<1>3. Standing(j) = "open"
  BY DEF Standing, IsOpen
<1>4. ~Custody!WorksFor(j)
  BY <1>1, WorkKnown DEF Custody!WorksFor, WorkOf, NoWork, Work
<1>5. [c \in Caller |-> WorkOf(c)'] = [c \in Caller |-> WorkOf(c)]
  OBVIOUS
<1>6. Custody!Close(j)
  BY <1>2, <1>3, <1>4, <1>5 DEF Custody!Close
<1> QED BY <1>6 DEF Implements, Custody!CustodyNext

\* A follow-up asks, goes on, or closes its workflow.
LEMMA FollowRefines ==
    ASSUME CustodyInv, [Next]_vars, NEW j \in Job, FollowStep(j) PROVE Implements
<1>1. Shape /\ AskInv /\ OnceInv /\ j \in Caller
  BY DEF CustodyInv, IInv, OutcomeInv, Caller
<1>2. /\ Due(j) /\ FollowUnchanged /\ Up
      /\ UNCHANGED <<reservations, maintenance, applies, Up>>
  BY <1>1, FollowKinds DEF FollowUnchanged, gateVars, historyVars, Due, Up
<1>3. \A c \in Caller : WorkOf(c)' = WorkOf(c)
  BY <1>1, WorkKept
<1>4. CASE UNCHANGED job
  BY <1>2, <1>3, <1>4, CustodyStays DEF Standing
<1>5. ASSUME NEW state \in Finished, EndFollow(j, state) PROVE Implements
  <2>1. /\ IsOpen(j)
        /\ reader.job = j => reader.stage = "release"
    BY <1>1, <1>2 DEF Due, OnceInv, FollowAwaits, IsOpen, Unfinished
  <2>2. \A c \in Caller : Busy(c) => call[c].owner # j
    BY <1>1, <2>1, NoJobAssumption DEF AskInv, CallsOwned, ReaderAsked, Busy
  <2> QED BY <1>2, <1>3, <1>5, <2>1, <2>2, CloseRefines DEF EndFollow
<1> QED BY <1>1, <1>4, <1>5, FollowKinds

\* An operation that ends is no longer worked on.
LEMMA EndRefines ==
    ASSUME Shape, NEW c \in Caller, Busy(c), WorkOf(c)' = Custody!NoWork,
           \A d \in Caller \ {c} : call'[d] = call[d],
           UNCHANGED <<job, reservations, maintenance, applies, Up>>
    PROVE  Implements
<1>1. [d \in Caller |-> WorkOf(d)'] =
        [[d \in Caller |-> WorkOf(d)] EXCEPT ![c] = Custody!NoWork]
  BY DEF WorkOf, Busy
<1>2. WorkOf(c) # Custody!NoWork
  BY WorkKnown
<1>3. Custody!End(c)
  BY <1>1, <1>2 DEF Custody!End, Standing
<1> QED BY <1>3 DEF Implements, Custody!CustodyNext

\* What passes the gate may begin: its GPO is free of other work, and under the
\* reservation of the workflow it is for, which is still open.
LEMMA ClaimRefines ==
    ASSUME CustodyInv, NEW c \in Caller, Claim(c) PROVE Implements
<1> DEFINE p == call[c].plan
           w == Work(c)
           g == GpoOf[p]
<1>1. /\ Shape /\ call \in [Caller -> CallRecord] /\ applies \in [Plan -> 0..2]
      /\ BusyInGate /\ UnrecordedUnapplied /\ Ground
  BY DEF CustodyInv, IInv, Shape, TypeOK, OutcomeInv, Ground
<1>2. /\ call[c].pc = "checked" /\ CanBegin(g, call[c].owner)
      /\ p \in Plan /\ call[c].op \in Operation /\ g \in Gpo
      /\ Up /\ UNCHANGED <<job, reservations, maintenance, Up>>
  BY <1>1, PlanAssumption DEF Claim, BeginOperation, CallUnchanged, Shape, CallShape,
                              CustodyInv, IdleInv, TypeOK, Up
<1>3. ~Busy(c) /\ WorkOf(c) = Custody!NoWork
  BY <1>1, <1>2, WorkKnown DEF Busy
<1>4. /\ call'[c].pc \in {"live", "running"} /\ call'[c].op = call[c].op
      /\ call'[c].plan = p /\ call'[c].owner = call[c].owner
      /\ \A d \in Caller \ {c} : call'[d] = call[d]
  BY <1>1 DEF Claim, ToWorker, CallRecord
<1>5. [d \in Caller |-> WorkOf(d)'] = [[d \in Caller |-> WorkOf(d)] EXCEPT ![c] = w]
  BY <1>4 DEF WorkOf, Work, Busy
<1>6. w \in Custody!Work /\ w.op = call[c].op /\ w.plan = p /\ w.owner = call[c].owner
  BY <1>1, <1>2 DEF Custody!Work, Work, CallRecord, Operation
<1>7. ~maintenance /\ ~Custody!Worked(g) /\ reservations[g] \in {NoJob, w.owner}
  <2>1. ASSUME NEW d \in Caller, Busy(d), GpoOf[WorkOf(d).plan] = g PROVE FALSE
    BY <1>1, <1>2, <2>1 DEF WorkOf, GpoOfCall, BusyInGate, CanBegin
  <2> QED BY <1>1, <1>2, <1>6, <2>1, WorkKnown DEF CanBegin, Custody!Worked
<1>8. ASSUME w.owner # NoJob
      PROVE  /\ w.owner \in Job /\ Standing(w.owner) = "open"
             /\ w.op # "verify" => reservations[g] = w.owner
  <2>1. c = Reader
    BY <1>1, <1>6, <1>8 DEF Ground, AskInv, CallsOwned
  <2>2. /\ OnGpo(p) /\ Current \in Job /\ w.owner = Current
        /\ reader.stage \in {"steps", "refresh", "checks"}
    BY <1>1, <1>2, <1>6, <2>1, AskedOnGpo
  <2>3. Standing(Current) = "open"
    BY <1>1, <2>2 DEF Ground, OnceInv, CurrentRuns, Current, Standing, Unfinished
  <2>4. ASSUME w.op # "verify" PROVE reservations[g] = w.owner
    <3>1. Request[Current].action \in {"apply", "rollback", "refresh"}
      <4>1. call[Reader].op \in Operation /\ call[Reader].op # "verify"
        BY <1>2, <1>6, <2>1, <2>4
      <4> QED BY <1>1, <1>2, <2>1, <4>1 DEF Ground, AskInv, ReaderAsked, Current,
                   CurrentRequest, Operation, CustodyInv, RefreshWrites
    <3>2. job[Current].plans \in Seq(Plan) /\ job[Current].plans # <<>>
      BY <1>1, <2>2, <3>1 DEF Shape, TypeOK, JobRecord, PlansShape, ReaderShape, Current
    <3>3. Resources(Current, job[Current].plans) = {g}
      BY <2>2, <3>1, <3>2 DEF Resources, OnGpo
    <3> QED BY <1>1, <2>2, <3>3 DEF Ground, OnceInv, WorkHolds, Current
  <2> QED BY <2>2, <2>3, <2>4
<1>9. w.op = "apply" => applies[p] = 0
  BY <1>1, <1>2, <1>6 DEF Claim, AnswersUnderClaim, UnrecordedUnapplied
<1>10. {q \in Plan : applies'[q] # 0} =
         IF w.op = "apply" THEN {q \in Plan : applies[q] # 0} \cup {p}
         ELSE {q \in Plan : applies[q] # 0}
  BY <1>1, <1>2, <1>6, <1>9 DEF Claim, ToWorker
<1>11. Custody!Permitted(w)
  BY <1>2, <1>6, <1>7, <1>8, <1>9 DEF Custody!Permitted
<1> HIDE DEF w
<1>12. Custody!Begin(c, w)
  BY <1>2, <1>3, <1>5, <1>6, <1>10, <1>11 DEF Custody!Begin, Standing
<1>13. \E v \in Custody!Work : Custody!Begin(c, v)
  BY <1>6, <1>12 DEF Custody!Begin, Custody!Permitted, Custody!Worked
<1> QED BY <1>13 DEF Implements, Custody!CustodyNext

\* A call waits, is refused, begins, goes on, or ends.
LEMMA CallRefines ==
    ASSUME CustodyInv, NEW c \in Caller, CallStep(c) PROVE Implements
<1>1. Shape /\ call \in [Caller -> CallRecord]
  BY DEF CustodyInv, IInv, Shape, TypeOK
<1>2. /\ UNCHANGED <<job, reservations, maintenance, Up>>
      /\ call'[c].op = call[c].op /\ call'[c].plan = call[c].plan
      /\ call'[c].owner = call[c].owner
      /\ \A d \in Caller \ {c} : call'[d] = call[d]
  BY <1>1, CallGoes DEF CallUnchanged, Up
<1>3. ASSUME applies' = applies, Busy(c)' = Busy(c) PROVE Implements
  <2>1. \A d \in Caller : WorkOf(d)' = WorkOf(d)
    BY <1>2, <1>3 DEF WorkOf, Busy
  <2> QED BY <1>2, <1>3, <2>1, CustodyStays DEF Standing
<1>4. ASSUME applies' = applies, Busy(c), ~Busy(c)' PROVE Implements
  <2>1. WorkOf(c)' = Custody!NoWork
    BY <1>4 DEF WorkOf, NoWork, Custody!NoWork
  <2> QED BY <1>1, <1>2, <1>4, <2>1, EndRefines
<1>5. CASE ClaimBusy(c) \/ ClaimAnswered(c)
  <2>1. call[c].pc = "checked" /\ call'[c].pc = "done" /\ applies' = applies
    BY <1>1, <1>5 DEF ClaimBusy, ClaimAnswered, Answer, CallRecord
  <2> QED BY <1>3, <2>1 DEF Busy
<1>6. CASE RefreshLive(c) \/ WorkerReturns(c)
  <2>1. Busy(c) /\ applies' = applies
    BY <1>6 DEF RefreshLive, WorkerReturns, Busy
  <2> QED BY <1>3, <1>4, <2>1 DEF Busy
<1>7. CASE Claim(c)
  BY <1>7, ClaimRefines
<1> QED BY <1>5, <1>6, <1>7 DEF CallStep

\* The reader goes on with an open workflow, closes it, or gives its GPO back.
LEMMA ReaderRefines == ASSUME CustodyInv, ReaderStep PROVE Implements
<1>1. /\ Shape /\ job \in [Job -> JobRecord] /\ queue \in Seq(Job)
      /\ reservations \in [Gpo -> Job \cup {NoJob}]
  BY DEF CustodyInv, IInv, Shape, TypeOK, GateTypeOK
<1>2. \A c \in Caller : WorkOf(c)' = WorkOf(c)
  BY <1>1, WorkKept DEF Caller
<1>3. UNCHANGED <<maintenance, applies, Up>>
  BY DEF ReaderStep, Dequeue, DequeueWithoutRecord, ScanEnds, StepStopped, StepRefused,
         StepStart, StepError, StepDone, Mark, MarksDone, RefreshStart, RefreshDone,
         CheckStart, CheckDone, CheckRead, ChecksDone, Schedule, Close, FinishJob,
         ReleaseJob, ReaderUnchanged, gateVars, historyVars, Up, Working
<1>4. ASSUME reader.stage \in {"finish", "release"}
      PROVE  /\ Current \in Job
             /\ \A c \in Caller : Busy(c) => call[c].owner # Current
  <2>1. Current \in Job
    BY <1>1, <1>4, CurrentType DEF Current
  <2> QED BY <1>4, <2>1, NoJobAssumption
          DEF CustodyInv, OutcomeInv, AskInv, CallsOwned, ReaderAsked, Busy
<1>5. CASE ReaderGoesOn
  BY <1>2, <1>3, <1>5, CustodyStays DEF ReaderGoesOn, Standing
<1>6. CASE Dequeue
  <2>1. /\ queue # <<>> /\ job' = [job EXCEPT ![Head(queue)].state = "RUNNING"]
        /\ UNCHANGED reservations
    BY <1>6 DEF Dequeue
  <2>2. /\ 1 \in DOMAIN queue /\ Head(queue) = queue[1] /\ Head(queue) \in Job
        /\ job[Head(queue)].state = "QUEUED"
    BY <1>1, <2>1 DEF CustodyInv, LateInv
  <2> QED BY <1>1, <1>2, <1>3, <2>1, <2>2, CustodyStays
          DEF Standing, Unfinished, JobRecord
<1>7. ~DequeueWithoutRecord
  <2>1. queue # <<>> => 1 \in DOMAIN queue /\ Head(queue) = queue[1]
    BY <1>1
  <2> QED BY <2>1 DEF DequeueWithoutRecord, CustodyInv, LateInv
<1>8. CASE Schedule
  <2>1. /\ reader.stage = "close"
        /\ job' = [job EXCEPT ![Current].state = "VERIFY_SCHEDULED"]
        /\ UNCHANGED reservations
    BY <1>8 DEF Schedule, Working, gateVars
  <2>2. Current \in Job /\ job[Current].state = "RUNNING"
    BY <1>1, <2>1, CurrentType DEF CustodyInv, OnceInv, CurrentRuns, Current
  <2> QED BY <1>1, <1>2, <1>3, <2>1, <2>2, CustodyStays
          DEF Standing, Unfinished, JobRecord
<1>9. CASE FinishJob
  <2>1. /\ reader.stage = "finish" /\ reader.outcome \in Finished
        /\ job' = [job EXCEPT ![Current].state = reader.outcome]
        /\ UNCHANGED reservations
    BY <1>1, <1>9 DEF FinishJob, Working, Shape, ReaderShape
  <2>2. IsOpen(Current) /\ Up
    BY <1>9, <2>1 DEF CustodyInv, OnceInv, CurrentRuns, Current, IsOpen, Unfinished,
                      FinishJob, Working, Up
  <2> QED BY <1>2, <1>3, <1>4, <2>1, <2>2, CloseRefines
<1>10. CASE ReleaseJob
  <2> DEFINE held == Resources(Current, job[Current].plans)
  <2>1. /\ reader.stage = "release" /\ UNCHANGED job
        /\ IF held = {} THEN UNCHANGED reservations
           ELSE \E g \in held : Release(g, Current)
    BY <1>10 DEF ReleaseJob, Working
  <2>2. /\ \A g, h \in held : g = h
        /\ \A g \in Gpo : reservations[g] = Current => g \in held
    BY <1>4, <2>1, NoJobAssumption DEF CustodyInv, AccountInv, HeldAccounted, Resources
  <2>3. reservations' = [g \in Gpo |-> IF reservations[g] = Current THEN NoJob
                                       ELSE reservations[g]]
    <3>1. CASE held = {}
      BY <1>1, <2>1, <2>2, <3>1
    <3>2. CASE held # {}
      <4>1. PICK g \in held : Release(g, Current)
        BY <2>1, <3>2
      <4> QED BY <1>1, <2>2, <4>1 DEF Release
    <3> QED BY <3>1, <3>2
  <2>4. ~Custody!WorksFor(Current)
    BY <1>1, <1>4, <2>1, WorkKnown DEF Custody!WorksFor, WorkOf
  <2>5. [c \in Caller |-> WorkOf(c)'] = [c \in Caller |-> WorkOf(c)]
    BY <1>2
  <2>6. Custody!Release(Current)
    BY <1>3, <2>1, <2>3, <2>4, <2>5 DEF Custody!Release, Standing
  <2> QED BY <1>4, <2>1, <2>6 DEF Implements, Custody!CustodyNext
<1> QED BY <1>1, <1>5, <1>6, <1>7, <1>8, <1>9, <1>10, ReaderKinds

\* Maintenance is quiet; a process that ends takes all custody with it, and the
\* next one closes what it finds open before it serves.
LEMMA HostRefines == ASSUME CustodyInv, HostStep PROVE Implements
<1>1. /\ Shape /\ job \in [Job -> JobRecord] /\ queue \in Seq(Job)
      /\ reservations \in [Gpo -> Job \cup {NoJob}]
  BY DEF CustodyInv, IInv, Shape, TypeOK, GateTypeOK
<1>2. ASSUME call' = call PROVE \A c \in Caller : WorkOf(c)' = WorkOf(c)
  BY <1>2 DEF WorkOf, Busy
<1>3. ASSUME call' = call
      PROVE  [c \in Caller |-> WorkOf(c)'] = [c \in Caller |-> WorkOf(c)]
  BY <1>2, <1>3
<1>4. CASE HostStops \/ Restart
  BY <1>2, <1>4, CustodyStays DEF HostStops, Restart, HostUnchanged, gateVars,
                                  historyVars, Standing, Up
<1>5. CASE EndMaintain
  <2>1. /\ maintenance' = FALSE /\ UNCHANGED <<job, reservations, applies>>
        /\ call' = call /\ UNCHANGED Up
    BY <1>5 DEF EndMaintain, EndMaintenance, HostUnchanged, Up
  <2>2. Custody!Resume
    BY <1>3, <2>1 DEF Custody!Resume, Standing
  <2> QED BY <2>2 DEF Implements, Custody!CustodyNext
<1>6. CASE Maintain
  <2>1. /\ maintenance' = TRUE /\ UNCHANGED <<job, reservations, applies>>
        /\ call' = call /\ UNCHANGED Up /\ operations = {} /\ \A g \in Gpo : reservations[g] = NoJob
    BY <1>6 DEF Maintain, BeginMaintenance, CanMaintain, HostUnchanged, Up
  <2>2. \A c \in Caller : WorkOf(c) = Custody!NoWork
    BY <1>1, <2>1, WorkKnown DEF CustodyInv, IInv, BusyInGate
  <2>3. Custody!Quieten
    BY <1>3, <2>1, <2>2 DEF Custody!Quieten, Custody!AtRest, Standing
  <2> QED BY <2>3 DEF Implements, Custody!CustodyNext
<1>7. CASE ProcessEnds
  <2>1. /\ reservations' = [g \in Gpo |-> NoJob] /\ maintenance' = FALSE
        /\ UNCHANGED <<job, applies>> /\ call' = [c \in Caller |-> CallIdle]
        /\ Up' = FALSE
    BY <1>7 DEF ProcessEnds, GateReset, Up
  <2>2. [c \in Caller |-> WorkOf(c)'] = [c \in Caller |-> Custody!NoWork]
    BY <2>1 DEF WorkOf, Busy, CallIdle, NoWork, Custody!NoWork
  <2>3. Custody!Lose
    BY <2>1, <2>2 DEF Custody!Lose, Standing
  <2> QED BY <2>3 DEF Implements, Custody!CustodyNext
<1>8. CASE Recover
  <2>1. /\ service = "starting" /\ UNCHANGED <<reservations, maintenance, applies>>
        /\ call' = call /\ ~Up /\ Up' = TRUE
        /\ \A j \in Job : /\ IsOpen(j) => job'[j].state \in Finished
                          /\ ~IsOpen(j) => job'[j] = job[j]
    BY <1>1, <1>8 DEF Recover, gateVars, historyVars, IsOpen, Finished, JobRecord, Up
  <2>2. \A c \in Caller : WorkOf(c) = Custody!NoWork
    BY <1>1, <2>1, WorkKnown DEF CustodyInv, IdleInv, Busy
  <2>3. \A g \in Gpo : reservations[g] = NoJob
    BY <1>1, <2>1 DEF CustodyInv, LateInv, OnceInv, Rests, AccountInv, HeldAccounted, In
  <2>4. \E outcome \in [Job -> Finished] :
          [j \in Job |-> Standing(j)'] =
             [j \in Job |-> IF Standing(j) = "open" THEN outcome[j] ELSE Standing(j)]
    <3> DEFINE outcome == [j \in Job |-> IF IsOpen(j) THEN job'[j].state
                                         ELSE "NEEDS_REVIEW"]
    <3>1. outcome \in [Job -> Finished]
      BY <2>1 DEF Finished
    <3>2. \A j \in Job : Standing(j)' = IF Standing(j) = "open" THEN outcome[j]
                                         ELSE Standing(j)
      BY <1>1, <2>1 DEF Standing, IsOpen, Unfinished, Finished, JobRecord, JobState
    <3>3. [j \in Job |-> Standing(j)'] =
            [j \in Job |-> IF Standing(j) = "open" THEN outcome[j] ELSE Standing(j)]
      BY <3>2
    <3> QED BY <3>1, <3>3
  <2>5. Custody!CloseLost
    BY <1>3, <2>1, <2>2, <2>3, <2>4 DEF Custody!CloseLost, Custody!AtRest
  <2> QED BY <2>5 DEF Implements, Custody!CustodyNext
<1> QED BY <1>4, <1>5, <1>6, <1>7, <1>8 DEF HostStep, Exit, Crash


\* Every step of the service is a step of the promise, or none.
LEMMA StepRefines ==
    ASSUME ~DbMayFail, CustodyInv, [Next]_vars PROVE Implements
<1>1. Shape
  BY DEF CustodyInv, IInv
<1>2. CASE UNCHANGED vars
  <2>1. \A c \in Caller : WorkOf(c)' = WorkOf(c)
    BY <1>2 DEF vars, WorkOf, Busy
  <2> QED BY <1>2, <2>1, CustodyStays DEF vars, Standing, Up
<1>3. ASSUME NEW c \in Client, ClientStep(c) PROVE Implements
  <2>1. c \in Caller
    BY DEF Caller
  <2>2. \A d \in Caller : WorkOf(d)' = WorkOf(d)
    BY <1>1, <1>3, <2>1, WorkKept
  <2> QED BY <1>3, <2>2, CustodyStays DEF ClientStep, DirectCall, DirectCallAnswered,
                                          CallUnchanged, Standing, Up
<1> QED BY <1>2, <1>3, SubmissionRefines, FollowRefines, CallRefines, ReaderRefines,
           HostRefines DEF Next

\* The service implements GpoCustody, for any GPOs, plans, workflows and callers:
\* when no save fails and no request is served before the recovery, then whatever
\* submissions, direct requests, the reader, the follow-ups, maintenance, stops and
\* crashes do to each other, a GPO in the custody of a workflow is written by it
\* alone, work goes on only for an open workflow, and what a process leaves behind
\* is closed (WorkspaceWorkflows.cs:22-35 and 102-119, GpoWorkflowService.cs:285-302).
THEOREM CustodyRefines ==
    ASSUME ~DbMayFail, ~EarlySubmit PROVE Spec => CustodyKept
<1>1. Init => Custody!CustodyInit
  <2> SUFFICES ASSUME Init PROVE Custody!CustodyInit
    OBVIOUS
  <2>1. /\ \A j \in Job : job[j].state = "none"
        /\ \A p \in Plan : applies[p] = 0
        /\ \A c \in Caller : call[c] = CallIdle
        /\ maintenance = FALSE /\ reservations = [g \in Gpo |-> NoJob] /\ ~Up
    BY DEF Init, GateInit, NoRecord, Up
  <2>2. [c \in Caller |-> WorkOf(c)] = [c \in Caller |-> Custody!NoWork]
    BY <2>1 DEF WorkOf, Busy, CallIdle, NoWork, Custody!NoWork
  <2> QED BY <2>1, <2>2 DEF Custody!CustodyInit, Standing, Unfinished
<1>2. Init => LateInv /\ IdleInv /\ RefreshWrites
  BY DEF Init, LateInv, IdleInv, RefreshWrites, CallIdle, ReaderIdle
<1>3. CustodyInv /\ [Next]_vars => LateInv' /\ IdleInv' /\ RefreshWrites'
  BY LateStep, NextIdle, NextRefreshWrites DEF CustodyInv, IInv
<1>4. CustodyInv /\ [Next]_vars => [Custody!CustodyNext]_(Custody!custodyVars)
  BY StepRefines DEF Implements
<1>5. CustodyInv <=> /\ IInv /\ AccountInv /\ OnceInv /\ OutcomeInv
                     /\ LateInv /\ IdleInv /\ RefreshWrites
  BY DEF CustodyInv
<1> QED BY <1>1, <1>2, <1>3, <1>4, <1>5, Inductive, AccountInductive, OnceInductive,
           OutcomeInductive, PTL DEF Spec, CustodyKept, Custody!CustodySpec
=============================================================================
