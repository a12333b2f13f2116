----------------------- MODULE WorkspaceWorkflowsProofs -----------------------
(***************************************************************************)
(* IInv of WorkspaceWorkflows is inductive, and what follows from it.      *)
(*                                                                         *)
(* The first part proves, action by action, that Shape is kept: the types  *)
(* of the variables, and what each actor relies on when it indexes a       *)
(* record.  Frame lemmas cover the parts that a group of actions does not  *)
(* write.  The second part proves the invariants of the gate; most actions *)
(* are "quiet" for them (QuietFrame), the claims, the ends of operations,  *)
(* the reservations and the host are not.                                  *)
(***************************************************************************)
EXTENDS WorkspaceWorkflows, TLAPS

\* Every caller keeps its invocation, or was and stays outside a worker run.
CallsQuiet == \A c \in Caller : call'[c] = call[c] \/ (~Busy(c) /\ ~Busy(c)')

LEMMA IdleCallType == CallIdle \in CallRecord
  BY DEF CallIdle, CallRecord, RunState, Effective

\* A new invocation, and the end of one.
LEMMA InvokeShape ==
    ASSUME Shape, NEW c \in Caller, NEW op \in Operation, NEW p \in Plan,
           NEW owner \in Job \cup {NoJob}, NEW anchored,
           Invoke(c, op, p, owner, anchored)
    PROVE  /\ call' \in [Caller -> CallRecord]
           /\ CallShape'
           /\ CallsQuiet
<1> DEFINE asked == [CallIdle EXCEPT !.op = op, !.plan = p, !.owner = owner]
           checked == [asked EXCEPT !.pc = "checked"]
           refused == [asked EXCEPT !.pc = "done", !.res = "REFUSED"]
           login == [asked EXCEPT !.pc = "done", !.res = "LOGIN"]
<1>1. call[c].pc = "idle" /\ call \in [Caller -> CallRecord] /\ CallShape
  BY DEF Invoke, Shape, TypeOK
<1>2. PICK new \in {checked, refused, login} : call' = [call EXCEPT ![c] = new]
  BY DEF Invoke
<1>3. new \in CallRecord /\ new.op = op /\ new.plan = p
      /\ new.pc \notin {"live", "running"}
  BY DEF CallIdle, CallRecord, RunState, Effective, Error
<1>4. call' \in [Caller -> CallRecord]
  BY <1>1, <1>2, <1>3
<1>5. CallShape'
  BY <1>1, <1>2, <1>3 DEF CallShape
<1>6. CallsQuiet
  BY <1>1, <1>2, <1>3 DEF CallsQuiet, Busy
<1> QED BY <1>4, <1>5, <1>6

LEMMA HangUpShape ==
    ASSUME Shape, NEW c \in Caller, call[c].pc \notin {"live", "running"},
           call' = [call EXCEPT ![c] = CallIdle]
    PROVE  /\ call' \in [Caller -> CallRecord]
           /\ CallShape'
           /\ CallsQuiet
<1>1. call \in [Caller -> CallRecord] /\ CallShape
  BY DEF Shape, TypeOK
<1>2. CallIdle.pc = "idle"
  BY DEF CallIdle
<1>3. call' \in [Caller -> CallRecord]
  BY <1>1, IdleCallType
<1>4. CallShape'
  BY <1>1, <1>2 DEF CallShape
<1>5. CallsQuiet
  BY <1>1, <1>2 DEF CallsQuiet, Busy
<1> QED BY <1>3, <1>4, <1>5

-----------------------------------------------------------------------------
(* Accepted records keep their plans and completed operations.             *)
JobKeeps ==
    \A j \in Job : job[j].state # "none" =>
        /\ job'[j].state # "none"
        /\ job'[j].plans = job[j].plans
        /\ job'[j].done = job[j].done

LEMMA ReaderFrame ==
    ASSUME ReaderShape, JobKeeps, reader' = reader PROVE ReaderShape'
  BY DEF ReaderShape, JobKeeps

LEMMA FollowFrame ==
    ASSUME FollowShape, JobKeeps, follow' = follow PROVE FollowShape'
  BY DEF FollowShape, JobKeeps

LEMMA CallFrame ==
    ASSUME CallShape, call' = call PROVE CallShape'
  BY DEF CallShape

LEMMA PlansFrame ==
    ASSUME PlansShape, UNCHANGED <<job, validated>> PROVE PlansShape'
  BY DEF PlansShape

LEMMA JobSame == ASSUME job' = job PROVE JobKeeps
  BY DEF JobKeeps

LEMMA ResourcesType ==
    ASSUME NEW j \in Job, NEW ps \in Seq(Plan),
           Request[j].action # "scan" => ps # <<>>
    PROVE  Resources(j, ps) \subseteq Gpo
  BY RequestAssumption, PlanAssumption DEF Resources

-----------------------------------------------------------------------------
(* Submission.                                                             *)

\* What Start may hand to Enqueue.
LEMMA TargetsType ==
    ASSUME Shape, NEW j \in Job, NEW ps \in Targets(j)
    PROVE  ps \in Seq(Plan) /\ (Request[j].action # "scan" => ps # <<>>)
<1>1. Request[j] \in [action : Operation \cup {"scan"}, plans : Seq(Plan),
                      source : Job \cup {NoJob}, refresh : BOOLEAN, rounds : 0..3]
  BY RequestAssumption
<1>2. CASE Request[j].source = NoJob
  BY <1>1, <1>2, RequestAssumption DEF Targets
<1>3. CASE Request[j].source # NoJob
  <2> DEFINE s == Request[j].source
  <2>1. s \in Job
    BY <1>1, <1>3
  <2>2. job[s].done \in Seq(Plan)
    BY <2>1 DEF Shape, TypeOK, JobRecord
  <2>3. PICK i \in DOMAIN job[s].done : ps = <<job[s].done[i]>>
    BY <1>3 DEF Targets, BackedSteps
  <2>4. job[s].done[i] \in Plan
    BY <2>2
  <2> QED BY <2>3, <2>4
<1> QED BY <1>2, <1>3

LEMMA ValidateShape ==
    ASSUME Shape, NEW j \in Job, Validate(j) PROVE Shape'
<1>1. PICK ps \in Targets(j) : validated' = validated \cup {<<j, ps>>}
  BY DEF Validate
<1>2. UNCHANGED <<maintenance, operations, reservations, job, run, service, queue,
                  reader, follow, call, applies, restored, downs>>
  BY DEF Validate, SubmitUnchanged
<1>3. ps \in Seq(Plan) /\ (Request[j].action # "scan" => ps # <<>>)
  BY TargetsType
<1>4. TypeOK'
  BY <1>1, <1>2, <1>3 DEF Shape, TypeOK, GateTypeOK
<1>5. PlansShape'
  BY <1>1, <1>2, <1>3 DEF Shape, PlansShape
<1> QED BY <1>2, <1>4, <1>5, JobSame, ReaderFrame, FollowFrame, CallFrame DEF Shape

\* A validated submission, once more.
LEMMA ValidatedType ==
    ASSUME Shape, NEW v \in validated
    PROVE  /\ v[1] \in Job /\ v[2] \in Seq(Plan)
           /\ Request[v[1]].action # "scan" => v[2] # <<>>
           /\ Resources(v[1], v[2]) \subseteq Gpo
<1>1. v[1] \in Job /\ v[2] \in Seq(Plan)
  BY DEF Shape, TypeOK
<1>2. Request[v[1]].action # "scan" => v[2] # <<>>
  BY DEF Shape, PlansShape
<1> QED BY <1>1, <1>2, ResourcesType

LEMMA EnqueueAcceptsShape ==
    ASSUME Shape, NEW j \in Job, EnqueueAccepts(j) PROVE Shape'
<1> DEFINE new(v) == [state |-> "QUEUED", plans |-> v[2], done |-> <<>>]
<1>1. PICK v \in validated :
        /\ v[1] = j
        /\ Accepts(j, v[2])
        /\ Answered(v)
        /\ job' = [job EXCEPT ![j] = new(v)]
        /\ queue' = Append(queue, j)
        /\ IF Resources(j, v[2]) = {} THEN UNCHANGED reservations
           ELSE \E g \in Resources(j, v[2]) : Reserve(g, j)
        /\ SubmitUnchanged
  BY DEF EnqueueAccepts
<1>2. UNCHANGED <<run, service, reader, follow, call, maintenance,
                  operations, applies, restored, downs>>
  BY <1>1 DEF SubmitUnchanged
<1>3. /\ job[j].state = "none"
      /\ v[2] \in Seq(Plan)
      /\ Request[j].action # "scan" => v[2] # <<>>
      /\ Resources(j, v[2]) \subseteq Gpo
  BY <1>1, ValidatedType DEF Accepts
<1>4. validated' \subseteq validated
  BY <1>1 DEF Answered
<1>5. new(v) \in JobRecord
  BY <1>3 DEF JobRecord, JobState, Unfinished
<1>6. job \in [Job -> JobRecord] /\ job' = [job EXCEPT ![j] = new(v)]
  BY <1>1 DEF Shape, TypeOK
<1>7. JobKeeps
  BY <1>3, <1>6 DEF JobKeeps
<1>8. TypeOK'
  <2>1. job' \in [Job -> JobRecord]
    BY <1>5, <1>6
  <2>2. queue' \in Seq(Job)
    BY <1>1 DEF Shape, TypeOK
  <2>3. reservations' \in [Gpo -> Job \cup {NoJob}]
    <3>1. reservations \in [Gpo -> Job \cup {NoJob}]
      BY DEF Shape, TypeOK, GateTypeOK
    <3>2. CASE UNCHANGED reservations
      BY <3>1, <3>2
    <3>3. CASE \E g \in Resources(j, v[2]) : Reserve(g, j)
      BY <1>3, <3>1, <3>3 DEF Reserve
    <3> QED BY <1>1, <3>2, <3>3
  <2> QED BY <1>2, <1>4, <2>1, <2>2, <2>3 DEF Shape, TypeOK, GateTypeOK
<1>9. PlansShape'
  <2>1. ASSUME NEW k \in Job, job'[k].state # "none", Request[k].action # "scan"
        PROVE  job'[k].plans # <<>>
    BY <1>3, <1>6, <2>1 DEF Shape, PlansShape
  <2> QED BY <1>4, <2>1 DEF Shape, PlansShape
<1> QED BY <1>2, <1>7, <1>8, <1>9, ReaderFrame, FollowFrame, CallFrame DEF Shape

LEMMA EnqueueRefusesShape ==
    ASSUME Shape, NEW j \in Job, EnqueueRefuses(j) PROVE Shape'
<1>1. validated' \subseteq validated
  BY DEF EnqueueRefuses
<1>2. UNCHANGED <<maintenance, operations, reservations, job, run, service, queue,
                  reader, follow, call, applies, restored, downs>>
  BY DEF EnqueueRefuses, SubmitUnchanged
<1>3. TypeOK'
  BY <1>1, <1>2 DEF Shape, TypeOK, GateTypeOK
<1>4. PlansShape'
  BY <1>1, <1>2 DEF Shape, PlansShape
<1> QED BY <1>2, <1>3, <1>4, JobSame, ReaderFrame, FollowFrame, CallFrame DEF Shape

LEMMA EnqueueSaveFailsShape ==
    ASSUME Shape, NEW j \in Job, EnqueueSaveFails(j) PROVE Shape'
<1> DEFINE new(v) == [state |-> "QUEUED", plans |-> v[2], done |-> <<>>]
<1>1. PICK v \in validated :
        /\ v[1] = j
        /\ Accepts(j, v[2])
        /\ Answered(v)
        /\ queue' = Append(queue, j)
        /\ UNCHANGED job \/ job' = [job EXCEPT ![j] = new(v)]
        /\ SubmitUnchanged /\ UNCHANGED reservations
  BY DEF EnqueueSaveFails
<1>2. UNCHANGED <<maintenance, operations, reservations, run, service,
                  reader, follow, call, applies, restored, downs>>
  BY <1>1 DEF SubmitUnchanged
<1>3. /\ job[j].state = "none"
      /\ v[2] \in Seq(Plan)
      /\ Request[j].action # "scan" => v[2] # <<>>
  BY <1>1, ValidatedType DEF Accepts
<1>4. job \in [Job -> JobRecord] /\ validated' \subseteq validated
  BY <1>1 DEF Shape, TypeOK, Answered
<1>5. new(v) \in JobRecord
  BY <1>3 DEF JobRecord, JobState, Unfinished
<1>6. JobKeeps
  BY <1>1, <1>3, <1>4 DEF JobKeeps
<1>7. job' \in [Job -> JobRecord]
  BY <1>1, <1>4, <1>5
<1>8. TypeOK'
  BY <1>1, <1>2, <1>4, <1>7 DEF Shape, TypeOK, GateTypeOK
<1>9. PlansShape'
  <2> SUFFICES ASSUME NEW k \in Job, job'[k].state # "none", Request[k].action # "scan"
               PROVE  job'[k].plans # <<>>
    BY <1>2, <1>4 DEF Shape, PlansShape
  <2>1. CASE job'[k] = job[k]
    BY <2>1 DEF Shape, PlansShape
  <2>2. CASE k = j /\ job'[k] = new(v)
    BY <1>3, <2>2
  <2> QED BY <1>1, <1>4, <2>1, <2>2
<1> QED BY <1>2, <1>6, <1>8, <1>9, ReaderFrame, FollowFrame, CallFrame DEF Shape

-----------------------------------------------------------------------------
(* ExecuteAsync.                                                           *)

\* A recorded outcome is a record, and is final: neither "none" nor in progress.
Final == {out \in RunRecord : out.state \notin InProgress \cup {"none"}}

LEMMA VerifyResultsType ==
    ASSUME Shape, NEW p \in Plan PROVE VerifyResults(p) \subseteq Final
<1>1. run[p].backup \in BOOLEAN
  BY DEF Shape, TypeOK, RunRecord
<1> QED BY <1>1 DEF VerifyResults, Final, RunRecord, RunState, Published, Unsure,
                    InProgress, Effective

LEMMA FailuresType ==
    ASSUME Shape, NEW p \in Plan, NEW op PROVE Failures(op, p) \subseteq Final
<1>1. run[p].backup \in BOOLEAN /\ run[p].eff \in Effective
  BY DEF Shape, TypeOK, RunRecord
<1> QED BY <1>1 DEF Failures, Final, RunRecord, RunState, Published, Unsure,
                    InProgress, Effective

LEMMA OutcomesType ==
    ASSUME Shape, NEW c \in Caller, call[c].pc # "idle"
    PROVE  Outcomes(c, call[c].plan) \subseteq Final
<1> DEFINE p == call[c].plan
<1>1. p \in Plan /\ call[c].op \in Operation
  BY DEF Shape, CallShape
<1>2. Failures(call[c].op, p) \subseteq Final /\ VerifyResults(p) \subseteq Final
  BY <1>1, FailuresType, VerifyResultsType
<1>3. run[p].backup \in BOOLEAN
  BY <1>1 DEF Shape, TypeOK, RunRecord
<1>4. CASE call[c].op = "apply"
  BY <1>2, <1>4 DEF Outcomes, Final, RunRecord, RunState, InProgress, Published,
                    Unsure, Effective
<1>5. CASE call[c].op = "rollback"
  BY <1>2, <1>5 DEF Outcomes, Final, RunRecord, RunState, InProgress, Published,
                    Unsure, Effective
<1>6. CASE call[c].op = "verify"
  BY <1>2, <1>6 DEF Outcomes
<1>7. CASE call[c].op = "refresh"
  BY <1>2, <1>3, <1>7 DEF Outcomes, RefreshResults, Final, RunRecord, RunState,
                    InProgress, Published, Unsure, Effective
<1> QED BY <1>1, <1>4, <1>5, <1>6, <1>7 DEF Operation

LEMMA StartedInProgress ==
    ASSUME NEW op \in Operation PROVE Started(op) \in InProgress
  BY DEF Operation, Started, InProgress

LEMMA LearnType ==
    ASSUME Shape, NEW p \in Plan, NEW state, Learn(p, state)
    PROVE  restored' \in [Plan -> {"no", "asked", "yes"}]
  BY DEF Learn, Shape, TypeOK

LEMMA AnswerType ==
    ASSUME Shape, NEW c \in Caller, NEW res \in RunState \cup Error,
           NEW eff \in Effective
    PROVE  /\ Answer(c, res, eff) \in CallRecord
           /\ Answer(c, res, eff).op = call[c].op
           /\ Answer(c, res, eff).plan = call[c].plan
           /\ Answer(c, res, eff).owner = call[c].owner
           /\ Answer(c, res, eff).pc = "done"
  BY DEF Answer, Shape, TypeOK, CallRecord

\* A caller's invocation goes on for the same operation and plan.
LEMMA CallGoesOn ==
    ASSUME Shape, NEW c \in Caller, call[c].pc # "idle", NEW new \in CallRecord,
           new.op = call[c].op, new.plan = call[c].plan,
           call' = [call EXCEPT ![c] = new]
    PROVE  call' \in [Caller -> CallRecord] /\ CallShape'
  BY DEF Shape, TypeOK, CallShape

\* The variables that no step of an invocation writes.
LEMMA CallStepShape ==
    ASSUME Shape, CallUnchanged,
           run' \in [Plan -> RunRecord], operations' \subseteq Gpo,
           call' \in [Caller -> CallRecord], CallShape',
           applies' \in [Plan -> 0..2],
           restored' \in [Plan -> {"no", "asked", "yes"}]
    PROVE  Shape'
<1>1. UNCHANGED <<job, service, validated, queue, reader, follow,
                  maintenance, reservations, downs>>
  BY DEF CallUnchanged
<1>2. TypeOK'
  BY <1>1 DEF Shape, TypeOK, GateTypeOK
<1> QED BY <1>1, <1>2, JobSame, ReaderFrame, FollowFrame, PlansFrame DEF Shape

LEMMA ClaimBusyShape ==
    ASSUME Shape, NEW c \in Caller, ClaimBusy(c) PROVE Shape'
<1>1. /\ call[c].pc = "checked"
      /\ call' = [call EXCEPT ![c] = Answer(c, "BUSY", "PENDING")]
      /\ CallUnchanged
      /\ UNCHANGED <<run, operations, applies, restored>>
  BY DEF ClaimBusy
<1>2. call' \in [Caller -> CallRecord] /\ CallShape'
  BY <1>1, AnswerType, CallGoesOn DEF Error, Effective
<1>3. /\ run \in [Plan -> RunRecord] /\ operations \subseteq Gpo
      /\ applies \in [Plan -> 0..2]
      /\ restored \in [Plan -> {"no", "asked", "yes"}]
  BY DEF Shape, TypeOK, GateTypeOK
<1> QED BY <1>1, <1>2, <1>3, CallStepShape

LEMMA ClaimAnsweredShape ==
    ASSUME Shape, NEW c \in Caller, ClaimAnswered(c) PROVE Shape'
<1> DEFINE p == call[c].plan
<1>1. /\ call[c].pc = "checked"
      /\ \/ call' = [call EXCEPT ![c] = Answer(c, run[p].state, run[p].eff)]
         \/ call' = [call EXCEPT ![c] = Answer(c, "REFUSED", "PENDING")]
      /\ CallUnchanged
      /\ UNCHANGED <<run, operations, applies, restored>>
  BY DEF ClaimAnswered
<1>2. p \in Plan
  BY <1>1 DEF Shape, CallShape
<1>3. run[p].state \in RunState /\ run[p].eff \in Effective
  BY <1>2 DEF Shape, TypeOK, RunRecord
<1>4. call' \in [Caller -> CallRecord] /\ CallShape'
  BY <1>1, <1>3, AnswerType, CallGoesOn DEF Error, Effective
<1>5. /\ run \in [Plan -> RunRecord] /\ operations \subseteq Gpo
      /\ applies \in [Plan -> 0..2]
      /\ restored \in [Plan -> {"no", "asked", "yes"}]
  BY DEF Shape, TypeOK, GateTypeOK
<1> QED BY <1>1, <1>4, <1>5, CallStepShape

LEMMA ClaimShape ==
    ASSUME Shape, NEW c \in Caller, Claim(c) PROVE Shape'
<1> DEFINE p == call[c].plan
           op == call[c].op
<1>1. /\ call[c].pc = "checked"
      /\ CallUnchanged
      /\ operations' = operations \cup {GpoOf[p]}
  BY DEF Claim, BeginOperation
<1>2. p \in Plan /\ op \in Operation
  BY <1>1 DEF Shape, CallShape
<1>3. /\ run \in [Plan -> RunRecord] /\ operations' \subseteq Gpo
      /\ applies \in [Plan -> 0..2]
      /\ restored \in [Plan -> {"no", "asked", "yes"}]
      /\ call \in [Caller -> CallRecord]
  BY <1>1, <1>2, PlanAssumption DEF Shape, TypeOK, GateTypeOK
<1>4. CASE /\ call' = [call EXCEPT ![c].pc = "live"]
           /\ UNCHANGED <<run, applies, restored>>
  <2>1. call' \in [Caller -> CallRecord] /\ CallShape'
    BY <1>1, <1>2, <1>3, <1>4 DEF CallRecord, CallShape, Shape
  <2> QED BY <1>1, <1>3, <1>4, <2>1, CallStepShape
<1>5. CASE ToWorker(c, op, p)
  <2>1. call' \in [Caller -> CallRecord] /\ CallShape'
    BY <1>1, <1>2, <1>3, <1>5 DEF CallRecord, CallShape, Shape, ToWorker
  <2>2. run' \in [Plan -> RunRecord]
    BY <1>2, <1>3, <1>5, StartedInProgress DEF ToWorker, RunRecord, RunState
  <2>3. applies' \in [Plan -> 0..2]
    BY <1>2, <1>3, <1>5 DEF ToWorker
  <2>4. restored' \in [Plan -> {"no", "asked", "yes"}]
    BY <1>2, <1>3, <1>5 DEF ToWorker
  <2> QED BY <1>1, <1>3, <2>1, <2>2, <2>3, <2>4, CallStepShape
<1> QED BY <1>4, <1>5 DEF Claim

LEMMA RefreshLiveShape ==
    ASSUME Shape, NEW c \in Caller, RefreshLive(c) PROVE Shape'
<1> DEFINE p == call[c].plan
<1>1. call[c].pc = "live" /\ CallUnchanged /\ UNCHANGED applies
  BY DEF RefreshLive
<1>2. p \in Plan
  BY <1>1 DEF Shape, CallShape
<1>3. /\ run \in [Plan -> RunRecord] /\ operations \subseteq Gpo
      /\ applies \in [Plan -> 0..2]
      /\ restored \in [Plan -> {"no", "asked", "yes"}]
      /\ call \in [Caller -> CallRecord]
  BY DEF Shape, TypeOK, GateTypeOK
<1>4. ASSUME call' = [call EXCEPT ![c] = Answer(c, "REFUSED", "PENDING")]
      PROVE  call' \in [Caller -> CallRecord] /\ CallShape'
  BY <1>1, <1>4, AnswerType, CallGoesOn DEF Error, Effective
<1>5. CASE /\ UNCHANGED <<run, restored>>
           /\ EndOperation(GpoOf[p])
           /\ call' = [call EXCEPT ![c] = Answer(c, "REFUSED", "PENDING")]
  <2>1. operations' \subseteq Gpo
    BY <1>3, <1>5 DEF EndOperation
  <2> QED BY <1>1, <1>3, <1>4, <1>5, <2>1, CallStepShape
<1>6. ASSUME NEW live \in VerifyResults(p), Learn(p, live.state),
             run' = [run EXCEPT ![p] = [live EXCEPT !.state = Started("refresh")]],
             call' = [call EXCEPT ![c].pc = "running", ![c].res = live.state],
             UNCHANGED operations
      PROVE  Shape'
  <2>1. live \in RunRecord
    BY <1>2, VerifyResultsType DEF Final
  <2>2. run' \in [Plan -> RunRecord]
    BY <1>2, <1>3, <1>6, <2>1, StartedInProgress
       DEF RunRecord, RunState, Operation
  <2>3. restored' \in [Plan -> {"no", "asked", "yes"}]
    BY <1>2, <1>6, LearnType
  <2>4. call' \in [Caller -> CallRecord] /\ CallShape'
    <3> DEFINE new == [call[c] EXCEPT !.pc = "running", !.res = live.state]
    <3>1. new \in CallRecord /\ new.op = call[c].op /\ new.plan = p
      BY <1>3, <2>1 DEF CallRecord, RunRecord
    <3>2. call' = [call EXCEPT ![c] = new]
      BY <1>3, <1>6
    <3> QED BY <1>1, <3>1, <3>2, CallGoesOn
  <2> QED BY <1>1, <1>3, <1>6, <2>2, <2>3, <2>4, CallStepShape
<1>7. ASSUME NEW live \in VerifyResults(p), Learn(p, live.state),
             run' = [run EXCEPT ![p] = live], EndOperation(GpoOf[p]),
             call' = [call EXCEPT ![c] = Answer(c, "REFUSED", "PENDING")]
      PROVE  Shape'
  <2>1. run' \in [Plan -> RunRecord]
    BY <1>2, <1>3, <1>7, VerifyResultsType DEF Final
  <2>2. restored' \in [Plan -> {"no", "asked", "yes"}]
    BY <1>2, <1>7, LearnType
  <2>3. operations' \subseteq Gpo
    BY <1>3, <1>7 DEF EndOperation
  <2> QED BY <1>1, <1>3, <1>4, <1>7, <2>1, <2>2, <2>3, CallStepShape
<1> QED BY <1>5, <1>6, <1>7 DEF RefreshLive

LEMMA WorkerReturnsShape ==
    ASSUME Shape, NEW c \in Caller, WorkerReturns(c) PROVE Shape'
<1> DEFINE p == call[c].plan
<1>1. /\ call[c].pc = "running" /\ CallUnchanged /\ UNCHANGED applies
      /\ EndOperation(GpoOf[p])
  BY DEF WorkerReturns
<1>2. p \in Plan
  BY <1>1 DEF Shape, CallShape
<1>3. /\ run \in [Plan -> RunRecord] /\ operations \subseteq Gpo
      /\ applies \in [Plan -> 0..2]
  BY DEF Shape, TypeOK, GateTypeOK
<1>4. PICK out \in Outcomes(c, p) :
        /\ run' = [run EXCEPT ![p] = out]
        /\ call' = [call EXCEPT ![c] = Answer(c, out.state, out.eff)]
        /\ Learn(p, out.state)
  BY DEF WorkerReturns
<1>5. out \in RunRecord
  BY <1>1, OutcomesType DEF Final
<1>6. run' \in [Plan -> RunRecord]
  BY <1>2, <1>3, <1>4, <1>5
<1>7. out.state \in RunState /\ out.eff \in Effective
  BY <1>5 DEF RunRecord
<1>8. call' \in [Caller -> CallRecord] /\ CallShape'
  BY <1>1, <1>4, <1>7, AnswerType, CallGoesOn
<1>9. restored' \in [Plan -> {"no", "asked", "yes"}]
  BY <1>2, <1>4, LearnType
<1>10. operations' \subseteq Gpo
  BY <1>1, <1>3 DEF EndOperation
<1> QED BY <1>1, <1>3, <1>6, <1>8, <1>9, <1>10, CallStepShape

LEMMA CallStepsShape ==
    ASSUME Shape, NEW c \in Caller, CallStep(c) PROVE Shape'
  BY ClaimBusyShape, ClaimAnsweredShape, ClaimShape, RefreshLiveShape,
     WorkerReturnsShape DEF CallStep

LEMMA ClientShape ==
    ASSUME Shape, NEW c \in Client, ClientStep(c)
    PROVE  Shape' /\ CallsQuiet
<1>1. c \in Caller
  BY DEF Caller
<1>2. CallUnchanged /\ UNCHANGED <<run, operations, applies, restored>>
  BY DEF ClientStep, DirectCall, DirectCallAnswered
<1>3. call' \in [Caller -> CallRecord] /\ CallShape' /\ CallsQuiet
  <2>1. CASE DirectCall(c)
    <3>1. PICK d \in DirectCalls : Invoke(c, d[1], d[2], NoJob, FALSE)
      BY <2>1 DEF DirectCall
    <3>2. d[1] \in Operation /\ d[2] \in Plan
      BY CallerAssumption
    <3> QED BY <1>1, <3>1, <3>2, InvokeShape
  <2>2. CASE DirectCallAnswered(c)
    BY <1>1, <2>2, HangUpShape DEF DirectCallAnswered
  <2> QED BY <2>1, <2>2 DEF ClientStep
<1>4. /\ run \in [Plan -> RunRecord] /\ operations \subseteq Gpo
      /\ applies \in [Plan -> 0..2]
      /\ restored \in [Plan -> {"no", "asked", "yes"}]
  BY DEF Shape, TypeOK, GateTypeOK
<1> QED BY <1>2, <1>3, <1>4, CallStepShape

-----------------------------------------------------------------------------
(* The background reader.                                                  *)

\* The variables that most steps of the reader do not write.
LEMMA ReaderMoves ==
    ASSUME Shape, ReaderUnchanged, UNCHANGED <<run, job, queue, service, reservations>>,
           reader' \in ReaderRecord, ReaderShape',
           call' \in [Caller -> CallRecord], CallShape'
    PROVE  Shape'
<1>1. UNCHANGED <<validated, follow, maintenance, operations, applies, restored,
                  downs>>
  BY DEF ReaderUnchanged
<1>2. TypeOK'
  BY <1>1 DEF Shape, TypeOK, GateTypeOK
<1> QED BY <1>1, <1>2, JobSame, FollowFrame, PlansFrame DEF Shape

LEMMA ReaderCallSame ==
    ASSUME Shape, call' = call
    PROVE  call' \in [Caller -> CallRecord] /\ CallShape' /\ CallsQuiet
  BY CallFrame DEF Shape, TypeOK, CallsQuiet

\* The workflow in the reader's hands.
LEMMA CurrentType ==
    ASSUME Shape, reader.stage \notin {"idle", "faulted"}
    PROVE  /\ Current \in Job
           /\ job[Current] \in JobRecord
           /\ job[Current].state # "none"
           /\ CurrentRequest \in [action : Operation \cup {"scan"}, plans : Seq(Plan),
                                  source : Job \cup {NoJob}, refresh : BOOLEAN,
                                  rounds : 0..3]
           /\ reader \in ReaderRecord
  BY RequestAssumption DEF Shape, TypeOK, ReaderShape, Current, CurrentRequest

LEMMA ClosingShape ==
    ASSUME Shape, reader.stage \notin {"idle", "faulted"}, job' = job,
           NEW state \in Finished, reader' = Closing(state)
    PROVE  reader' \in ReaderRecord /\ ReaderShape'
<1>1. reader \in ReaderRecord
  BY DEF Shape, TypeOK
<1>2. reader' \in ReaderRecord /\ reader'.job = reader.job /\ reader'.stage = "finish"
      /\ reader'.outcome \in Finished
  BY <1>1 DEF ReaderRecord, Stage, Closing, JobState
<1> QED BY <1>2 DEF Shape, ReaderShape

LEMMA FirstPosition == 1 \in Nat \ {0}
  OBVIOUS

\* The reader's record with a new position, or a new stage.
LEMMA ReaderPositions ==
    ASSUME NEW r \in ReaderRecord, NEW stage \in Stage, NEW n \in Nat \ {0}
    PROVE  /\ [r EXCEPT !.n = n, !.stage = stage] \in ReaderRecord
           /\ [r EXCEPT !.n = n, !.stage = stage].job = r.job
           /\ [r EXCEPT !.n = n, !.stage = stage].stage = stage
  BY Zenon DEF ReaderRecord

LEMMA ReaderChecks ==
    ASSUME NEW r \in ReaderRecord, NEW n \in Nat \ {0}, NEW pending \in BOOLEAN
    PROVE  /\ [r EXCEPT !.n = n, !.pending = pending] \in ReaderRecord
           /\ [r EXCEPT !.n = n, !.pending = pending].job = r.job
           /\ [r EXCEPT !.n = n, !.pending = pending].stage = r.stage
  BY Zenon DEF ReaderRecord

\* The reader goes on to a stage that its request has.
LEMMA StageShape ==
    ASSUME Shape, job' = job, reader' \in ReaderRecord, reader'.job = reader.job,
           reader.stage \in {"marks", "refresh", "checks", "close"},
           reader'.stage \in {"marks", "refresh", "checks", "close"},
           reader'.stage = "marks" => reader.stage = "marks"
    PROVE  ReaderShape'
  BY DEF Shape, ReaderShape

LEMMA ScanEndsShape == ASSUME Shape, ScanEnds PROVE Shape'
<1>1. /\ reader.stage = "scan" /\ ReaderUnchanged
      /\ UNCHANGED <<run, job, queue, service, call, reservations>>
  BY DEF ScanEnds, Working
<1>2. PICK state \in {"COMPLETED", "NEEDS_REVIEW", "WAITING_CONNECTION"} :
        reader' = Closing(state)
  BY DEF ScanEnds
<1>3. state \in Finished
  BY DEF Finished
<1> QED BY <1>1, <1>2, <1>3, ClosingShape, ReaderCallSame, ReaderMoves

LEMMA StepStoppedShape == ASSUME Shape, StepStopped PROVE Shape'
<1>1. /\ reader.stage = "steps" /\ ReaderUnchanged
      /\ UNCHANGED <<run, job, queue, service, call, reservations>>
      /\ reader' = Closing("WAITING_CONNECTION")
  BY DEF StepStopped, Working
<1>2. "WAITING_CONNECTION" \in Finished
  BY DEF Finished
<1> QED BY <1>1, <1>2, ClosingShape, ReaderCallSame, ReaderMoves

LEMMA StepRefusedShape == ASSUME Shape, StepRefused PROVE Shape'
<1>1. /\ reader.stage = "steps" /\ ReaderUnchanged
      /\ UNCHANGED <<run, job, queue, service, call, reservations>>
  BY DEF StepRefused, Working
<1>2. PICK state \in {"NEEDS_REVIEW", "WAITING_CONNECTION"} : reader' = Closing(state)
  BY DEF StepRefused
<1>3. state \in Finished
  BY DEF Finished
<1> QED BY <1>1, <1>2, <1>3, ClosingShape, ReaderCallSame, ReaderMoves

\* An invocation by the reader leaves the reader where it is.
LEMMA ReaderInvokes ==
    ASSUME Shape, NEW op \in Operation, NEW p \in Plan, NEW anchored,
           Current \in Job, Invoke(Reader, op, p, Current, anchored),
           ReaderUnchanged,
           UNCHANGED <<run, job, queue, service, reader, reservations>>
    PROVE  Shape' /\ CallsQuiet
<1>1. Reader \in Caller
  BY DEF Caller
<1>2. call' \in [Caller -> CallRecord] /\ CallShape' /\ CallsQuiet
  BY <1>1, InvokeShape
<1>3. reader' \in ReaderRecord /\ ReaderShape'
  BY JobSame, ReaderFrame DEF Shape, TypeOK
<1> QED BY <1>2, <1>3, ReaderMoves

LEMMA StepStartShape == ASSUME Shape, StepStart PROVE Shape' /\ CallsQuiet
<1>1. /\ reader.stage = "steps" /\ ReaderUnchanged
      /\ UNCHANGED <<run, job, queue, service, reader, reservations>>
      /\ Invoke(Reader, CurrentRequest.action, StepPlan, Current,
                CurrentRequest.source # NoJob)
  BY DEF StepStart, Working
<1>2. /\ Current \in Job /\ job[Current].plans \in Seq(Plan)
      /\ CurrentRequest.action \in Operation \cup {"scan"}
      /\ reader.n \in Nat \ {0}
  BY <1>1, CurrentType DEF JobRecord, ReaderRecord
<1>3. CurrentRequest.action # "scan" /\ reader.n <= Len(job[Current].plans)
  BY <1>1 DEF Shape, ReaderShape, Current, CurrentRequest
<1>4. job[Current].plans[reader.n] \in Plan
  BY <1>2, <1>3
<1>5. StepPlan \in Plan
  BY <1>4, PlanAssumption DEF StepPlan
<1> QED BY <1>1, <1>2, <1>3, <1>5, ReaderInvokes

LEMMA RefreshStartShape == ASSUME Shape, RefreshStart PROVE Shape' /\ CallsQuiet
<1>1. /\ reader.stage = "refresh" /\ ReaderUnchanged
      /\ UNCHANGED <<run, job, queue, service, reader, reservations>>
      /\ Invoke(Reader, "refresh", CurrentDone[Len(CurrentDone)], Current,
                CurrentRequest.source # NoJob)
  BY DEF RefreshStart, Working
<1>2. Current \in Job /\ CurrentDone \in Seq(Plan)
  BY <1>1, CurrentType DEF JobRecord, CurrentDone
<1>3. CurrentDone # <<>>
  BY <1>1 DEF Shape, ReaderShape, Current, CurrentDone
<1>4. CurrentDone[Len(CurrentDone)] \in Plan
  BY <1>2, <1>3
<1> QED BY <1>1, <1>2, <1>4, ReaderInvokes DEF Operation

LEMMA CheckStartShape == ASSUME Shape, CheckStart PROVE Shape' /\ CallsQuiet
<1>1. /\ reader.stage = "checks" /\ ReaderUnchanged
      /\ UNCHANGED <<run, job, queue, service, reader, reservations>>
      /\ reader.n <= Len(CurrentDone)
      /\ Invoke(Reader, "verify", CurrentDone[reader.n], Current, FALSE)
  BY DEF CheckStart, Working
<1>2. Current \in Job /\ CurrentDone \in Seq(Plan) /\ reader.n \in Nat \ {0}
  BY <1>1, CurrentType DEF JobRecord, CurrentDone, ReaderRecord
<1>3. CurrentDone[reader.n] \in Plan
  BY <1>1, <1>2
<1> QED BY <1>1, <1>2, <1>3, ReaderInvokes DEF Operation

\* The reader takes the answer of its invocation.
LEMMA ReaderHangsUp ==
    ASSUME Shape, ReaderAnswered, HangUp
    PROVE  call' \in [Caller -> CallRecord] /\ CallShape' /\ CallsQuiet
<1>1. Reader \in Caller
  BY DEF Caller
<1> QED BY <1>1, HangUpShape DEF ReaderAnswered, HangUp

LEMMA FailStateType == ASSUME NEW res PROVE FailState(res) \in Finished
  BY DEF FailState, Finished

LEMMA StepErrorShape == ASSUME Shape, StepError PROVE Shape' /\ CallsQuiet
<1>1. /\ reader.stage \in {"steps", "refresh", "checks"} /\ ReaderUnchanged
      /\ UNCHANGED <<run, job, queue, service, reservations>>
      /\ ReaderAnswered /\ HangUp
      /\ reader' = Closing(FailState(call[Reader].res))
  BY DEF StepError, Working
<1> QED BY <1>1, FailStateType, ClosingShape, ReaderHangsUp, ReaderMoves

\* Where a workflow goes after its steps and after its marks.
LEMMA AfterStages ==
    /\ AfterRefresh \in {"checks", "close"}
    /\ AfterMarks \in {"refresh", "checks", "close"}
    /\ AfterSteps \in {"marks", "refresh", "checks", "close"}
    /\ AfterSteps = "marks" => CurrentRequest.source # NoJob
  BY DEF AfterRefresh, AfterMarks, AfterSteps

LEMMA StepDoneShape == ASSUME Shape, StepDone PROVE Shape' /\ CallsQuiet
<1> DEFINE p == call[Reader].plan
<1>1. /\ reader.stage = "steps" /\ ReaderAnswered /\ HangUp
      /\ job' = [job EXCEPT ![Current].done = Append(@, p)]
      /\ UNCHANGED <<validated, follow, maintenance, operations, applies,
                     restored, downs, run, queue, service, reservations>>
  BY DEF StepDone, Working, ReaderUnchanged
<1>2. /\ Current \in Job /\ job[Current] \in JobRecord /\ reader \in ReaderRecord
      /\ job[Current].state # "none"
  BY <1>1, CurrentType
<1>3. p \in Plan
  BY <1>1 DEF Shape, CallShape, Caller, ReaderAnswered
<1>4. job \in [Job -> JobRecord]
  BY DEF Shape, TypeOK
<1>5. Append(job[Current].done, p) \in Seq(Plan)
  BY <1>2, <1>3 DEF JobRecord
<1>6. job' \in [Job -> JobRecord]
  BY <1>1, <1>2, <1>4, <1>5 DEF JobRecord
<1>7. /\ job'[Current].state = job[Current].state
      /\ job'[Current].plans = job[Current].plans
      /\ job'[Current].done = Append(job[Current].done, p)
      /\ \A j \in Job \ {Current} : job'[j] = job[j]
  BY <1>1, <1>2, <1>4 DEF JobRecord
<1>8. Len(job'[Current].done) = Len(job[Current].done) + 1
  BY <1>2, <1>3, <1>7 DEF JobRecord
<1>9. job'[Current].done # <<>>
  BY <1>5, <1>7, <1>8, <1>2 DEF JobRecord
<1>10. FollowShape'
  <2>1. ASSUME NEW j \in Job, follow[j].round > 0
        PROVE  job'[j].state # "none" /\ follow[j].n <= Len(job'[j].done)
    <3>1. job[j].state # "none" /\ follow[j].n <= Len(job[j].done)
      BY <2>1 DEF Shape, FollowShape
    <3>2. follow[j].n \in Nat /\ Len(job[j].done) \in Nat
      BY <1>4 DEF Shape, TypeOK, FollowRecord, JobRecord
    <3> QED BY <1>7, <1>8, <3>1, <3>2
  <2> QED BY <1>1, <2>1 DEF FollowShape
<1>11. PlansShape'
  BY <1>1, <1>7 DEF Shape, PlansShape
<1>12. Current = reader.job /\ Request[reader.job].action # "scan"
  BY <1>1 DEF Shape, ReaderShape, Current
<1>13. reader' \in ReaderRecord /\ ReaderShape'
  <2>1. CASE reader' = Closing("NEEDS_REVIEW")
    <3>1. reader' \in ReaderRecord /\ reader'.job = reader.job
          /\ reader'.stage = "finish" /\ reader'.outcome \in Finished
      BY <1>2, <2>1 DEF Closing, ReaderRecord, Stage, JobState, Finished
    <3> QED BY <1>2, <1>7, <1>12, <3>1 DEF ReaderShape
  <2>2. CASE reader.n < Len(job[Current].plans) /\ reader' = [reader EXCEPT !.n = @ + 1]
    <3>1. reader' \in ReaderRecord /\ reader'.job = reader.job
          /\ reader'.stage = "steps" /\ reader'.n = reader.n + 1
      BY <1>1, <1>2, <2>2 DEF ReaderRecord
    <3>2. reader'.n <= Len(job'[Current].plans)
      BY <1>2, <1>7, <2>2, <3>1 DEF ReaderRecord, JobRecord
    <3> QED BY <1>2, <1>7, <1>12, <3>1, <3>2 DEF ReaderShape
  <2>3. CASE reader' = [reader EXCEPT !.n = 1, !.stage = AfterSteps]
    <3>1. AfterSteps \in Stage
      BY AfterStages DEF Stage
    <3>2. reader' \in ReaderRecord /\ reader'.job = reader.job
          /\ reader'.stage = AfterSteps
      BY <1>2, <2>3, <3>1, ReaderPositions, FirstPosition
    <3> QED BY <1>2, <1>7, <1>9, <1>12, <3>2, AfterStages
            DEF ReaderShape, CurrentRequest
  <2> QED BY <2>1, <2>2, <2>3 DEF StepDone
<1>14. call' \in [Caller -> CallRecord] /\ CallShape' /\ CallsQuiet
  BY <1>1, ReaderHangsUp
<1>15. TypeOK'
  BY <1>1, <1>6, <1>13, <1>14 DEF Shape, TypeOK, GateTypeOK
<1> QED BY <1>10, <1>11, <1>13, <1>14, <1>15 DEF Shape

LEMMA MarkShape == ASSUME Shape, Mark PROVE Shape'
<1>1. /\ reader.stage = "marks" /\ reader.n <= Len(Batch)
      /\ UNCHANGED <<validated, follow, maintenance, operations, applies,
                     restored, downs, job, queue, service, call, reservations>>
      /\ reader' = [reader EXCEPT !.n = @ + 1]
  BY DEF Mark, Working, ReaderUnchanged
<1>2. Current \in Job /\ reader \in ReaderRecord
      /\ CurrentRequest.source \in Job \cup {NoJob}
  BY <1>1, CurrentType
<1>3. CurrentRequest.source \in Job
  BY <1>1, <1>2 DEF Shape, ReaderShape, Current, CurrentRequest
<1>4. Batch[reader.n] \in Plan
  BY <1>1, <1>2, <1>3 DEF Batch, Shape, TypeOK, JobRecord, ReaderRecord
<1>5. run' \in [Plan -> RunRecord]
  <2>1. run \in [Plan -> RunRecord]
    BY DEF Shape, TypeOK
  <2>2. CASE run' = run
    BY <2>1, <2>2
  <2>3. CASE run' = [run EXCEPT ![Batch[reader.n]].state = "BATCH_ROLLED_BACK",
                                ![Batch[reader.n]].eff = "PENDING"]
    BY <1>4, <2>1, <2>3 DEF RunRecord, RunState, Effective
  <2> QED BY <2>2, <2>3 DEF Mark
<1>6. reader' \in ReaderRecord /\ reader'.job = reader.job /\ reader'.stage = "marks"
  BY <1>1, <1>2 DEF ReaderRecord
<1>7. ReaderShape'
  BY <1>1, <1>6, StageShape
<1>8. TypeOK'
  BY <1>1, <1>5, <1>6 DEF Shape, TypeOK, GateTypeOK
<1> QED BY <1>1, <1>7, <1>8, JobSame, FollowFrame, CallFrame, PlansFrame DEF Shape

\* From one stage after the steps to another one.
LEMMA StageMoves ==
    ASSUME Shape, ReaderUnchanged, UNCHANGED <<run, job, queue, service, reservations>>,
           call' \in [Caller -> CallRecord], CallShape',
           reader.stage \in {"marks", "refresh", "checks", "close"},
           NEW stage \in {"refresh", "checks", "close"},
           NEW n \in Nat \ {0}, NEW pending \in BOOLEAN,
           reader' = [reader EXCEPT !.stage = stage, !.n = n, !.pending = pending]
    PROVE  Shape'
<1>1. reader \in ReaderRecord
  BY DEF Shape, TypeOK
<1>2. reader' \in ReaderRecord /\ reader'.job = reader.job /\ reader'.stage = stage
  BY <1>1 DEF ReaderRecord, Stage
<1>3. ReaderShape'
  BY <1>2, StageShape
<1> QED BY <1>2, <1>3, ReaderMoves

LEMMA MarksDoneShape == ASSUME Shape, MarksDone PROVE Shape'
<1>1. /\ reader.stage = "marks" /\ ReaderUnchanged
      /\ UNCHANGED <<run, job, queue, service, call, reservations>>
      /\ reader' = [reader EXCEPT !.n = 1, !.stage = AfterMarks]
  BY DEF MarksDone, Working
<1>2. reader \in ReaderRecord
  BY DEF Shape, TypeOK
<1>3. reader' = [reader EXCEPT !.stage = AfterMarks, !.n = 1, !.pending = reader.pending]
      /\ reader.pending \in BOOLEAN
  BY <1>1, <1>2 DEF ReaderRecord
<1>4. AfterMarks \in {"refresh", "checks", "close"}
  BY AfterStages
<1>5. call' \in [Caller -> CallRecord] /\ CallShape'
  BY <1>1, ReaderCallSame
<1> QED BY <1>1, <1>3, <1>4, <1>5, StageMoves, FirstPosition

LEMMA RefreshDoneShape == ASSUME Shape, RefreshDone PROVE Shape' /\ CallsQuiet
<1>1. /\ reader.stage = "refresh" /\ ReaderUnchanged
      /\ UNCHANGED <<run, job, queue, service, reservations>>
      /\ ReaderAnswered /\ HangUp
      /\ \/ reader' = Closing("NEEDS_REVIEW")
         \/ reader' = [reader EXCEPT !.stage = AfterRefresh]
  BY DEF RefreshDone, Working
<1>2. call' \in [Caller -> CallRecord] /\ CallShape' /\ CallsQuiet
  BY <1>1, ReaderHangsUp
<1>3. "NEEDS_REVIEW" \in Finished
  BY DEF Finished
<1>4. CASE reader' = Closing("NEEDS_REVIEW")
  BY <1>1, <1>2, <1>3, <1>4, ClosingShape, ReaderMoves
<1>5. CASE reader' = [reader EXCEPT !.stage = AfterRefresh]
  <2>1. reader \in ReaderRecord
    BY DEF Shape, TypeOK
  <2>2. /\ reader' = [reader EXCEPT !.stage = AfterRefresh, !.n = reader.n,
                                    !.pending = reader.pending]
        /\ reader.n \in Nat \ {0} /\ reader.pending \in BOOLEAN
    BY <1>5, <2>1 DEF ReaderRecord
  <2> QED BY <1>1, <1>2, <2>2, AfterStages, StageMoves
<1> QED BY <1>1, <1>2, <1>4, <1>5

\* The judgement of one verified operation.
LEMMA CheckMeasuredShape ==
    ASSUME Shape, reader.stage = "checks", ReaderUnchanged,
           UNCHANGED <<run, job, queue, service, reservations>>,
           call' \in [Caller -> CallRecord], CallShape',
           NEW state, NEW eff, CheckMeasured(state, eff)
    PROVE  Shape'
<1>1. reader \in ReaderRecord
  BY DEF Shape, TypeOK
<1>2. "NEEDS_REVIEW" \in Finished
  BY DEF Finished
<1>3. CASE reader' = Closing("NEEDS_REVIEW")
  BY <1>2, <1>3, ClosingShape, ReaderMoves
<1>4. ASSUME NEW n \in Nat \ {0}, NEW pending \in BOOLEAN,
             reader' = [reader EXCEPT !.n = n, !.pending = pending]
      PROVE  Shape'
  <2>1. reader' \in ReaderRecord /\ reader'.job = reader.job
        /\ reader'.stage = reader.stage
    BY <1>1, <1>4, ReaderChecks, Zenon
  <2>2. ReaderShape'
    BY <2>1, StageShape
  <2> QED BY <2>1, <2>2, ReaderMoves
<1> DEFINE n == reader.n + 1
<1>5. n \in Nat \ {0} /\ reader.pending \in BOOLEAN
  BY <1>1 DEF ReaderRecord
<1> HIDE DEF n
<1>6. CASE reader' = [reader EXCEPT !.n = n]
  <2>1. reader' = [reader EXCEPT !.n = n, !.pending = reader.pending]
    BY <1>1, <1>6 DEF ReaderRecord
  <2> QED BY <1>4, <1>5, <2>1
<1>7. CASE reader' = [reader EXCEPT !.n = n, !.pending = @ \/ eff # "VERIFIED"]
  <2> DEFINE pending == reader.pending \/ eff # "VERIFIED"
  <2>1. pending \in BOOLEAN
    OBVIOUS
  <2>2. reader' = [reader EXCEPT !.n = n, !.pending = pending]
    BY <1>7
  <2> HIDE DEF pending
  <2> QED BY <1>4, <1>5, <2>1, <2>2
<1> QED BY <1>3, <1>6, <1>7 DEF CheckMeasured, n

LEMMA CheckDoneShape == ASSUME Shape, CheckDone PROVE Shape' /\ CallsQuiet
<1>1. /\ reader.stage = "checks" /\ ReaderUnchanged
      /\ UNCHANGED <<run, job, queue, service, reservations>>
      /\ ReaderAnswered /\ HangUp
      /\ CheckMeasured(call[Reader].res, call[Reader].eff)
  BY DEF CheckDone, Working
<1>2. call' \in [Caller -> CallRecord] /\ CallShape' /\ CallsQuiet
  BY <1>1, ReaderHangsUp
<1> QED BY <1>1, <1>2, CheckMeasuredShape

LEMMA CheckReadShape == ASSUME Shape, CheckRead PROVE Shape'
<1>1. /\ reader.stage = "checks" /\ ReaderUnchanged
      /\ UNCHANGED <<run, job, queue, service, call, reservations>>
      /\ CheckMeasured(run[CurrentDone[reader.n]].state,
                       run[CurrentDone[reader.n]].eff)
  BY DEF CheckRead, Working
<1> QED BY <1>1, ReaderCallSame, CheckMeasuredShape

LEMMA ChecksDoneShape == ASSUME Shape, ChecksDone PROVE Shape'
<1>1. /\ reader.stage = "checks" /\ ReaderUnchanged
      /\ UNCHANGED <<run, job, queue, service, call, reservations>>
      /\ reader' = [reader EXCEPT !.stage = "close"]
  BY DEF ChecksDone, Working
<1>2. reader \in ReaderRecord
  BY DEF Shape, TypeOK
<1>3. /\ reader' = [reader EXCEPT !.stage = "close", !.n = reader.n,
                                  !.pending = reader.pending]
      /\ reader.n \in Nat \ {0} /\ reader.pending \in BOOLEAN
  BY <1>1, <1>2 DEF ReaderRecord
<1> QED BY <1>1, <1>3, ReaderCallSame, StageMoves

\* A step of the reader or of a follow-up task writes the state of one accepted
\* record.
LEMMA StateWritten ==
    ASSUME Shape, NEW j \in Job, job[j].state # "none",
           NEW state \in JobState \ {"none"},
           job' = [job EXCEPT ![j].state = state]
    PROVE  job' \in [Job -> JobRecord] /\ JobKeeps
           /\ (validated' = validated => PlansShape')
<1>1. job \in [Job -> JobRecord]
  BY DEF Shape, TypeOK
<1>2. job' \in [Job -> JobRecord]
  BY <1>1 DEF JobRecord
<1>3. \A k \in Job : job'[k].plans = job[k].plans /\ job'[k].done = job[k].done
                     /\ (k # j => job'[k] = job[k])
  BY <1>1 DEF JobRecord
<1>4. job'[j].state = state
  BY <1>1 DEF JobRecord
<1>5. JobKeeps
  BY <1>3, <1>4 DEF JobKeeps
<1>6. ASSUME validated' = validated PROVE PlansShape'
  BY <1>3, <1>6 DEF Shape, PlansShape
<1> QED BY <1>2, <1>5, <1>6

\* A reader, and a follow-up, at its start.
LEMMA IdleReaderType ==
    ASSUME NEW j \in Job \cup {NoJob}, NEW stage \in Stage
    PROVE  /\ [ReaderIdle EXCEPT !.job = j, !.stage = stage] \in ReaderRecord
           /\ [ReaderIdle EXCEPT !.job = j, !.stage = stage].job = j
           /\ [ReaderIdle EXCEPT !.job = j, !.stage = stage].stage = stage
           /\ [ReaderIdle EXCEPT !.job = j, !.stage = stage].n = 1
           /\ [ReaderIdle EXCEPT !.stage = stage] \in ReaderRecord
           /\ [ReaderIdle EXCEPT !.stage = stage].stage = stage
           /\ ReaderIdle \in ReaderRecord
           /\ ReaderIdle.stage = "idle"
<1>1. ReaderIdle \in ReaderRecord
  <2>1. "none" \in JobState /\ "idle" \in Stage
    BY DEF JobState, Stage
  <2> QED BY <2>1, FirstPosition, Zenon DEF ReaderIdle, ReaderRecord
<1>2. ReaderIdle.n = 1 /\ ReaderIdle.stage = "idle"
  BY DEF ReaderIdle
<1> QED BY <1>1, <1>2, Zenon DEF ReaderRecord

LEMMA FirstRoundType ==
    LET first == [FollowOff EXCEPT !.round = 1]
    IN  /\ FollowOff \in FollowRecord /\ FollowOff.round = 0
        /\ first \in FollowRecord /\ first.n = 1
<1>1. 0 \in 0..3 /\ 1 \in 0..3
  OBVIOUS
<1>2. FollowOff \in FollowRecord
  BY <1>1, FirstPosition, Zenon DEF FollowOff, FollowRecord
<1>3. FollowOff.n = 1 /\ FollowOff.round = 0
  BY DEF FollowOff
<1> QED BY <1>1, <1>2, <1>3, Zenon DEF FollowRecord

LEMMA DequeueShape == ASSUME Shape, Dequeue PROVE Shape'
<1> DEFINE j == Head(queue)
           stage == IF Request[j].action = "scan" THEN "scan" ELSE "steps"
<1>1. /\ queue # <<>> /\ queue' = Tail(queue) /\ job[j].state # "none"
      /\ job' = [job EXCEPT ![j].state = "RUNNING"]
      /\ reader' = [ReaderIdle EXCEPT !.job = j, !.stage = stage]
      /\ UNCHANGED <<validated, follow, maintenance, operations, applies,
                     restored, downs, run, service, call, reservations>>
  BY DEF Dequeue, ReaderUnchanged
<1>2. j \in Job /\ queue' \in Seq(Job)
  BY <1>1 DEF Shape, TypeOK
<1>3. "RUNNING" \in JobState \ {"none"}
  BY DEF JobState, Unfinished
<1>4. job' \in [Job -> JobRecord] /\ JobKeeps /\ PlansShape'
  BY <1>1, <1>2, <1>3, StateWritten
<1>5. /\ reader'.job = j /\ reader'.stage = stage /\ reader'.n = 1
      /\ reader' \in ReaderRecord
  <2>1. stage \in Stage
    BY DEF Stage
  <2> HIDE DEF stage
  <2> QED BY <1>1, <1>2, <2>1, IdleReaderType
<1>6. ReaderShape'
  <2>1. job'[j].state # "none"
    BY <1>1, <1>2, <1>4 DEF JobKeeps
  <2>2. ASSUME stage = "steps" PROVE Request[j].action # "scan" /\ 1 <= Len(job'[j].plans)
    <3>1. job[j].plans # <<>> /\ job[j].plans \in Seq(Plan)
      BY <1>1, <1>2, <2>2 DEF Shape, PlansShape, TypeOK, JobRecord
    <3>2. job'[j].plans = job[j].plans
      BY <1>1, <1>2, <1>4 DEF JobKeeps
    <3> QED BY <2>2, <3>1, <3>2
  <2> QED BY <1>2, <1>5, <2>1, <2>2 DEF ReaderShape
<1>7. TypeOK'
  BY <1>1, <1>2, <1>4, <1>5 DEF Shape, TypeOK, GateTypeOK
<1> QED BY <1>1, <1>4, <1>6, <1>7, FollowFrame, CallFrame DEF Shape

LEMMA DequeueWithoutRecordShape == ASSUME Shape, DequeueWithoutRecord PROVE Shape'
<1>1. /\ queue # <<>> /\ queue' = Tail(queue) /\ service' = "stopping"
      /\ reader' = [ReaderIdle EXCEPT !.stage = "faulted"]
      /\ UNCHANGED <<validated, follow, maintenance, operations, applies,
                     restored, downs, run, job, call, reservations>>
  BY DEF DequeueWithoutRecord, ReaderUnchanged
<1>2. queue' \in Seq(Job)
  BY <1>1 DEF Shape, TypeOK
<1>3. reader' \in ReaderRecord /\ reader'.stage = "faulted"
  <2>1. "faulted" \in Stage
    BY DEF Stage
  <2> QED BY <1>1, <2>1, IdleReaderType
<1>4. ReaderShape'
  BY <1>3 DEF ReaderShape
<1>5. TypeOK'
  BY <1>1, <1>2, <1>3 DEF Shape, TypeOK, GateTypeOK
<1> QED BY <1>1, <1>4, <1>5, JobSame, FollowFrame, CallFrame, PlansFrame DEF Shape

LEMMA ScheduleShape == ASSUME Shape, Schedule PROVE Shape'
<1> DEFINE first == [FollowOff EXCEPT !.round = 1]
<1>1. /\ reader.stage = "close"
      /\ job' = [job EXCEPT ![Current].state = "VERIFY_SCHEDULED"]
      /\ follow' = [follow EXCEPT ![Current] = first]
      /\ reader' = [reader EXCEPT !.stage = "release"]
      /\ UNCHANGED <<maintenance, operations, reservations, run, service,
                     validated, queue, call, applies, restored, downs>>
  BY DEF Schedule, Working, gateVars, historyVars
<1>2. /\ Current \in Job /\ job[Current].state # "none" /\ reader \in ReaderRecord
      /\ job[Current] \in JobRecord
  BY <1>1, CurrentType
<1>3. "VERIFY_SCHEDULED" \in JobState \ {"none"}
  BY DEF JobState, Unfinished
<1>4. job' \in [Job -> JobRecord] /\ JobKeeps /\ PlansShape'
  BY <1>1, <1>2, <1>3, StateWritten
<1>5. /\ first \in FollowRecord /\ first.n = 1
      /\ follow \in [Job -> FollowRecord]
  BY FirstRoundType DEF Shape, TypeOK
<1>6. reader' \in ReaderRecord /\ reader'.job = reader.job /\ reader'.stage = "release"
  BY <1>1, <1>2 DEF ReaderRecord, Stage
<1>7. ReaderShape'
  BY <1>2, <1>4, <1>6 DEF ReaderShape, JobKeeps, Current
<1>8. FollowShape'
  <2>1. job[Current].done # <<>> /\ job[Current].done \in Seq(Plan)
    BY <1>1, <1>2 DEF Shape, ReaderShape, Current, JobRecord
  <2>2. 1 <= Len(job'[Current].done)
    BY <1>2, <1>4, <2>1 DEF JobKeeps
  <2>3. ASSUME NEW j \in Job, follow'[j].round > 0
        PROVE  job'[j].state # "none" /\ follow'[j].n <= Len(job'[j].done)
    <3>1. CASE j = Current
      BY <1>1, <1>2, <1>4, <1>5, <2>2, <3>1 DEF JobKeeps
    <3>2. CASE j # Current
      BY <1>1, <1>4, <1>5, <2>3, <3>2 DEF JobKeeps, Shape, FollowShape
    <3> QED BY <3>1, <3>2
  <2> QED BY <2>3 DEF FollowShape
<1>9. TypeOK'
  BY <1>1, <1>4, <1>5, <1>6 DEF Shape, TypeOK, GateTypeOK
<1> QED BY <1>1, <1>4, <1>7, <1>8, <1>9, CallFrame DEF Shape

LEMMA CloseShape == ASSUME Shape, Close PROVE Shape'
<1>1. /\ reader.stage = "close" /\ ReaderUnchanged
      /\ UNCHANGED <<run, job, queue, service, call, reservations>>
  BY DEF Close, Working
<1>2. PICK state \in {"CHECKS_INCOMPLETE", "COMPLETED"} : reader' = Closing(state)
  BY DEF Close
<1>3. state \in Finished
  BY DEF Finished
<1> QED BY <1>1, <1>2, <1>3, ClosingShape, ReaderCallSame, ReaderMoves

LEMMA FinishJobShape == ASSUME Shape, FinishJob PROVE Shape'
<1>1. /\ reader.stage = "finish"
      /\ job' = [job EXCEPT ![Current].state = reader.outcome]
      /\ reader' = [reader EXCEPT !.stage = "release"]
      /\ UNCHANGED <<validated, follow, maintenance, operations, applies,
                     restored, downs, run, queue, service, call, reservations>>
  BY DEF FinishJob, Working, ReaderUnchanged
<1>2. Current \in Job /\ job[Current].state # "none" /\ reader \in ReaderRecord
  BY <1>1, CurrentType
<1>3. reader.outcome \in JobState \ {"none"}
  BY <1>1 DEF Shape, ReaderShape, JobState, Finished
<1>4. job' \in [Job -> JobRecord] /\ JobKeeps /\ PlansShape'
  BY <1>1, <1>2, <1>3, StateWritten
<1>5. reader' \in ReaderRecord /\ reader'.job = reader.job /\ reader'.stage = "release"
  BY <1>1, <1>2 DEF ReaderRecord, Stage
<1>6. ReaderShape'
  BY <1>2, <1>4, <1>5 DEF ReaderShape, JobKeeps, Current
<1>7. TypeOK'
  BY <1>1, <1>4, <1>5 DEF Shape, TypeOK, GateTypeOK
<1> QED BY <1>1, <1>4, <1>6, <1>7, FollowFrame, CallFrame DEF Shape

LEMMA ReleaseJobShape == ASSUME Shape, ReleaseJob PROVE Shape'
<1>1. /\ reader.stage = "release" /\ reader' = ReaderIdle
      /\ UNCHANGED <<validated, follow, maintenance, operations, applies,
                     restored, downs, run, job, queue, service, call>>
  BY DEF ReleaseJob, Working, ReaderUnchanged
<1>2. reservations' \in [Gpo -> Job \cup {NoJob}]
  <2>1. reservations \in [Gpo -> Job \cup {NoJob}]
    BY DEF Shape, TypeOK, GateTypeOK
  <2>2. CASE UNCHANGED reservations
    BY <2>1, <2>2
  <2>3. ASSUME NEW g, Release(g, Current)
        PROVE  reservations' \in [Gpo -> Job \cup {NoJob}]
    BY <2>1, <2>3 DEF Release
  <2> QED BY <2>2, <2>3 DEF ReleaseJob
<1>3. reader' \in ReaderRecord /\ reader'.stage = "idle"
  BY <1>1, IdleReaderType DEF Stage
<1>4. ReaderShape'
  BY <1>3 DEF ReaderShape
<1>5. TypeOK'
  BY <1>1, <1>2, <1>3 DEF Shape, TypeOK, GateTypeOK
<1> QED BY <1>1, <1>4, <1>5, JobSame, FollowFrame, CallFrame, PlansFrame DEF Shape

LEMMA ReaderStepShape == ASSUME Shape, ReaderStep PROVE Shape'
  BY DequeueShape, DequeueWithoutRecordShape, ScanEndsShape, StepStoppedShape,
     StepRefusedShape, StepStartShape, StepErrorShape, StepDoneShape, MarkShape,
     MarksDoneShape, RefreshStartShape, RefreshDoneShape, CheckStartShape,
     CheckDoneShape, CheckReadShape, ChecksDoneShape, ScheduleShape, CloseShape,
     FinishJobShape, ReleaseJobShape, Zenon DEF ReaderStep

-----------------------------------------------------------------------------
(* The follow-up tasks.                                                    *)

\* The variables that no step of a follow-up writes.
LEMMA FollowMoves ==
    ASSUME Shape, FollowUnchanged, job' \in [Job -> JobRecord], JobKeeps,
           PlansShape', follow' \in [Job -> FollowRecord], FollowShape',
           call' \in [Caller -> CallRecord], CallShape'
    PROVE  Shape'
<1>1. UNCHANGED <<run, service, validated, queue, reader, maintenance, operations,
                  reservations, applies, restored, downs>>
  BY DEF FollowUnchanged, gateVars, historyVars
<1>2. TypeOK'
  BY <1>1 DEF Shape, TypeOK, GateTypeOK
<1> QED BY <1>1, <1>2, ReaderFrame DEF Shape

\* The task of an accepted workflow, at one of its completed operations.
LEMMA DueType ==
    ASSUME Shape, NEW j \in Job, Due(j)
    PROVE  /\ job[j].state # "none" /\ job[j].done \in Seq(Plan)
           /\ follow[j] \in FollowRecord
           /\ follow[j].n \in Nat \ {0} /\ follow[j].n <= Len(job[j].done)
           /\ job[j].done[follow[j].n] \in Plan
<1>1. /\ job[j].state # "none" /\ follow[j].n <= Len(job[j].done)
      /\ job[j].done \in Seq(Plan) /\ follow[j] \in FollowRecord
  BY DEF Due, Shape, FollowShape, TypeOK, JobRecord
<1>2. follow[j].n \in Nat \ {0}
  BY <1>1 DEF FollowRecord
<1> QED BY <1>1, <1>2

LEMMA FollowStartShape ==
    ASSUME Shape, NEW j \in Job, FollowStart(j) PROVE Shape' /\ CallsQuiet
<1>1. /\ Due(j) /\ UNCHANGED <<job, follow>> /\ FollowUnchanged
      /\ Invoke(j, "verify", job[j].done[follow[j].n], NoJob, FALSE)
  BY DEF FollowStart
<1>2. j \in Caller /\ "verify" \in Operation
  BY DEF Caller, Operation
<1>3. call' \in [Caller -> CallRecord] /\ CallShape' /\ CallsQuiet
  BY <1>1, <1>2, DueType, InvokeShape
<1>4. PlansShape'
  BY <1>1, PlansFrame DEF FollowUnchanged, Shape
<1>5. JobKeeps /\ FollowShape'
  BY <1>1, JobSame, FollowFrame DEF Shape
<1>6. job' \in [Job -> JobRecord] /\ follow' \in [Job -> FollowRecord]
  BY <1>1 DEF Shape, TypeOK
<1> QED BY <1>1, <1>3, <1>4, <1>5, <1>6, FollowMoves

\* A task ends with a final state in its record.
LEMMA EndFollowShape ==
    ASSUME Shape, NEW j \in Job, Due(j), NEW state \in Finished,
           EndFollow(j, state), validated' = validated
    PROVE  /\ job' \in [Job -> JobRecord] /\ JobKeeps /\ PlansShape'
           /\ follow' \in [Job -> FollowRecord] /\ FollowShape'
<1>1. state \in JobState \ {"none"}
  BY DEF JobState, Finished
<1>2. job' \in [Job -> JobRecord] /\ JobKeeps /\ PlansShape'
  BY <1>1, DueType, StateWritten DEF EndFollow
<1>3. follow \in [Job -> FollowRecord] /\ follow' = [follow EXCEPT ![j] = FollowOff]
  BY DEF Shape, TypeOK, EndFollow
<1>4. follow' \in [Job -> FollowRecord]
  BY <1>3, FirstRoundType
<1>5. ASSUME NEW k \in Job, follow'[k].round > 0
      PROVE  job'[k].state # "none" /\ follow'[k].n <= Len(job'[k].done)
  <2>1. k # j
    BY <1>3, <1>5, FirstRoundType
  <2> QED BY <1>2, <1>3, <1>5, <2>1 DEF Shape, FollowShape, JobKeeps
<1> QED BY <1>2, <1>4, <1>5 DEF FollowShape

\* A task goes on to its next operation or round, or ends.
LEMMA FollowNextShape ==
    ASSUME Shape, NEW j \in Job, Due(j), NEW pending \in BOOLEAN,
           NEW skipped \in BOOLEAN, FollowNext(j, pending, skipped),
           validated' = validated
    PROVE  /\ job' \in [Job -> JobRecord] /\ JobKeeps /\ PlansShape'
           /\ follow' \in [Job -> FollowRecord] /\ FollowShape'
<1> DEFINE f == [follow[j] EXCEPT !.pending = pending, !.skipped = skipped]
<1>1. /\ job \in [Job -> JobRecord] /\ follow \in [Job -> FollowRecord]
      /\ follow[j] \in FollowRecord /\ FollowShape /\ PlansShape
  BY DEF Shape, TypeOK
<1>2. /\ job[j].state # "none" /\ job[j].done \in Seq(Plan)
      /\ follow[j].n \in Nat \ {0} /\ follow[j].n <= Len(job[j].done)
  BY DueType
<1>3. ASSUME UNCHANGED job, NEW new \in FollowRecord, new.n <= Len(job[j].done),
             follow' = [follow EXCEPT ![j] = new]
      PROVE  /\ job' \in [Job -> JobRecord] /\ JobKeeps /\ PlansShape'
             /\ follow' \in [Job -> FollowRecord] /\ FollowShape'
  <2>1. job' \in [Job -> JobRecord] /\ JobKeeps /\ PlansShape'
    BY <1>1, <1>3, JobSame, PlansFrame
  <2>2. follow' \in [Job -> FollowRecord]
    BY <1>1, <1>3
  <2>3. FollowShape'
    BY <1>1, <1>2, <1>3 DEF FollowShape
  <2> QED BY <2>1, <2>2, <2>3
<1>4. f \in FollowRecord /\ f.n = follow[j].n /\ f.round = follow[j].round
  BY <1>1, Zenon DEF FollowRecord
<1>5. CASE f.n < Len(job[j].done)
  <2> DEFINE n == follow[j].n + 1
             new == [f EXCEPT !.n = n]
  <2>1. n \in Nat \ {0} /\ n <= Len(job[j].done)
    BY <1>2, <1>4, <1>5
  <2>2. UNCHANGED job /\ follow' = [follow EXCEPT ![j] = new]
    BY <1>4, <1>5 DEF FollowNext
  <2> HIDE DEF n
  <2> HIDE DEF f
  <2>3. new \in FollowRecord /\ new.n = n
    BY <1>4, <2>1, Zenon DEF FollowRecord
  <2> HIDE DEF new
  <2> QED BY <1>3, <2>1, <2>2, <2>3
<1>6. CASE ~(f.n < Len(job[j].done)) /\ f.round < Request[j].rounds
  <2> DEFINE round == follow[j].round + 1
             new == [f EXCEPT !.n = 1, !.round = round, !.pending = FALSE]
  <2>1. Request[j].rounds \in 0..3 /\ follow[j].round \in 0..3
    BY <1>1, RequestAssumption DEF FollowRecord
  <2>2. round \in 0..3
    BY <1>4, <1>6, <2>1
  <2>3. UNCHANGED job /\ follow' = [follow EXCEPT ![j] = new]
    BY <1>4, <1>6 DEF FollowNext
  <2> HIDE DEF round, f
  <2>4. new \in FollowRecord /\ new.n = 1
    BY <1>4, <2>2, FirstPosition, Zenon DEF FollowRecord
  <2>5. 1 <= Len(job[j].done)
    BY <1>2
  <2> HIDE DEF new
  <2> QED BY <1>3, <2>3, <2>4, <2>5
<1>7. CASE ~(f.n < Len(job[j].done)) /\ ~(f.round < Request[j].rounds)
  <2>1. PICK state \in {"CHECKS_INCOMPLETE", "COMPLETED"} : EndFollow(j, state)
    BY <1>7 DEF FollowNext
  <2>2. state \in Finished
    BY DEF Finished
  <2> QED BY <2>1, <2>2, EndFollowShape
<1> QED BY <1>5, <1>6, <1>7

\* The task takes the answer of its invocation.
LEMMA FollowHangsUp ==
    ASSUME Shape, NEW j \in Job, call[j].pc = "done",
           call' = [call EXCEPT ![j] = CallIdle]
    PROVE  call' \in [Caller -> CallRecord] /\ CallShape' /\ CallsQuiet
<1>1. j \in Caller
  BY DEF Caller
<1> QED BY <1>1, HangUpShape

LEMMA FollowStoppedShape ==
    ASSUME Shape, NEW j \in Job, FollowStopped(j) PROVE Shape' /\ CallsQuiet
<1>1. /\ Due(j) /\ FollowUnchanged /\ UNCHANGED call
      /\ EndFollow(j, "WAITING_CONNECTION")
  BY DEF FollowStopped
<1>2. "WAITING_CONNECTION" \in Finished /\ validated' = validated
  BY <1>1 DEF Finished, FollowUnchanged
<1> QED BY <1>1, <1>2, EndFollowShape, ReaderCallSame, FollowMoves

LEMMA FollowSkippedShape ==
    ASSUME Shape, NEW j \in Job, FollowSkipped(j) PROVE Shape' /\ CallsQuiet
<1>1. /\ Due(j) /\ FollowUnchanged /\ call[j].pc = "done"
      /\ call' = [call EXCEPT ![j] = CallIdle]
      /\ FollowNext(j, follow[j].pending, TRUE)
  BY DEF FollowSkipped
<1>2. follow[j].pending \in BOOLEAN /\ validated' = validated
  BY <1>1, DueType DEF FollowRecord, FollowUnchanged
<1> QED BY <1>1, <1>2, FollowNextShape, FollowHangsUp, FollowMoves

LEMMA FollowFailsShape ==
    ASSUME Shape, NEW j \in Job, FollowFails(j) PROVE Shape' /\ CallsQuiet
<1>1. /\ Due(j) /\ FollowUnchanged /\ call[j].pc = "done"
      /\ call' = [call EXCEPT ![j] = CallIdle]
      /\ EndFollow(j, FailState(call[j].res))
  BY DEF FollowFails
<1>2. validated' = validated
  BY <1>1 DEF FollowUnchanged
<1> QED BY <1>1, <1>2, FailStateType, EndFollowShape, FollowHangsUp, FollowMoves

LEMMA FollowMeasuredShape ==
    ASSUME Shape, NEW j \in Job, FollowMeasured(j) PROVE Shape' /\ CallsQuiet
<1> DEFINE pending == follow[j].pending \/
                      (call[j].res # "ROLLED_BACK" /\ call[j].eff # "VERIFIED")
<1>1. /\ Due(j) /\ FollowUnchanged /\ call[j].pc = "done"
      /\ call' = [call EXCEPT ![j] = CallIdle]
      /\ FollowNext(j, pending, follow[j].skipped)
  BY DEF FollowMeasured
<1>2. pending \in BOOLEAN
  OBVIOUS
<1>3. follow[j].skipped \in BOOLEAN /\ validated' = validated
  BY <1>1, DueType DEF FollowRecord, FollowUnchanged
<1> HIDE DEF pending
<1> QED BY <1>1, <1>2, <1>3, FollowNextShape, FollowHangsUp, FollowMoves

-----------------------------------------------------------------------------
(* The host.                                                               *)

LEMMA MaintainShape == ASSUME Shape, Maintain \/ EndMaintain PROVE Shape'
<1>1. /\ maintenance' \in BOOLEAN
      /\ UNCHANGED <<job, run, validated, queue, reader, follow, call, operations,
                     reservations, applies, restored, service, downs>>
  BY DEF Maintain, EndMaintain, BeginMaintenance, EndMaintenance, HostUnchanged
<1>2. TypeOK'
  BY <1>1 DEF Shape, TypeOK, GateTypeOK
<1> QED BY <1>1, <1>2, JobSame, ReaderFrame, FollowFrame, CallFrame, PlansFrame
        DEF Shape

LEMMA HostStopsShape == ASSUME Shape, HostStops PROVE Shape'
<1>1. /\ service' = "stopping" /\ downs' = downs + 1
      /\ UNCHANGED <<job, run, validated, queue, reader, follow, call, operations,
                     reservations, applies, restored, maintenance>>
  BY DEF HostStops, HostUnchanged
<1>2. TypeOK'
  BY <1>1 DEF Shape, TypeOK, GateTypeOK
<1> QED BY <1>1, <1>2, JobSame, ReaderFrame, FollowFrame, CallFrame, PlansFrame
        DEF Shape

LEMMA ProcessEndsShape == ASSUME Shape, ProcessEnds, downs' \in Nat PROVE Shape'
<1>1. /\ service' = "down" /\ validated' = {} /\ queue' = <<>>
      /\ reader' = ReaderIdle
      /\ follow' = [j \in Job |-> FollowOff]
      /\ call' = [c \in Caller |-> CallIdle]
      /\ UNCHANGED <<job, run, applies, restored>>
  BY DEF ProcessEnds
<1>2. GateTypeOK'
  BY DEF ProcessEnds, GateReset, GateTypeOK
<1>3. reader' \in ReaderRecord /\ reader'.stage = "idle"
  BY <1>1, IdleReaderType DEF Stage
<1>4. follow' \in [Job -> FollowRecord] /\ FollowShape'
  BY <1>1, FirstRoundType DEF FollowShape
<1>5. call' \in [Caller -> CallRecord] /\ CallShape'
  BY <1>1, IdleCallType DEF CallShape, CallIdle
<1>6. ReaderShape'
  BY <1>3 DEF ReaderShape
<1>7. PlansShape'
  BY <1>1 DEF Shape, PlansShape
<1>8. queue' \in Seq(Job)
  BY <1>1
<1>9. TypeOK'
  BY <1>1, <1>2, <1>3, <1>4, <1>5, <1>8 DEF Shape, TypeOK
<1> QED BY <1>4, <1>5, <1>6, <1>7, <1>9 DEF Shape

LEMMA DownShape == ASSUME Shape, Exit \/ Crash PROVE Shape'
<1>1. ProcessEnds /\ downs' \in Nat
  BY DEF Exit, Crash, Shape, TypeOK
<1> QED BY <1>1, ProcessEndsShape

LEMMA RestartShape == ASSUME Shape, Restart PROVE Shape'
<1>1. /\ service' = "starting"
      /\ run' = [p \in Plan |-> IF run[p].state \in InProgress
                                THEN [run[p] EXCEPT !.state = "REVIEW_REQUIRED"]
                                ELSE run[p]]
      /\ UNCHANGED <<job, validated, queue, reader, follow, call, maintenance,
                     operations, reservations, applies, restored, downs>>
  BY DEF Restart, gateVars, historyVars
<1>2. run' \in [Plan -> RunRecord]
  BY <1>1 DEF Shape, TypeOK, RunRecord, RunState, Unsure
<1>3. TypeOK'
  BY <1>1, <1>2 DEF Shape, TypeOK, GateTypeOK
<1> QED BY <1>1, <1>3, JobSame, ReaderFrame, FollowFrame, CallFrame, PlansFrame
        DEF Shape

LEMMA RecoverShape == ASSUME Shape, Recover PROVE Shape'
<1> DEFINE closed(j) == IF Request[j].action = "scan" \/ job[j].state = "VERIFY_SCHEDULED"
                        THEN "WAITING_CONNECTION" ELSE "NEEDS_REVIEW"
<1>1. /\ service' = "serving"
      /\ job' = [j \in Job |-> IF job[j].state \notin Unfinished THEN job[j]
                               ELSE [job[j] EXCEPT !.state = closed(j)]]
      /\ UNCHANGED <<run, validated, queue, reader, follow, call, maintenance,
                     operations, reservations, applies, restored, downs>>
  BY DEF Recover, gateVars, historyVars
<1>2. job \in [Job -> JobRecord]
  BY DEF Shape, TypeOK
<1>3. ASSUME NEW j \in Job
      PROVE  /\ job'[j] \in JobRecord
             /\ job'[j].plans = job[j].plans /\ job'[j].done = job[j].done
             /\ (job'[j].state = "none") <=> (job[j].state = "none")
  BY <1>1, <1>2 DEF JobRecord, JobState, Finished, Unfinished
<1>4. job' \in [Job -> JobRecord] /\ JobKeeps
  BY <1>1, <1>3 DEF JobKeeps
<1>5. PlansShape'
  BY <1>1, <1>3 DEF Shape, PlansShape
<1>6. TypeOK'
  BY <1>1, <1>4 DEF Shape, TypeOK, GateTypeOK
<1> QED BY <1>1, <1>4, <1>5, <1>6, ReaderFrame, FollowFrame, CallFrame DEF Shape

LEMMA StutterShape == ASSUME Shape, UNCHANGED vars PROVE Shape'
<1>1. TypeOK'
  BY DEF Shape, TypeOK, GateTypeOK, vars
<1> QED BY <1>1, JobSame, ReaderFrame, FollowFrame, CallFrame, PlansFrame
        DEF Shape, vars

LEMMA NextShape == ASSUME Shape, [Next]_vars PROVE Shape'
<1>1. ASSUME NEW j \in Job, Submission(j) PROVE Shape'
  BY <1>1, ValidateShape, EnqueueAcceptsShape, EnqueueRefusesShape,
     EnqueueSaveFailsShape DEF Submission
<1>2. ASSUME NEW j \in Job, FollowStep(j) PROVE Shape'
  BY <1>2, FollowStartShape, FollowStoppedShape, FollowSkippedShape,
     FollowFailsShape, FollowMeasuredShape DEF FollowStep
<1>3. CASE HostStep
  BY <1>3, MaintainShape, HostStopsShape, DownShape, RestartShape, RecoverShape
     DEF HostStep
<1> QED BY <1>1, <1>2, <1>3, CallStepsShape, ClientShape, ReaderStepShape,
           StutterShape DEF Next

LEMMA InitShape == Init => Shape
<1> SUFFICES ASSUME Init PROVE Shape
  OBVIOUS
<1>1. /\ GateInit
      /\ job = [j \in Job |-> NoRecord] /\ run = [p \in Plan |-> NoRun]
      /\ service = "starting" /\ validated = {} /\ queue = <<>>
      /\ reader = ReaderIdle /\ follow = [j \in Job |-> FollowOff]
      /\ call = [c \in Caller |-> CallIdle]
      /\ applies = [p \in Plan |-> 0] /\ restored = [p \in Plan |-> "no"]
      /\ downs = 0
  BY DEF Init
<1>2. GateTypeOK
  BY <1>1 DEF GateInit, GateTypeOK
<1>3. NoRecord \in JobRecord /\ NoRecord.state = "none"
  BY DEF NoRecord, JobRecord, JobState
<1>4. NoRun \in RunRecord
  BY DEF NoRun, RunRecord, RunState, Effective
<1>5. reader \in ReaderRecord /\ reader.stage = "idle"
  BY <1>1, IdleReaderType DEF Stage
<1>6. follow \in [Job -> FollowRecord] /\ FollowShape
  BY <1>1, FirstRoundType DEF FollowShape
<1>7. call \in [Caller -> CallRecord] /\ CallShape
  BY <1>1, IdleCallType DEF CallShape, CallIdle
<1>8. ReaderShape
  BY <1>5 DEF ReaderShape
<1>9. PlansShape
  BY <1>1, <1>3 DEF PlansShape
<1>10. queue \in Seq(Job) /\ downs \in Nat
  BY <1>1
<1>11. job \in [Job -> JobRecord] /\ run \in [Plan -> RunRecord]
  BY <1>1, <1>3, <1>4
<1>12. TypeOK
  BY <1>1, <1>2, <1>5, <1>6, <1>7, <1>10, <1>11 DEF TypeOK
<1> QED BY <1>6, <1>7, <1>8, <1>9, <1>12 DEF Shape

-----------------------------------------------------------------------------
(* The gate: what runs on a GPO is in it, alone, and under its reservation;*)
(* a plan is applied once; an in-progress record has its worker run.       *)

GateInv == /\ BusyInGate /\ BusyAlone /\ BusyOwns /\ MaintenanceIdle
           /\ UnrecordedUnapplied /\ AppliedOnce /\ RunHasWorker

\* The three invariants that look at the busy callers and the gate only.
BusyInv == BusyInGate /\ BusyAlone /\ BusyOwns

\* A step that starts and ends no worker run, and writes nothing the gate
\* invariants read, preserves them.
LEMMA BusyFrame ==
    ASSUME BusyInv, CallsQuiet, UNCHANGED <<operations, reservations>>
    PROVE  BusyInv'
<1>1. \A c \in Caller : Busy(c)' => Busy(c) /\ call'[c] = call[c]
  BY DEF CallsQuiet, Busy
<1>2. BusyInGate'
  BY <1>1 DEF BusyInv, BusyInGate, GpoOfCall
<1>3. BusyAlone'
  BY <1>1 DEF BusyInv, BusyAlone, GpoOfCall
<1>4. BusyOwns'
  BY <1>1 DEF BusyInv, BusyOwns, GpoOfCall
<1> QED BY <1>2, <1>3, <1>4 DEF BusyInv

LEMMA AppliesFrame ==
    ASSUME UnrecordedUnapplied, AppliedOnce, UNCHANGED applies,
           \A p \in Plan : run'[p].state = "none" => run[p].state = "none"
    PROVE  UnrecordedUnapplied' /\ AppliedOnce'
  BY DEF UnrecordedUnapplied, AppliedOnce

LEMMA WorkerFrame ==
    ASSUME RunHasWorker, CallsQuiet, service' # "down" => service # "down",
           ActiveRuns' \subseteq ActiveRuns
    PROVE  RunHasWorker'
<1>1. ASSUME NEW c \in Caller, call[c].pc = "running" PROVE call'[c] = call[c]
  BY <1>1 DEF CallsQuiet, Busy
<1> QED BY <1>1 DEF RunHasWorker

LEMMA QuietFrame ==
    ASSUME GateInv, CallsQuiet, service' # "down" => service # "down",
           UNCHANGED <<maintenance, operations, reservations, run, applies>>
    PROVE  GateInv'
<1>1. ActiveRuns' = ActiveRuns
  BY DEF ActiveRuns
<1>2. BusyInv'
  BY BusyFrame DEF GateInv, BusyInv
<1>3. MaintenanceIdle'
  BY <1>1 DEF GateInv, MaintenanceIdle
<1>4. UnrecordedUnapplied' /\ AppliedOnce'
  BY AppliesFrame DEF GateInv
<1>5. RunHasWorker'
  BY <1>1, WorkerFrame DEF GateInv
<1> QED BY <1>2, <1>3, <1>4, <1>5 DEF GateInv, BusyInv

LEMMA CallsSame == ASSUME call' = call PROVE CallsQuiet
  BY DEF CallsQuiet

LEMMA SubmissionGate ==
    ASSUME Shape, GateInv, NEW j \in Job, Submission(j) PROVE GateInv'
<1>1. UNCHANGED <<run, service, call, maintenance, operations, applies>>
  BY DEF Submission, Validate, EnqueueAccepts, EnqueueRefuses, EnqueueSaveFails,
         SubmitUnchanged
<1>2. CASE UNCHANGED reservations
  BY <1>1, <1>2, CallsSame, QuietFrame
<1>3. ASSUME NEW g, Reserve(g, j) PROVE GateInv'
  <2>1. ~maintenance /\ g \notin operations
        /\ reservations' = [reservations EXCEPT ![g] = j]
    BY <1>3 DEF Reserve, CanReserve
  <2>2. BusyOwns'
    <3>1. ASSUME NEW c \in Caller, Busy(c)
          PROVE  reservations'[GpoOfCall(c)] \in {NoJob, call[c].owner}
      <4>1. GpoOfCall(c) \in operations /\ reservations[GpoOfCall(c)] \in {NoJob, call[c].owner}
        BY <3>1 DEF GateInv, BusyInGate, BusyOwns
      <4>2. reservations'[GpoOfCall(c)] = reservations[GpoOfCall(c)]
        BY <2>1, <4>1 DEF Shape, TypeOK, GateTypeOK
      <4> QED BY <4>1, <4>2
    <3> QED BY <1>1, <3>1 DEF BusyOwns, Busy, GpoOfCall
  <2>3. BusyInGate' /\ BusyAlone'
    BY <1>1 DEF GateInv, BusyInGate, BusyAlone, Busy, GpoOfCall
  <2>4. MaintenanceIdle'
    BY <1>1, <2>1 DEF MaintenanceIdle
  <2>5. UnrecordedUnapplied' /\ AppliedOnce'
    BY <1>1, AppliesFrame DEF GateInv
  <2>6. RunHasWorker'
    BY <1>1, CallsSame, WorkerFrame DEF GateInv, ActiveRuns
  <2> QED BY <2>2, <2>3, <2>4, <2>5, <2>6 DEF GateInv
<1>4. UNCHANGED reservations \/ \E g : Reserve(g, j)
  BY DEF Submission, Validate, EnqueueAccepts, EnqueueRefuses, EnqueueSaveFails
<1> QED BY <1>2, <1>3, <1>4

\* The reservation of a finished workflow is given back, or was lost already.
LEMMA ReleaseJobGate == ASSUME Shape, GateInv, ReleaseJob PROVE GateInv'
<1>1. UNCHANGED <<maintenance, operations, applies, run, service, call>>
  BY DEF ReleaseJob, ReaderUnchanged
<1>2. \A g \in Gpo : reservations'[g] \in {reservations[g], NoJob}
  BY DEF ReleaseJob, Release, Shape, TypeOK, GateTypeOK
<1>3. \A c \in Caller : Busy(c) => GpoOfCall(c) \in Gpo
  BY DEF Shape, TypeOK, GateTypeOK, GateInv, BusyInGate
<1>4. BusyOwns'
  BY <1>1, <1>2, <1>3 DEF GateInv, BusyOwns, Busy, GpoOfCall
<1>5. BusyInGate' /\ BusyAlone'
  BY <1>1 DEF GateInv, BusyInGate, BusyAlone, Busy, GpoOfCall
<1>6. MaintenanceIdle'
  BY <1>1, <1>2 DEF GateInv, MaintenanceIdle, ActiveRuns
<1>7. UnrecordedUnapplied' /\ AppliedOnce'
  BY <1>1, AppliesFrame DEF GateInv
<1>8. RunHasWorker'
  BY <1>1, CallsSame, WorkerFrame DEF GateInv, ActiveRuns
<1> QED BY <1>4, <1>5, <1>6, <1>7, <1>8 DEF GateInv

\* A batch recovery marks records; it starts no operation.
LEMMA MarkGate == ASSUME Shape, GateInv, Mark PROVE GateInv'
<1>1. UNCHANGED <<maintenance, operations, applies, reservations, service, call>>
  BY DEF Mark, ReaderUnchanged
<1>2. CASE run' = run
  BY <1>1, <1>2, CallsSame, QuietFrame
<1>3. CASE run' = [run EXCEPT ![Batch[reader.n]].state = "BATCH_ROLLED_BACK",
                              ![Batch[reader.n]].eff = "PENDING"]
  <2>1. run \in [Plan -> RunRecord]
    BY DEF Shape, TypeOK
  <2>2. \A p \in Plan : run'[p].state \in {run[p].state, "BATCH_ROLLED_BACK"}
    BY <1>3, <2>1 DEF RunRecord
  <2>3. ActiveRuns' \subseteq ActiveRuns
    BY <2>2 DEF ActiveRuns, InProgress
  <2>4. UnrecordedUnapplied' /\ AppliedOnce'
    BY <1>1, <2>2, AppliesFrame DEF GateInv
  <2>5. RunHasWorker'
    BY <1>1, <2>3, CallsSame, WorkerFrame DEF GateInv
  <2>6. MaintenanceIdle'
    BY <1>1, <2>3 DEF GateInv, MaintenanceIdle
  <2>7. BusyInv'
    BY <1>1, CallsSame, BusyFrame DEF GateInv, BusyInv
  <2> QED BY <2>4, <2>5, <2>6, <2>7 DEF GateInv, BusyInv
<1> QED BY <1>2, <1>3 DEF Mark

LEMMA ReaderGate == ASSUME Shape, GateInv, ReaderStep PROVE GateInv'
<1>1. CASE Dequeue \/ DequeueWithoutRecord \/ ScanEnds \/ StepStopped \/ StepRefused
           \/ MarksDone \/ CheckRead \/ ChecksDone \/ Schedule \/ Close \/ FinishJob
  <2>1. UNCHANGED <<maintenance, operations, reservations, run, applies, call>>
    BY <1>1 DEF Dequeue, DequeueWithoutRecord, ScanEnds, StepStopped, StepRefused,
                MarksDone, CheckRead, ChecksDone, Schedule, Close, FinishJob,
                ReaderUnchanged, gateVars, historyVars
  <2>2. service' # "down" => service # "down"
    BY <1>1 DEF Dequeue, DequeueWithoutRecord, ScanEnds, StepStopped, StepRefused,
                MarksDone, CheckRead, ChecksDone, Schedule, Close, FinishJob, Working
  <2> QED BY <2>1, <2>2, CallsSame, QuietFrame
<1>2. CASE StepStart \/ StepError \/ StepDone \/ RefreshStart \/ RefreshDone
           \/ CheckStart \/ CheckDone
  <2>1. CallsQuiet
    BY <1>2, StepStartShape, StepErrorShape, StepDoneShape, RefreshStartShape,
       RefreshDoneShape, CheckStartShape, CheckDoneShape
  <2>2. UNCHANGED <<maintenance, operations, reservations, run, applies, service>>
    BY <1>2 DEF StepStart, StepError, StepDone, RefreshStart, RefreshDone,
                CheckStart, CheckDone, ReaderUnchanged
  <2> QED BY <2>1, <2>2, QuietFrame
<1> QED BY <1>1, <1>2, MarkGate, ReleaseJobGate DEF ReaderStep

LEMMA FollowGate ==
    ASSUME Shape, GateInv, NEW j \in Job, FollowStep(j) PROVE GateInv'
<1>1. CallsQuiet
  BY FollowStartShape, FollowStoppedShape, FollowSkippedShape, FollowFailsShape,
     FollowMeasuredShape DEF FollowStep
<1>2. UNCHANGED <<maintenance, operations, reservations, run, applies, service>>
  BY DEF FollowStep, FollowStart, FollowStopped, FollowSkipped, FollowFails,
         FollowMeasured, FollowUnchanged, gateVars, historyVars
<1> QED BY <1>1, <1>2, QuietFrame

LEMMA ClientGate ==
    ASSUME Shape, GateInv, NEW c \in Client, ClientStep(c) PROVE GateInv'
<1>1. UNCHANGED <<maintenance, operations, reservations, run, applies, service>>
  BY DEF ClientStep, DirectCall, DirectCallAnswered, CallUnchanged
<1> QED BY <1>1, ClientShape, QuietFrame

\* A claim takes a GPO on which nothing runs, and an end gives its own back.
LEMMA ClaimBusyInv ==
    ASSUME Shape, BusyInv, NEW c \in Caller, ~Busy(c),
           BeginOperation(GpoOfCall(c), call[c].owner),
           NEW new, new.plan = call[c].plan, new.owner = call[c].owner,
           call' = [call EXCEPT ![c] = new], UNCHANGED reservations
    PROVE  BusyInv'
<1> DEFINE g == GpoOfCall(c)
<1>1. /\ g \notin operations /\ operations' = operations \cup {g}
      /\ reservations[g] \in {NoJob, call[c].owner}
  BY DEF BeginOperation, CanBegin
<1>2. call'[c] = new /\ \A d \in Caller \ {c} : call'[d] = call[d]
  BY DEF Shape, TypeOK
<1>3. GpoOfCall(c)' = g /\ call'[c].owner = call[c].owner
  BY <1>2 DEF GpoOfCall
<1>4. \A d \in Caller \ {c} : Busy(d)' = Busy(d) /\ GpoOfCall(d)' = GpoOfCall(d)
  BY <1>2 DEF Busy, GpoOfCall
<1>5. BusyInGate'
  BY <1>1, <1>3, <1>4 DEF BusyInv, BusyInGate
<1>6. \A d \in Caller \ {c} : Busy(d) => GpoOfCall(d) # g
  BY <1>1 DEF BusyInv, BusyInGate
<1>7. BusyAlone'
  BY <1>3, <1>4, <1>6 DEF BusyInv, BusyAlone
<1>8. BusyOwns'
  <2>1. ASSUME NEW d \in Caller, Busy(d)'
        PROVE  (reservations[GpoOfCall(d)] \in {NoJob, call[d].owner})'
    <3>1. CASE d = c
      BY <1>1, <1>3, <3>1
    <3>2. CASE d # c
      BY <1>2, <1>4, <2>1, <3>2 DEF BusyInv, BusyOwns
    <3> QED BY <3>1, <3>2
  <2> QED BY <2>1 DEF BusyOwns
<1> QED BY <1>5, <1>7, <1>8 DEF BusyInv

LEMMA EndBusyInv ==
    ASSUME Shape, BusyInv, NEW c \in Caller, Busy(c),
           EndOperation(GpoOfCall(c)),
           NEW new, new.pc = "done", call' = [call EXCEPT ![c] = new],
           UNCHANGED reservations
    PROVE  BusyInv'
<1>1. operations' = operations \ {GpoOfCall(c)}
  BY DEF EndOperation
<1>2. call'[c] = new /\ \A d \in Caller \ {c} : call'[d] = call[d]
  BY DEF Shape, TypeOK
<1>3. ~Busy(c)'
  BY <1>2 DEF Busy
<1>4. \A d \in Caller \ {c} : Busy(d)' = Busy(d) /\ GpoOfCall(d)' = GpoOfCall(d)
  BY <1>2 DEF Busy, GpoOfCall
<1>5. \A d \in Caller \ {c} : Busy(d) => GpoOfCall(d) # GpoOfCall(c)
  BY DEF BusyInv, BusyAlone
<1>6. BusyInGate'
  BY <1>1, <1>3, <1>4, <1>5 DEF BusyInv, BusyInGate
<1>7. BusyAlone'
  BY <1>3, <1>4 DEF BusyInv, BusyAlone
<1>8. BusyOwns'
  BY <1>2, <1>3, <1>4 DEF BusyInv, BusyOwns
<1> QED BY <1>6, <1>7, <1>8 DEF BusyInv

\* A caller writes the record of its plan: the other in-progress records keep
\* their worker runs.
LEMMA OthersKeepWorkers ==
    ASSUME Shape, RunHasWorker, service' = service, NEW c \in Caller,
           NEW p \in Plan, call[c].plan = p,
           NEW new, call' = [call EXCEPT ![c] = new],
           NEW record, run' = [run EXCEPT ![p] = record],
           record.state \in InProgress => new.pc = "running" /\ new.plan = p
    PROVE  RunHasWorker'
<1>1. call'[c] = new /\ \A d \in Caller \ {c} : call'[d] = call[d]
  BY DEF Shape, TypeOK
<1>2. run'[p] = record /\ \A q \in Plan \ {p} : run'[q] = run[q]
  BY DEF Shape, TypeOK
<1>3. ASSUME service # "down", NEW q \in Plan, run'[q].state \in InProgress
      PROVE  \E d \in Caller : call'[d].pc = "running" /\ call'[d].plan = q
  <2>1. CASE q = p
    BY <1>1, <1>2, <1>3, <2>1
  <2>2. CASE q # p
    <3>1. q \in ActiveRuns
      BY <1>2, <1>3, <2>2 DEF ActiveRuns
    <3>2. PICK d \in Caller : call[d].pc = "running" /\ call[d].plan = q
      BY <1>3, <3>1 DEF RunHasWorker
    <3>3. d # c
      BY <2>2, <3>2
    <3> QED BY <1>1, <3>2, <3>3
  <2> QED BY <2>1, <2>2
<1> QED BY <1>3 DEF RunHasWorker, ActiveRuns

LEMMA ClaimGate ==
    ASSUME Shape, GateInv, NEW c \in Caller, Claim(c) PROVE GateInv'
<1> DEFINE p == call[c].plan
           op == call[c].op
<1>1. /\ call[c].pc = "checked" /\ ~AnswersUnderClaim(op, p)
      /\ BeginOperation(GpoOf[p], call[c].owner)
      /\ UNCHANGED <<service, maintenance, reservations>>
  BY DEF Claim, CallUnchanged
<1>2. p \in Plan /\ op \in Operation /\ ~Busy(c) /\ GpoOf[p] = GpoOfCall(c)
  BY <1>1 DEF Shape, CallShape, Busy, GpoOfCall
<1>3. ~maintenance
  BY <1>1 DEF BeginOperation, CanBegin
<1>4. MaintenanceIdle'
  BY <1>1, <1>3 DEF MaintenanceIdle
<1>5. /\ call \in [Caller -> CallRecord] /\ run \in [Plan -> RunRecord]
      /\ applies \in [Plan -> 0..2]
  BY DEF Shape, TypeOK
<1>6. CASE /\ call' = [call EXCEPT ![c].pc = "live"]
           /\ UNCHANGED <<run, applies, restored>>
  <2> DEFINE new == [call[c] EXCEPT !.pc = "live"]
  <2>1. call' = [call EXCEPT ![c] = new] /\ new.plan = p /\ new.owner = call[c].owner
    BY <1>5, <1>6 DEF CallRecord
  <2> HIDE DEF new
  <2>2. BusyInv'
    BY <1>1, <1>2, <2>1, ClaimBusyInv DEF GateInv, BusyInv
  <2>3. RunHasWorker'
    <3>1. \A d \in Caller : call[d].pc = "running" => call'[d] = call[d]
      BY <1>1, <1>5, <2>1
    <3>2. ActiveRuns' = ActiveRuns
      BY <1>6 DEF ActiveRuns
    <3> QED BY <1>1, <3>1, <3>2 DEF GateInv, RunHasWorker
  <2>4. UnrecordedUnapplied' /\ AppliedOnce'
    BY <1>6, AppliesFrame DEF GateInv
  <2> QED BY <1>4, <2>2, <2>3, <2>4 DEF GateInv, BusyInv
<1>7. CASE ToWorker(c, op, p)
  <2> DEFINE new == [call[c] EXCEPT !.pc = "running"]
             record == [run[p] EXCEPT !.state = Started(op)]
  <2>1. /\ call' = [call EXCEPT ![c] = new] /\ new.plan = p
        /\ new.owner = call[c].owner /\ new.pc = "running"
    BY <1>5, <1>7 DEF ToWorker, CallRecord
  <2>2. run' = [run EXCEPT ![p] = record] /\ record.state = Started(op)
    BY <1>2, <1>5, <1>7 DEF ToWorker, RunRecord
  <2> HIDE DEF new, record
  <2>3. BusyInv'
    BY <1>1, <1>2, <2>1, ClaimBusyInv DEF GateInv, BusyInv
  <2>4. RunHasWorker'
    BY <1>1, <1>2, <2>1, <2>2, OthersKeepWorkers DEF GateInv
  <2>5. Started(op) # "none"
    BY <1>2, StartedInProgress DEF InProgress
  <2>6. \A q \in Plan : run'[q].state = "none" => run[q].state = "none" /\ q # p
    BY <1>2, <1>5, <2>2, <2>5
  <2>7. UnrecordedUnapplied' /\ AppliedOnce'
    <3>1. CASE UNCHANGED applies
      BY <2>6, <3>1, AppliesFrame DEF GateInv
    <3>2. CASE op = "apply" /\ applies' = [applies EXCEPT ![p] = @ + 1]
      <4>1. applies[p] = 0
        BY <1>1, <1>2, <3>2 DEF AnswersUnderClaim, GateInv, UnrecordedUnapplied
      <4>2. applies'[p] = 1 /\ \A q \in Plan \ {p} : applies'[q] = applies[q]
        BY <1>2, <1>5, <3>2, <4>1
      <4> QED BY <2>6, <4>2 DEF GateInv, UnrecordedUnapplied, AppliedOnce
    <3> QED BY <1>7, <3>1, <3>2 DEF ToWorker
  <2> QED BY <1>4, <2>3, <2>4, <2>7 DEF GateInv, BusyInv
<1> QED BY <1>6, <1>7 DEF Claim

LEMMA RefreshLiveGate ==
    ASSUME Shape, GateInv, NEW c \in Caller, RefreshLive(c) PROVE GateInv'
<1> DEFINE p == call[c].plan
           done == Answer(c, "REFUSED", "PENDING")
<1>1. /\ call[c].pc = "live" /\ UNCHANGED <<applies, service, maintenance, reservations>>
  BY DEF RefreshLive, CallUnchanged
<1>2. p \in Plan /\ Busy(c) /\ GpoOf[p] = GpoOfCall(c)
  BY <1>1 DEF Shape, CallShape, Busy, GpoOfCall
<1>3. GpoOfCall(c) \in operations
  BY <1>2 DEF GateInv, BusyInGate
<1>4. MaintenanceIdle'
  BY <1>1, <1>3 DEF GateInv, MaintenanceIdle
<1>5. call \in [Caller -> CallRecord] /\ run \in [Plan -> RunRecord]
  BY DEF Shape, TypeOK
<1>6. done.pc = "done" /\ done.plan = p
  BY AnswerType DEF Error, Effective
<1>7. CASE /\ UNCHANGED <<run, restored>> /\ EndOperation(GpoOf[p])
           /\ call' = [call EXCEPT ![c] = done]
  <2> HIDE DEF done
  <2>1. BusyInv'
    BY <1>1, <1>2, <1>6, <1>7, EndBusyInv DEF GateInv, BusyInv
  <2>2. RunHasWorker'
    <3>1. \A d \in Caller : call[d].pc = "running" => call'[d] = call[d]
      BY <1>1, <1>5, <1>7
    <3>2. ActiveRuns' = ActiveRuns
      BY <1>7 DEF ActiveRuns
    <3> QED BY <1>1, <3>1, <3>2 DEF GateInv, RunHasWorker
  <2>3. UnrecordedUnapplied' /\ AppliedOnce'
    BY <1>1, <1>7, AppliesFrame DEF GateInv
  <2> QED BY <1>4, <2>1, <2>2, <2>3 DEF GateInv, BusyInv
<1>8. ASSUME NEW live \in VerifyResults(p),
             run' = [run EXCEPT ![p] = [live EXCEPT !.state = Started("refresh")]],
             call' = [call EXCEPT ![c].pc = "running", ![c].res = live.state],
             UNCHANGED operations
      PROVE  GateInv'
  <2> DEFINE new == [call[c] EXCEPT !.pc = "running", !.res = live.state]
             record == [live EXCEPT !.state = Started("refresh")]
  <2>1. /\ call' = [call EXCEPT ![c] = new] /\ new.plan = p /\ new.pc = "running"
        /\ new.owner = call[c].owner
    BY <1>5, <1>8 DEF CallRecord
  <2>2. live \in RunRecord
    BY <1>2, VerifyResultsType DEF Final
  <2>3. run' = [run EXCEPT ![p] = record] /\ record.state = "REFRESHING"
    BY <1>8, <2>2 DEF RunRecord, Started
  <2> HIDE DEF new, record
  <2>4. RunHasWorker'
    BY <1>1, <1>2, <2>1, <2>3, OthersKeepWorkers DEF GateInv
  <2>5. \A q \in Plan : run'[q].state = "none" => run[q].state = "none"
    BY <1>2, <1>5, <2>3
  <2>6. UnrecordedUnapplied' /\ AppliedOnce'
    BY <1>1, <2>5, AppliesFrame DEF GateInv
  <2>7. \A d \in Caller : /\ Busy(d)' = Busy(d) /\ GpoOfCall(d)' = GpoOfCall(d)
                          /\ call'[d].owner = call[d].owner
    BY <1>2, <1>5, <2>1 DEF Busy, GpoOfCall
  <2>8. BusyInGate' /\ BusyAlone' /\ BusyOwns'
    BY <1>1, <1>8, <2>7 DEF GateInv, BusyInGate, BusyAlone, BusyOwns
  <2> QED BY <1>4, <2>4, <2>6, <2>8 DEF GateInv
<1>9. ASSUME NEW live \in VerifyResults(p), run' = [run EXCEPT ![p] = live],
             EndOperation(GpoOf[p]), call' = [call EXCEPT ![c] = done]
      PROVE  GateInv'
  <2>1. live.state \notin InProgress /\ live.state # "none"
    BY <1>2, VerifyResultsType DEF Final
  <2> HIDE DEF done
  <2>2. BusyInv'
    BY <1>1, <1>2, <1>6, <1>9, EndBusyInv DEF GateInv, BusyInv
  <2>3. RunHasWorker'
    BY <1>1, <1>2, <1>9, <2>1, OthersKeepWorkers DEF GateInv
  <2>4. \A q \in Plan : run'[q].state = "none" => run[q].state = "none"
    BY <1>2, <1>5, <1>9, <2>1
  <2>5. UnrecordedUnapplied' /\ AppliedOnce'
    BY <1>1, <2>4, AppliesFrame DEF GateInv
  <2> QED BY <1>4, <2>2, <2>3, <2>5 DEF GateInv, BusyInv
<1> QED BY <1>7, <1>8, <1>9 DEF RefreshLive

LEMMA WorkerReturnsGate ==
    ASSUME Shape, GateInv, NEW c \in Caller, WorkerReturns(c) PROVE GateInv'
<1> DEFINE p == call[c].plan
<1>1. /\ call[c].pc = "running" /\ EndOperation(GpoOf[p])
      /\ UNCHANGED <<applies, service, maintenance, reservations>>
  BY DEF WorkerReturns, CallUnchanged
<1>2. p \in Plan /\ Busy(c) /\ GpoOf[p] = GpoOfCall(c)
  BY <1>1 DEF Shape, CallShape, Busy, GpoOfCall
<1>3. GpoOfCall(c) \in operations
  BY <1>2 DEF GateInv, BusyInGate
<1>4. MaintenanceIdle'
  BY <1>1, <1>3 DEF GateInv, MaintenanceIdle
<1>5. run \in [Plan -> RunRecord]
  BY DEF Shape, TypeOK
<1>6. PICK out \in Outcomes(c, p) :
        /\ run' = [run EXCEPT ![p] = out]
        /\ call' = [call EXCEPT ![c] = Answer(c, out.state, out.eff)]
  BY DEF WorkerReturns
<1>7. out \in Final
  BY <1>1, OutcomesType
<1>8. out.state \in RunState /\ out.eff \in Effective
      /\ out.state \notin InProgress /\ out.state # "none"
  BY <1>7 DEF Final, RunRecord
<1>9. PICK new : new.pc = "done" /\ call' = [call EXCEPT ![c] = new]
  BY <1>6, <1>8, AnswerType
<1>10. BusyInv'
  BY <1>1, <1>2, <1>9, EndBusyInv DEF GateInv, BusyInv
<1>11. RunHasWorker'
  BY <1>1, <1>2, <1>6, <1>8, <1>9, OthersKeepWorkers DEF GateInv
<1>12. \A q \in Plan : run'[q].state = "none" => run[q].state = "none"
  BY <1>2, <1>5, <1>6, <1>8
<1>13. UnrecordedUnapplied' /\ AppliedOnce'
  BY <1>1, <1>12, AppliesFrame DEF GateInv
<1> QED BY <1>4, <1>10, <1>11, <1>13 DEF GateInv, BusyInv

LEMMA CallGate ==
    ASSUME Shape, GateInv, NEW c \in Caller, CallStep(c) PROVE GateInv'
<1>1. CASE ClaimBusy(c) \/ ClaimAnswered(c)
  <2>1. PICK new : new.pc = "done" /\ call' = [call EXCEPT ![c] = new]
    <3>1. PICK res \in RunState \cup Error, eff \in Effective :
            call' = [call EXCEPT ![c] = Answer(c, res, eff)]
      <4>1. call[c].pc = "checked"
        BY <1>1 DEF ClaimBusy, ClaimAnswered
      <4>2. call[c].plan \in Plan
        BY <4>1 DEF Shape, CallShape
      <4>3. run[call[c].plan] \in RunRecord
        BY <4>2 DEF Shape, TypeOK
      <4> QED BY <1>1, <4>3 DEF ClaimBusy, ClaimAnswered, RunRecord, Error, Effective
    <3> QED BY <3>1, AnswerType
  <2>2. /\ call[c].pc = "checked"
        /\ UNCHANGED <<maintenance, operations, reservations, run, applies, service>>
    BY <1>1 DEF ClaimBusy, ClaimAnswered, CallUnchanged
  <2>3. CallsQuiet
    BY <2>1, <2>2 DEF CallsQuiet, Busy, Shape, TypeOK
  <2> QED BY <2>2, <2>3, QuietFrame
<1> QED BY <1>1, ClaimGate, RefreshLiveGate, WorkerReturnsGate DEF CallStep

LEMMA MaintainGate == ASSUME GateInv, Maintain \/ EndMaintain PROVE GateInv'
<1>1. UNCHANGED <<operations, reservations, run, applies, call, service>>
  BY DEF Maintain, EndMaintain, HostUnchanged
<1>2. maintenance' => /\ operations = {} /\ \A g \in Gpo : reservations[g] = NoJob
                      /\ ActiveRuns = {}
  BY DEF Maintain, EndMaintain, BeginMaintenance, CanMaintain, EndMaintenance
<1>3. ActiveRuns' = ActiveRuns
  BY <1>1 DEF ActiveRuns
<1>4. MaintenanceIdle'
  BY <1>1, <1>2, <1>3 DEF MaintenanceIdle
<1>5. BusyInv'
  BY <1>1, CallsSame, BusyFrame DEF GateInv, BusyInv
<1>6. UnrecordedUnapplied' /\ AppliedOnce'
  BY <1>1, AppliesFrame DEF GateInv
<1>7. RunHasWorker'
  BY <1>1, <1>3, CallsSame, WorkerFrame DEF GateInv
<1> QED BY <1>4, <1>5, <1>6, <1>7 DEF GateInv, BusyInv

LEMMA DownGate == ASSUME GateInv, Exit \/ Crash PROVE GateInv'
<1>1. /\ service' = "down" /\ maintenance' = FALSE
      /\ call' = [c \in Caller |-> CallIdle]
      /\ UNCHANGED <<run, applies>>
  BY DEF Exit, Crash, ProcessEnds, GateReset
<1>2. \A c \in Caller : ~Busy(c)'
  BY <1>1 DEF Busy, CallIdle
<1>3. BusyInGate' /\ BusyAlone' /\ BusyOwns'
  BY <1>2 DEF BusyInGate, BusyAlone, BusyOwns
<1>4. MaintenanceIdle' /\ RunHasWorker'
  BY <1>1 DEF MaintenanceIdle, RunHasWorker
<1>5. UnrecordedUnapplied' /\ AppliedOnce'
  BY <1>1, AppliesFrame DEF GateInv
<1> QED BY <1>3, <1>4, <1>5 DEF GateInv

\* A new process closes the in-progress records that nothing runs any more.
LEMMA RestartGate == ASSUME Shape, GateInv, Restart PROVE GateInv'
<1>1. /\ run' = [p \in Plan |-> IF run[p].state \in InProgress
                                THEN [run[p] EXCEPT !.state = "REVIEW_REQUIRED"]
                                ELSE run[p]]
      /\ UNCHANGED <<call, maintenance, operations, reservations, applies>>
  BY DEF Restart, gateVars, historyVars
<1>2. \A p \in Plan : /\ run'[p].state \notin InProgress
                      /\ run'[p].state = "none" => run[p].state = "none"
  BY <1>1 DEF Shape, TypeOK, RunRecord, InProgress
<1>3. ActiveRuns' = {}
  BY <1>2 DEF ActiveRuns
<1>4. RunHasWorker'
  BY <1>3 DEF RunHasWorker
<1>5. MaintenanceIdle'
  BY <1>1, <1>3 DEF GateInv, MaintenanceIdle
<1>6. BusyInv'
  BY <1>1, CallsSame, BusyFrame DEF GateInv, BusyInv
<1>7. UnrecordedUnapplied' /\ AppliedOnce'
  BY <1>1, <1>2, AppliesFrame DEF GateInv
<1> QED BY <1>4, <1>5, <1>6, <1>7 DEF GateInv, BusyInv

LEMMA HostGate == ASSUME Shape, GateInv, HostStep PROVE GateInv'
<1>1. CASE HostStops \/ Recover
  <2>1. /\ UNCHANGED <<maintenance, operations, reservations, run, applies, call>>
        /\ service # "down"
    BY <1>1 DEF HostStops, Recover, HostUnchanged, gateVars, historyVars
  <2> QED BY <2>1, CallsSame, QuietFrame
<1> QED BY <1>1, MaintainGate, DownGate, RestartGate DEF HostStep

LEMMA NextGate == ASSUME Shape, GateInv, [Next]_vars PROVE GateInv'
<1>1. CASE UNCHANGED vars
  BY <1>1, CallsSame, QuietFrame DEF vars
<1> QED BY <1>1, SubmissionGate, FollowGate, CallGate, ClientGate, ReaderGate,
           HostGate DEF Next

LEMMA InitGate == Init => GateInv
<1> SUFFICES ASSUME Init PROVE GateInv
  OBVIOUS
<1>1. /\ maintenance = FALSE /\ run = [p \in Plan |-> NoRun]
      /\ call = [c \in Caller |-> CallIdle] /\ applies = [p \in Plan |-> 0]
  BY DEF Init, GateInit
<1>2. \A c \in Caller : ~Busy(c)
  BY <1>1 DEF Busy, CallIdle
<1>3. BusyInGate /\ BusyAlone /\ BusyOwns /\ MaintenanceIdle
  BY <1>1, <1>2 DEF BusyInGate, BusyAlone, BusyOwns, MaintenanceIdle
<1>4. UnrecordedUnapplied /\ AppliedOnce
  BY <1>1 DEF UnrecordedUnapplied, AppliedOnce
<1>5. ActiveRuns = {}
  BY <1>1 DEF ActiveRuns, NoRun, InProgress
<1>6. RunHasWorker
  BY <1>5 DEF RunHasWorker
<1> QED BY <1>3, <1>4, <1>6 DEF GateInv

-----------------------------------------------------------------------------
(* The theorems.                                                           *)

\* The inductive invariant holds in every state: what each actor relies on when
\* it uses a record, and what the gate, the callers and the records say of each
\* other (OperationGate.cs, GpoWorkflowService.cs:265-408, WorkspaceWorkflows.cs).
THEOREM Inductive == Spec => []IInv
<1>1. IInv <=> Shape /\ GateInv
  BY DEF IInv, GateInv
<1>2. Init => IInv
  BY <1>1, InitShape, InitGate
<1>3. IInv /\ [Next]_vars => IInv'
  <2> SUFFICES ASSUME IInv, [Next]_vars PROVE IInv'
    OBVIOUS
  <2>1. Shape /\ GateInv
    BY <1>1
  <2>2. Shape' /\ GateInv'
    BY <2>1, NextShape, NextGate
  <2> QED BY <2>2 DEF IInv, GateInv
<1> QED BY <1>2, <1>3, PTL DEF Spec

\* Every variable keeps its type.
THEOREM TypeCorrect == Spec => []TypeOK
<1>1. IInv => TypeOK
  BY DEF IInv, Shape
<1> QED BY <1>1, Inductive, PTL

\* Two operations never run on one GPO, and only the holder of a reservation
\* runs on a reserved GPO (OperationGate.cs:17-38).
THEOREM GpoIsExclusive == Spec => []GpoExclusive
<1>1. IInv => GpoExclusive
  BY DEF IInv, BusyAlone, BusyOwns, GpoExclusive
<1> QED BY <1>1, Inductive, PTL

\* During a service stop or a configuration save nothing privileged runs,
\* nothing is reserved and no record is in progress (OperationGate.cs:40-56).
THEOREM MaintenanceIsQuiet == Spec => []MaintenanceQuiet
<1>1. IInv => MaintenanceQuiet
  BY DEF IInv, MaintenanceIdle, BusyInGate, MaintenanceQuiet
<1> QED BY <1>1, Inductive, PTL

\* The worker is told to apply a plan at most once, across racing requests,
\* failures and restarts (GpoWorkflowService.cs:304-314 and 332-337).
THEOREM AppliedAtMostOnce == Spec => []AppliedOnce
<1>1. IInv => AppliedOnce
  BY DEF IInv
<1> QED BY <1>1, Inductive, PTL

\* An in-progress record always belongs to an operation that this process runs
\* (GpoWorkflowService.cs:332-407, Program.cs:83-84).
THEOREM ActiveRunsAreRun == Spec => []ActiveRunHasCaller
<1>1. IInv => ActiveRunHasCaller
  BY DEF IInv, RunHasWorker, ActiveRunHasCaller, Busy
<1> QED BY <1>1, Inductive, PTL
===============================================================================
