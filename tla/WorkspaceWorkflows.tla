-------------------------- MODULE WorkspaceWorkflows --------------------------
(***************************************************************************)
(* Server workflows (backend/Services/WorkspaceWorkflows.cs), the          *)
(* execution of one GPO operation they share with direct HTTP requests     *)
(* (GpoWorkflowService.ExecuteAsync), the gate between them (OperationGate)*)
(* and what survives a process end (Store).                                *)
(*                                                                         *)
(* Actors: HTTP requests that submit workflows, the one background reader, *)
(* one follow-up task per workflow with scheduled checks, HTTP requests    *)
(* that run an operation directly, maintenance, and the host.  The worker  *)
(* on the DC appears only by the results it may return (GpoWorker models   *)
(* it).  One operator: the limit on unfinished workflows is per operator.  *)
(***************************************************************************)
EXTENDS OperationGate, Naturals, Sequences, FiniteSets

CONSTANTS
    Plan,           \* reviewed plans; a plan's id is also the id of its run
    NoPlan,
    GpoOf,          \* Plan -> Gpo
    Fresh,          \* Plan -> Plan: the plan a later batch step previews anew
    Request,        \* Job -> what the submission of that workflow id asks for
    Reader,         \* the caller identity of the background reader
    Client,         \* concurrent HTTP requests that run one operation directly
    DirectCalls,    \* the <<operation, plan>> pairs these requests may ask for
    MaxUnfinished,  \* WorkspaceWorkflows.cs:27 (4)
    QueueBound,     \* WorkspaceWorkflows.cs:13 (16)
    EarlySubmit,    \* requests may be served before the recovery loop has run
    DbMayFail,      \* a durable write of Enqueue, record or audit, may throw
    MaxDown         \* bound: process ends

Operation == {"apply", "rollback", "verify", "refresh"}
Caller == {Reader} \cup Job \cup Client

ASSUME PlanAssumption ==
    /\ NoPlan \notin Plan
    /\ GpoOf \in [Plan -> Gpo]
    /\ Fresh \in [Plan -> Plan]
    /\ \A p \in Plan : GpoOf[Fresh[p]] = GpoOf[p]

\* A scan (or a batch preview) has no plan; every other workflow uses one GPO.
ASSUME RequestAssumption ==
    /\ Request \in [Job -> [action : Operation \cup {"scan"}, plans : Seq(Plan),
                            source : Job \cup {NoJob}, refresh : BOOLEAN,
                            rounds : 0..3]]
    /\ \A j \in Job :
         /\ \A i \in DOMAIN Request[j].plans :
                GpoOf[Request[j].plans[i]] = GpoOf[Request[j].plans[1]]
         /\ Request[j].source # NoJob => Request[j].action = "rollback"
         /\ (Request[j].action = "scan") =
                (Request[j].plans = <<>> /\ Request[j].source = NoJob)

ASSUME CallerAssumption ==
    /\ Reader \notin Job \cup Client
    /\ Job \cap Client = {}
    /\ NoJob \notin Client
    /\ DirectCalls \subseteq Operation \X Plan

ASSUME BoundAssumption ==
    /\ MaxUnfinished \in Nat
    /\ QueueBound \in Nat
    /\ MaxDown \in Nat
    /\ EarlySubmit \in BOOLEAN
    /\ DbMayFail \in BOOLEAN

VARIABLES
    job,        \* durable: workflow_jobs
    run,        \* durable: gpo_runs
    service,    \* "down", "starting", "serving" or "stopping"
    validated,  \* submissions past Start's checks, before Enqueue takes the lock
    queue,      \* the bounded channel of work items
    reader,     \* what the background reader is doing
    follow,     \* the follow-up task of each workflow
    call,       \* Caller -> its ExecuteAsync invocation
    applies,    \* history: how often the worker was told to apply a plan
    restored,   \* history: what the DC's manifest of a plan can say of a restore
    downs       \* process ends so far

historyVars == <<applies, restored, downs>>
vars == <<maintenance, operations, reservations, job, run, service, validated,
          queue, reader, follow, call, applies, restored, downs>>

-----------------------------------------------------------------------------
(* Records.                                                                *)

Unfinished == {"QUEUED", "RUNNING", "VERIFY_SCHEDULED"}
Finished == {"COMPLETED", "CHECKS_INCOMPLETE", "NEEDS_REVIEW",
             "WAITING_CONNECTION"}
JobState == Unfinished \cup Finished \cup {"none"}

InProgress == {"APPLYING", "ROLLBACKING", "VERIFYING", "REFRESHING"}
Published == {"PUBLISHED", "NO_CHANGE"}
Unsure == {"REVIEW_REQUIRED", "DRIFT_DETECTED"}
RunState == InProgress \cup Published \cup Unsure \cup
    {"none", "FAILED_SAFE", "REFRESHED", "REFRESH_FAILED", "ROLLED_BACK",
     "ROLLBACK_REVIEW_REQUIRED", "BATCH_ROLLED_BACK"}
Effective == {"PENDING", "VERIFIED", "MISMATCH"}
Error == {"LOGIN", "BUSY", "REFUSED"}

Started(op) == CASE op = "apply" -> "APPLYING"
                 [] op = "rollback" -> "ROLLBACKING"
                 [] op = "verify" -> "VERIFYING"
                 [] op = "refresh" -> "REFRESHING"

NoRun == [state |-> "none", backup |-> FALSE, eff |-> "PENDING"]
NoRecord == [state |-> "none", plans |-> <<>>, done |-> <<>>]
\* Variant: list positions that start at 0.
ReaderFromZero == [job |-> NoJob, stage |-> "idle", n |-> 0, pending |-> FALSE,
                   outcome |-> "none"]
ReaderIdle == [job |-> NoJob, stage |-> "idle", n |-> 1, pending |-> FALSE,
               outcome |-> "none"]
FollowOff == [round |-> 0, n |-> 1, skipped |-> FALSE, pending |-> FALSE]
CallIdle == [pc |-> "idle", op |-> "none", plan |-> NoPlan, owner |-> NoJob,
             res |-> "none", eff |-> "PENDING"]

Open == service = "serving" \/ (EarlySubmit /\ service = "starting")

ActiveRuns == {p \in Plan : run[p].state \in InProgress}
UnfinishedJobs == {j \in Job : job[j].state \in Unfinished}

Init ==
    /\ GateInit
    /\ job = [j \in Job |-> NoRecord]
    /\ run = [p \in Plan |-> NoRun]
    /\ service = "starting"
    /\ validated = {}
    /\ queue = <<>>
    /\ reader = ReaderIdle
    /\ follow = [j \in Job |-> FollowOff]
    /\ call = [c \in Caller |-> CallIdle]
    /\ applies = [p \in Plan |-> 0]
    /\ restored = [p \in Plan |-> "no"]
    /\ downs = 0

-----------------------------------------------------------------------------
(* GpoWorkflowService.ExecuteAsync: the same code for every caller.        *)

\* A recorded multi-control batch is restored only through its workflow.
OfBatch(p) ==
    \E j \in Job : /\ Request[j].action = "apply"
                   /\ Len(job[j].plans) > 1
                   /\ \E i \in DOMAIN job[j].done : job[j].done[i] = p

\* What is checked before the claim; the session may also have expired.
Refused(op, p, anchored) ==
    \/ op = "rollback" /\ ~anchored /\ OfBatch(p)
    \/ op \in {"verify", "refresh"} /\ run[p].state = "BATCH_ROLLED_BACK"

Answer(c, res, eff) == [call[c] EXCEPT !.pc = "done", !.res = res, !.eff = eff]

Invoke(c, op, p, owner, anchored) ==
    LET asked == [CallIdle EXCEPT !.op = op, !.plan = p, !.owner = owner]
    IN  /\ call[c].pc = "idle"
        /\ \/ /\ ~Refused(op, p, anchored)
              /\ call' = [call EXCEPT ![c] = [asked EXCEPT !.pc = "checked"]]
           \/ /\ Refused(op, p, anchored)
              /\ call' = [call EXCEPT ![c] = [asked EXCEPT !.pc = "done",
                                                           !.res = "REFUSED"]]
           \/ call' = [call EXCEPT ![c] = [asked EXCEPT !.pc = "done",
                                                        !.res = "LOGIN"]]

\* The record as read under the claim.  An apply that has a record answers
\* with it; other operations need one, and there is nothing to restore when
\* the apply changed nothing.
\* (Variant: the record is only read before the claim.)
AnswersNever(op, p) == FALSE
AnswersUnderClaim(op, p) == op = "apply" /\ run[p].state # "none"
RefusedUnderClaim(op, p) ==
    \/ op # "apply" /\ run[p].state = "none"
    \/ op = "rollback" /\ run[p].state = "NO_CHANGE"

CallUnchanged == UNCHANGED <<job, service, validated, queue, reader, follow,
                             maintenance, reservations, downs>>

\* BeginOperation throws: another operation, another workflow, maintenance.
ClaimBusy(c) ==
    /\ call[c].pc = "checked"
    /\ ~CanBegin(GpoOf[call[c].plan], call[c].owner)
    /\ call' = [call EXCEPT ![c] = Answer(c, "BUSY", "PENDING")]
    /\ CallUnchanged /\ UNCHANGED <<run, operations, applies, restored>>

\* The claim is released again without a worker run: an existing record, a
\* missing one, or a plan that has expired; or ValidateMappingVersion refuses
\* a plan whose mapping has changed meanwhile, whatever is recorded.
ClaimAnswered(c) ==
    LET op == call[c].op
        p == call[c].plan
    IN  /\ call[c].pc = "checked"
        /\ CanBegin(GpoOf[p], call[c].owner)
        /\ \/ /\ AnswersUnderClaim(op, p)
              /\ call' = [call EXCEPT ![c] = Answer(c, run[p].state, run[p].eff)]
           \/ call' = [call EXCEPT ![c] = Answer(c, "REFUSED", "PENDING")]
        /\ CallUnchanged /\ UNCHANGED <<run, operations, applies, restored>>

\* The in-progress record is durable before the worker is told anything.
ToWorker(c, op, p) ==
    /\ run' = [run EXCEPT ![p].state = Started(op)]
    /\ call' = [call EXCEPT ![c].pc = "running"]
    /\ applies' = IF op = "apply" /\ applies[p] < 2
                  THEN [applies EXCEPT ![p] = @ + 1] ELSE applies
    /\ restored' = IF op = "rollback" /\ restored[p] = "no"
                   THEN [restored EXCEPT ![p] = "asked"] ELSE restored

Claim(c) ==
    LET op == call[c].op
        p == call[c].plan
    IN  /\ call[c].pc = "checked"
        /\ ~AnswersUnderClaim(op, p)
        /\ ~RefusedUnderClaim(op, p)
        /\ BeginOperation(GpoOf[p], call[c].owner)
        /\ IF op = "refresh"
           THEN /\ call' = [call EXCEPT ![c].pc = "live"]
                /\ UNCHANGED <<run, applies, restored>>
           ELSE ToWorker(c, op, p)
        /\ CallUnchanged

\* What a read-only gpoVerify may report of p.  Once the worker has recorded a
\* restore, it compares the live GPO with the snapshot, never with the plan;
\* without a backup the apply was a no-change or left no manifest.
VerifyResults(p) ==
    LET asApplied ==
            [state : {"PUBLISHED"}, backup : {TRUE}, eff : Effective]
            \cup (IF run[p].backup THEN {}
                  ELSE [state : {"NO_CHANGE"}, backup : {FALSE}, eff : Effective])
        asRestored ==
            [state : {"ROLLED_BACK", "ROLLBACK_REVIEW_REQUIRED"},
             backup : {TRUE}, eff : {"PENDING"}]
    IN  [state : Unsure, backup : {run[p].backup, TRUE}, eff : {"PENDING"}]
        \cup (IF restored[p] = "yes" THEN {} ELSE asApplied)
        \cup (IF restored[p] = "no" THEN {} ELSE asRestored)

\* A confirmed restore is what the manifest says from then on.  A restore that
\* awaits review may still be one that never began: a process that was given up
\* on can save the manifest it had read before.
Learn(p, state) ==
    restored' = IF state = "ROLLED_BACK" THEN [restored EXCEPT ![p] = "yes"]
                ELSE restored

\* A refresh first re-reads the live state and stores it; a state that no
\* longer matches blocks it, and an exception leaves the record as it was.
RefreshLive(c) ==
    LET p == call[c].plan
    IN  /\ call[c].pc = "live"
        /\ \/ /\ UNCHANGED <<run, restored>>
              /\ EndOperation(GpoOf[p])
              /\ call' = [call EXCEPT ![c] = Answer(c, "REFUSED", "PENDING")]
           \/ \E live \in VerifyResults(p) :
                /\ Learn(p, live.state)
                /\ IF live.state \in Published \cup {"ROLLED_BACK"}
                   THEN /\ run' = [run EXCEPT ![p] =
                                    [live EXCEPT !.state = Started("refresh")]]
                        /\ call' = [call EXCEPT ![c].pc = "running",
                                                ![c].res = live.state]
                        /\ UNCHANGED operations
                   ELSE /\ run' = [run EXCEPT ![p] = live]
                        /\ EndOperation(GpoOf[p])
                        /\ call' = [call EXCEPT ![c] =
                                      Answer(c, "REFUSED", "PENDING")]
        /\ CallUnchanged /\ UNCHANGED applies

\* The recorded outcome.  An exception, a timeout included, keeps the rest of
\* the record; only codes of apply and rollback are classified as safe.
Failures(op, p) ==
    [state : {"REVIEW_REQUIRED"} \cup
             (IF op \in {"apply", "rollback"} THEN {"FAILED_SAFE"} ELSE {}),
     backup : {run[p].backup}, eff : {run[p].eff}]

RefreshResults(live) ==
    IF live = "ROLLED_BACK" THEN {"ROLLED_BACK", "DRIFT_DETECTED"}
    ELSE {"REFRESHED", "REFRESH_FAILED", "DRIFT_DETECTED"}

Outcomes(c, p) ==
    Failures(call[c].op, p) \cup
    CASE call[c].op = "apply" ->
           [state : {"PUBLISHED", "FAILED_SAFE", "REVIEW_REQUIRED"},
            backup : {TRUE}, eff : {"PENDING"}]
           \cup [state : {"NO_CHANGE"}, backup : {FALSE}, eff : {"PENDING"}]
      [] call[c].op = "rollback" ->
           [state : {"ROLLED_BACK", "ROLLBACK_REVIEW_REQUIRED"},
            backup : {TRUE}, eff : {"PENDING"}]
      [] call[c].op = "verify" -> VerifyResults(p)
      [] call[c].op = "refresh" ->
           [state : RefreshResults(call[c].res), backup : {run[p].backup},
            eff : {"PENDING"}]

WorkerReturns(c) ==
    LET p == call[c].plan
    IN  /\ call[c].pc = "running"
        /\ \E out \in Outcomes(c, p) :
             /\ run' = [run EXCEPT ![p] = out]
             /\ call' = [call EXCEPT ![c] = Answer(c, out.state, out.eff)]
             /\ Learn(p, out.state)
        /\ EndOperation(GpoOf[p])
        /\ CallUnchanged /\ UNCHANGED applies

\* A direct HTTP operation, and the end of its response.
DirectCall(c) ==
    /\ Open
    /\ \E d \in DirectCalls :
         /\ d[1] = "apply" \/ run[d[2]].state # "none"
         /\ Invoke(c, d[1], d[2], NoJob, FALSE)
    /\ CallUnchanged /\ UNCHANGED <<run, operations, applies, restored>>

DirectCallAnswered(c) ==
    /\ call[c].pc = "done"
    /\ call' = [call EXCEPT ![c] = CallIdle]
    /\ CallUnchanged /\ UNCHANGED <<run, operations, applies, restored>>

-----------------------------------------------------------------------------
(* Submission: Start and Scan validate without the lock, Enqueue accepts   *)
(* under it.                                                               *)

BackedSteps(s) == {i \in DOMAIN job[s].done : run[job[s].done[i]].backup}

SourceUsable(s) ==
    /\ Request[s].action = "apply"
    /\ job[s].state \in Finished
    /\ \A k \in Job : Request[k].source = s => job[k].state \notin Unfinished

\* A batch recovery restores the first operation that has a backup.
Targets(j) ==
    LET s == Request[j].source
    IN  IF s = NoJob THEN {Request[j].plans}
        ELSE {<<job[s].done[i]>> : i \in {i \in BackedSteps(s) :
                                            \A k \in BackedSteps(s) : i <= k}}

Submittable(op, p) ==
    CASE op = "apply" -> run[p].state = "none"
      [] op = "rollback" -> run[p].backup
      [] OTHER -> run[p].state # "none"

SubmitUnchanged == UNCHANGED <<run, service, reader, follow, call, maintenance,
                               operations, applies, restored, downs>>

Validate(j) ==
    /\ Open
    /\ job[j].state = "none"
    /\ Request[j].source # NoJob => SourceUsable(Request[j].source)
    /\ \E ps \in Targets(j) :
         /\ \A i \in DOMAIN ps : Submittable(Request[j].action, ps[i])
         /\ validated' = validated \cup {<<j, ps>>}
    /\ SubmitUnchanged /\ UNCHANGED <<job, queue, reservations>>

\* Writing workflows hold their GPO from acceptance to completion.
Resources(j, ps) == IF Request[j].action \in {"apply", "rollback", "refresh"}
                    THEN {GpoOf[Head(ps)]} ELSE {}

\* Variants: one workflow too many, and no answer to a repeated request id.
AcceptsOneMore(j, ps) ==
    /\ job[j].state = "none"
    /\ service # "stopping"
    /\ Cardinality(UnfinishedJobs) <= MaxUnfinished
    /\ Len(queue) < QueueBound
    /\ \A g \in Resources(j, ps) : CanReserve(g)
AcceptsAgain(j, ps) ==
    /\ service # "stopping"
    /\ Cardinality(UnfinishedJobs) < MaxUnfinished
    /\ Len(queue) < QueueBound
    /\ \A g \in Resources(j, ps) : CanReserve(g)

Accepts(j, ps) ==
    /\ job[j].state = "none"
    /\ service # "stopping"
    /\ Cardinality(UnfinishedJobs) < MaxUnfinished
    /\ Len(queue) < QueueBound
    /\ \A g \in Resources(j, ps) : CanReserve(g)

\* A second request with the same id may have validated as well: it stays.
Answered(v) == validated' = validated \/ validated' = validated \ {v}

EnqueueAccepts(j) ==
    \E v \in validated :
        LET ps == v[2]
        IN  /\ v[1] = j
            /\ Accepts(j, ps)
            /\ Answered(v)
            /\ job' = [job EXCEPT ![j] = [state |-> "QUEUED", plans |-> ps,
                                          done |-> <<>>]]
            /\ queue' = Append(queue, j)
            /\ IF Resources(j, ps) = {} THEN UNCHANGED reservations
               ELSE \E g \in Resources(j, ps) : Reserve(g, j)
            /\ SubmitUnchanged

\* Nothing is kept: the request id is known already, or a limit, the channel,
\* another holder of the GPO or a stopping service refuses.
EnqueueRefuses(j) ==
    \E v \in validated :
        /\ v[1] = j
        /\ ~Accepts(j, v[2])
        /\ validated' = validated \ {v}
        /\ SubmitUnchanged /\ UNCHANGED <<job, queue, reservations>>

\* Variant of the next action: the reservation is not given back.
EnqueueSaveFailsHolding(j) ==
    \E v \in validated :
        /\ DbMayFail
        /\ v[1] = j
        /\ Accepts(j, v[2])
        /\ Answered(v)
        /\ queue' = Append(queue, j)
        /\ \E g \in Resources(j, v[2]) : Reserve(g, j)
        /\ SubmitUnchanged /\ UNCHANGED job

\* The work item is in the channel before the record is saved and its audit
\* entry written; when one of the two throws, the reservation is given back,
\* and neither the work item nor a record that was saved is.
EnqueueSaveFails(j) ==
    \E v \in validated :
        /\ DbMayFail
        /\ v[1] = j
        /\ Accepts(j, v[2])
        /\ Answered(v)
        /\ queue' = Append(queue, j)
        /\ \/ UNCHANGED job
           \/ job' = [job EXCEPT ![j] = [state |-> "QUEUED", plans |-> v[2],
                                         done |-> <<>>]]
        /\ SubmitUnchanged /\ UNCHANGED reservations

-----------------------------------------------------------------------------
(* The background reader: ExecuteAsync and Process.                        *)

Working(stage) == reader.stage = stage /\ service \in {"serving", "stopping"}
Current == reader.job
CurrentRequest == Request[Current]
CurrentDone == job[Current].done
ReaderFree == call[Reader].pc = "idle"

\* At start every unfinished record is closed; nothing is queued again.
Recover ==
    /\ service = "starting"
    /\ service' = "serving"
    /\ job' = [j \in Job |->
                 IF job[j].state \notin Unfinished THEN job[j]
                 ELSE [job[j] EXCEPT !.state =
                         IF Request[j].action = "scan" \/ @ = "VERIFY_SCHEDULED"
                         THEN "WAITING_CONNECTION" ELSE "NEEDS_REVIEW"]]
    /\ UNCHANGED <<run, validated, queue, reader, follow, call, gateVars,
                   historyVars>>

ReaderUnchanged == UNCHANGED <<validated, follow, maintenance, operations,
                               applies, restored, downs>>

Dequeue ==
    /\ Working("idle")
    /\ queue # <<>>
    /\ queue' = Tail(queue)
    /\ LET j == Head(queue)
       IN  /\ job[j].state # "none"
           /\ job' = [job EXCEPT ![j].state = "RUNNING"]
           /\ reader' = [ReaderIdle EXCEPT !.job = j,
                           !.stage = IF Request[j].action = "scan" THEN "scan"
                                     ELSE "steps"]
    /\ ReaderUnchanged /\ UNCHANGED <<run, service, call, reservations>>

\* The first Update of Process is outside its try: without a record it throws
\* out of the background service, and the host stops.
DequeueWithoutRecord ==
    /\ Working("idle")
    /\ queue # <<>>
    /\ job[Head(queue)].state = "none"
    /\ queue' = Tail(queue)
    /\ reader' = [ReaderIdle EXCEPT !.stage = "faulted"]
    /\ service' = "stopping"
    /\ ReaderUnchanged /\ UNCHANGED <<run, job, call, reservations>>

\* Stage changes; `closing` is the state that Finish will write.
Closing(state) == [reader EXCEPT !.stage = "finish", !.outcome = state]
FailState(res) == IF res = "LOGIN" THEN "WAITING_CONNECTION" ELSE "NEEDS_REVIEW"

Checked == CurrentRequest.action \in {"apply", "refresh", "verify"}
AfterRefresh == IF Checked THEN "checks" ELSE "close"
AfterMarks == IF CurrentRequest.refresh /\ CurrentRequest.action \in {"apply", "rollback"}
              THEN "refresh" ELSE AfterRefresh
AfterSteps == IF CurrentRequest.source # NoJob THEN "marks" ELSE AfterMarks

\* A read-only scan or batch preview; each preview may fail or be cancelled.
ScanEnds ==
    /\ Working("scan")
    /\ \E state \in {"COMPLETED", "NEEDS_REVIEW", "WAITING_CONNECTION"} :
         reader' = Closing(state)
    /\ ReaderUnchanged
    /\ UNCHANGED <<run, job, queue, service, call, reservations>>

\* The shutdown token is looked at before every step.
StepStopped ==
    /\ Working("steps")
    /\ ReaderFree
    /\ service = "stopping"
    /\ reader' = Closing("WAITING_CONNECTION")
    /\ ReaderUnchanged
    /\ UNCHANGED <<run, job, queue, service, call, reservations>>

\* A batch step past the first previews anew and stops on drift, a lost
\* session or an unsafe pilot; a batch recovery stops without a post-state.
StepRefused ==
    /\ Working("steps")
    /\ ReaderFree
    /\ \/ CurrentRequest.action = "apply" /\ Len(job[Current].plans) > 1
       \/ CurrentRequest.source # NoJob
    /\ \E state \in {"NEEDS_REVIEW", "WAITING_CONNECTION"} :
         reader' = Closing(state)
    /\ ReaderUnchanged
    /\ UNCHANGED <<run, job, queue, service, call, reservations>>

StepPlan == LET p == job[Current].plans[reader.n]
            IN  IF CurrentRequest.action = "apply" /\ reader.n > 1
                THEN Fresh[p] ELSE p

StepStart ==
    /\ Working("steps")
    /\ service # "stopping"
    /\ Invoke(Reader, CurrentRequest.action, StepPlan, Current,
              CurrentRequest.source # NoJob)
    /\ ReaderUnchanged
    /\ UNCHANGED <<run, job, queue, service, reader, reservations>>

\* Results that may stop, and results that may continue, a workflow.  Both
\* hold where the per-host refresh results, not modelled, decide.
StopsStep(op, res) ==
    CASE op = "apply" -> res \notin Published
      [] op = "rollback" -> res # "ROLLED_BACK"
      [] op = "verify" -> res \in Unsure
      [] op = "refresh" -> res \notin {"REFRESHED"}
PassesAlways(op, res) == TRUE   \* Variant: the result is not judged.
PassesStep(op, res) ==
    IF op = "refresh" THEN res \notin Unsure \cup {"REFRESH_FAILED"}
    ELSE ~StopsStep(op, res)

ReaderAnswered == call[Reader].pc = "done"
HangUp == call' = [call EXCEPT ![Reader] = CallIdle]

StepError ==
    /\ Working("steps") \/ Working("refresh") \/ Working("checks")
    /\ ReaderAnswered
    /\ call[Reader].res \in Error
    /\ reader' = Closing(FailState(call[Reader].res))
    /\ HangUp
    /\ ReaderUnchanged
    /\ UNCHANGED <<run, job, queue, service, reservations>>

\* The operation is recorded as completed before its result is judged.
StepDone ==
    /\ Working("steps")
    /\ ReaderAnswered
    /\ call[Reader].res \notin Error
    /\ job' = [job EXCEPT ![Current].done = Append(@, call[Reader].plan)]
    /\ \/ /\ StopsStep(CurrentRequest.action, call[Reader].res)
          /\ reader' = Closing("NEEDS_REVIEW")
       \/ /\ PassesStep(CurrentRequest.action, call[Reader].res)
          /\ reader' = IF reader.n < Len(job[Current].plans)
                       THEN [reader EXCEPT !.n = @ + 1]
                       ELSE [reader EXCEPT !.n = 1, !.stage = AfterSteps]
    /\ HangUp
    /\ ReaderUnchanged /\ UNCHANGED <<run, queue, service, reservations>>

\* Variant of the next definition: operations without a backup are left alone.
SparedUnbacked(p) == p = CurrentDone[1] \/ ~run[p].backup

\* The restored operation itself keeps its record.
Spared(p) == p = CurrentDone[1]

\* The other operations of a restored batch, one record at a time.
Batch == job[CurrentRequest.source].done

Mark ==
    /\ Working("marks")
    /\ reader.n <= Len(Batch)
    /\ run' = IF Spared(Batch[reader.n]) THEN run
              ELSE [run EXCEPT ![Batch[reader.n]].state = "BATCH_ROLLED_BACK",
                               ![Batch[reader.n]].eff = "PENDING"]
    /\ reader' = [reader EXCEPT !.n = @ + 1]
    /\ ReaderUnchanged
    /\ UNCHANGED <<job, queue, service, call, reservations>>

MarksDone ==
    /\ Working("marks")
    /\ reader.n > Len(Batch)
    /\ reader' = [reader EXCEPT !.n = 1, !.stage = AfterMarks]
    /\ ReaderUnchanged
    /\ UNCHANGED <<run, job, queue, service, call, reservations>>

\* The approved refresh: the restored operation, or the last one applied.
RefreshStart ==
    /\ Working("refresh")
    /\ Invoke(Reader, "refresh", CurrentDone[Len(CurrentDone)], Current,
              CurrentRequest.source # NoJob)
    /\ ReaderUnchanged
    /\ UNCHANGED <<run, job, queue, service, reader, reservations>>

RefreshDone ==
    /\ Working("refresh")
    /\ ReaderAnswered
    /\ call[Reader].res \notin Error
    /\ \/ /\ StopsStep("refresh", call[Reader].res)
          /\ reader' = Closing("NEEDS_REVIEW")
       \/ /\ PassesStep("refresh", call[Reader].res)
          /\ reader' = [reader EXCEPT !.stage = AfterRefresh]
    /\ HangUp
    /\ ReaderUnchanged /\ UNCHANGED <<run, job, queue, service, reservations>>

\* CheckEndpointMismatch; a mismatch may still converge before a later check.
Contradicts(state, eff, mayConverge) ==
    state \in Unsure \/ (eff = "MISMATCH" /\ ~mayConverge)

\* Every completed operation is verified; a verify workflow just did, and
\* reads the stored records instead.
CheckStart ==
    /\ Working("checks")
    /\ CurrentRequest.action # "verify"
    /\ reader.n <= Len(CurrentDone)
    /\ Invoke(Reader, "verify", CurrentDone[reader.n], Current, FALSE)
    /\ ReaderUnchanged
    /\ UNCHANGED <<run, job, queue, service, reader, reservations>>

\* (Variant: the last verification decides for all of them.)
CheckMeasuredLast(state, eff) ==
    reader' = IF state = "ROLLED_BACK" THEN [reader EXCEPT !.n = @ + 1]
              ELSE IF Contradicts(state, eff, CurrentRequest.rounds > 0)
                   THEN Closing("NEEDS_REVIEW")
                   ELSE [reader EXCEPT !.n = @ + 1,
                           !.pending = eff # "VERIFIED"]

CheckMeasured(state, eff) ==
    reader' = IF state = "ROLLED_BACK" THEN [reader EXCEPT !.n = @ + 1]
              ELSE IF Contradicts(state, eff, CurrentRequest.rounds > 0)
                   THEN Closing("NEEDS_REVIEW")
                   ELSE [reader EXCEPT !.n = @ + 1,
                           !.pending = @ \/ eff # "VERIFIED"]

CheckDone ==
    /\ Working("checks")
    /\ ReaderAnswered
    /\ call[Reader].res \notin Error
    /\ CheckMeasured(call[Reader].res, call[Reader].eff)
    /\ HangUp
    /\ ReaderUnchanged /\ UNCHANGED <<run, job, queue, service, reservations>>

CheckRead ==
    /\ Working("checks")
    /\ CurrentRequest.action = "verify"
    /\ reader.n <= Len(CurrentDone)
    /\ CheckMeasured(run[CurrentDone[reader.n]].state,
                     run[CurrentDone[reader.n]].eff)
    /\ ReaderUnchanged
    /\ UNCHANGED <<run, job, queue, service, call, reservations>>

ChecksDone ==
    /\ Working("checks")
    /\ ReaderFree
    /\ reader.n > Len(CurrentDone)
    /\ reader' = [reader EXCEPT !.stage = "close"]
    /\ ReaderUnchanged
    /\ UNCHANGED <<run, job, queue, service, call, reservations>>

\* Scheduled checks take over, or the workflow is finished.
Schedule ==
    /\ Working("close")
    /\ CurrentRequest.rounds > 0
    /\ job' = [job EXCEPT ![Current].state = "VERIFY_SCHEDULED"]
    /\ follow' = [follow EXCEPT ![Current] = [FollowOff EXCEPT !.round = 1]]
    /\ reader' = [reader EXCEPT !.stage = "release"]
    /\ UNCHANGED <<run, service, validated, queue, call, gateVars, historyVars>>

Close ==
    /\ Working("close")
    /\ CurrentRequest.rounds = 0
    /\ reader' = Closing(IF reader.pending THEN "CHECKS_INCOMPLETE"
                         ELSE "COMPLETED")
    /\ ReaderUnchanged
    /\ UNCHANGED <<run, job, queue, service, call, reservations>>

FinishJob ==
    /\ Working("finish")
    /\ job' = [job EXCEPT ![Current].state = reader.outcome]
    /\ reader' = [reader EXCEPT !.stage = "release"]
    /\ ReaderUnchanged
    /\ UNCHANGED <<run, queue, service, call, reservations>>

\* Variant of the next action: a failed workflow keeps its reservation.
ReleaseJobCompleted ==
    /\ Working("release")
    /\ \/ job[Current].state = "NEEDS_REVIEW" /\ UNCHANGED reservations
       \/ \E g \in Resources(Current, job[Current].plans) : Release(g, Current)
    /\ reader' = ReaderIdle
    /\ ReaderUnchanged /\ UNCHANGED <<run, job, queue, service, call>>

\* The finally block, after the record is final.
ReleaseJob ==
    /\ Working("release")
    /\ IF Resources(Current, job[Current].plans) = {} THEN UNCHANGED reservations
       ELSE \E g \in Resources(Current, job[Current].plans) : Release(g, Current)
    /\ reader' = ReaderIdle
    /\ ReaderUnchanged /\ UNCHANGED <<run, job, queue, service, call>>

-----------------------------------------------------------------------------
(* VerifyLater: one task per workflow, without its reservation.            *)

Due(j) == follow[j].round > 0 /\ service \in {"serving", "stopping"}
FollowUnchanged == UNCHANGED <<run, service, validated, queue, reader, gateVars,
                               historyVars>>
\* (Variant: the task ends without a word in its record.)
EndFollowSilently(j, state) ==
    /\ UNCHANGED job
    /\ follow' = [follow EXCEPT ![j] = FollowOff]
EndFollow(j, state) ==
    /\ job' = [job EXCEPT ![j].state = state]
    /\ follow' = [follow EXCEPT ![j] = FollowOff]

FollowStart(j) ==
    /\ Due(j)
    /\ service # "stopping"
    /\ Invoke(j, "verify", job[j].done[follow[j].n], NoJob, FALSE)
    /\ UNCHANGED <<job, follow>> /\ FollowUnchanged

FollowStopped(j) ==
    /\ Due(j)
    /\ service = "stopping"
    /\ call[j].pc = "idle"
    /\ EndFollow(j, "WAITING_CONNECTION")
    /\ UNCHANGED call /\ FollowUnchanged

\* Variants of the next definition: a new round starts at position 0, and a new
\* round forgets that a check was skipped.
FollowNextFromZero(j, pending, skipped) ==
    LET f == [follow[j] EXCEPT !.pending = pending, !.skipped = skipped]
    IN  IF follow[j].round < Request[j].rounds
        THEN /\ follow' = [follow EXCEPT ![j] = [f EXCEPT !.n = 0, !.round = @ + 1]]
             /\ UNCHANGED job
        ELSE EndFollow(j, IF skipped \/ pending THEN "CHECKS_INCOMPLETE"
                          ELSE "COMPLETED")
FollowNextForgets(j, pending, skipped) ==
    IF follow[j].round < Request[j].rounds
    THEN /\ follow' = [follow EXCEPT ![j] = [FollowOff EXCEPT !.round =
                                                follow[j].round + 1]]
         /\ UNCHANGED job
    ELSE EndFollow(j, IF skipped \/ pending THEN "CHECKS_INCOMPLETE"
                      ELSE "COMPLETED")

\* The next operation, the next round, or the end of the last round.
FollowNext(j, pending, skipped) ==
    LET f == [follow[j] EXCEPT !.pending = pending, !.skipped = skipped]
    IN  IF f.n < Len(job[j].done)
        THEN /\ follow' = [follow EXCEPT ![j] = [f EXCEPT !.n = @ + 1]]
             /\ UNCHANGED job
        ELSE IF f.round < Request[j].rounds
        THEN /\ follow' = [follow EXCEPT ![j] =
                             [f EXCEPT !.n = 1, !.round = @ + 1,
                                       !.pending = FALSE]]
             /\ UNCHANGED job
        ELSE EndFollow(j, IF skipped \/ pending THEN "CHECKS_INCOMPLETE"
                          ELSE "COMPLETED")

\* A busy GPO or a stopping service skips this check and keeps the others.
FollowSkipped(j) ==
    /\ Due(j)
    /\ call[j].pc = "done"
    /\ call[j].res = "BUSY"
    /\ FollowNext(j, follow[j].pending, TRUE)
    /\ call' = [call EXCEPT ![j] = CallIdle]
    /\ FollowUnchanged

\* Variant: a lost session is not an answer.
FollowFailsUnlessLogin(j) ==
    /\ Due(j)
    /\ call[j].pc = "done"
    /\ \/ call[j].res = "REFUSED"
       \/ call[j].res \notin Error \cup {"ROLLED_BACK"}
          /\ Contradicts(call[j].res, call[j].eff,
                         follow[j].round < Request[j].rounds)
    /\ EndFollow(j, FailState(call[j].res))
    /\ call' = [call EXCEPT ![j] = CallIdle]
    /\ FollowUnchanged

FollowFails(j) ==
    /\ Due(j)
    /\ call[j].pc = "done"
    /\ \/ call[j].res \in {"LOGIN", "REFUSED"}
       \/ call[j].res \notin Error \cup {"ROLLED_BACK"}
          /\ Contradicts(call[j].res, call[j].eff,
                         follow[j].round < Request[j].rounds)
    /\ EndFollow(j, FailState(call[j].res))
    /\ call' = [call EXCEPT ![j] = CallIdle]
    /\ FollowUnchanged

FollowMeasured(j) ==
    /\ Due(j)
    /\ call[j].pc = "done"
    /\ call[j].res \notin Error
    /\ \/ call[j].res = "ROLLED_BACK"
       \/ ~Contradicts(call[j].res, call[j].eff,
                       follow[j].round < Request[j].rounds)
    /\ FollowNext(j, follow[j].pending \/
                     (call[j].res # "ROLLED_BACK" /\ call[j].eff # "VERIFIED"),
                  follow[j].skipped)
    /\ call' = [call EXCEPT ![j] = CallIdle]
    /\ FollowUnchanged

-----------------------------------------------------------------------------
(* Maintenance and the life of the process.                                *)

HostUnchanged == UNCHANGED <<job, run, validated, queue, reader, follow, call,
                             operations, reservations, applies, restored>>

Maintain ==
    /\ service = "serving"
    /\ BeginMaintenance(ActiveRuns)
    /\ HostUnchanged /\ UNCHANGED <<service, downs>>

\* The configuration was saved without a restart, or could not be saved.
EndMaintain ==
    /\ service = "serving"
    /\ maintenance
    /\ EndMaintenance
    /\ HostUnchanged /\ UNCHANGED <<service, downs>>

\* The stop endpoint, under maintenance, or a console or service-manager stop.
HostStops ==
    /\ service = "serving"
    /\ downs < MaxDown
    /\ service' = "stopping"
    /\ downs' = downs + 1
    /\ HostUnchanged /\ UNCHANGED maintenance

\* The end of the process, whatever is in progress: the records stay.
ProcessEnds ==
    /\ service' = "down"
    /\ validated' = {}
    /\ queue' = <<>>
    /\ reader' = ReaderIdle
    /\ follow' = [j \in Job |-> FollowOff]
    /\ call' = [c \in Caller |-> CallIdle]
    /\ GateReset
    /\ UNCHANGED <<job, run, applies, restored>>

\* The host waits at most its shutdown timeout.
Exit ==
    /\ service = "stopping"
    /\ ProcessEnds
    /\ UNCHANGED downs

Crash ==
    /\ service \in {"starting", "serving"}
    /\ downs < MaxDown
    /\ ProcessEnds
    /\ downs' = downs + 1

\* Variant of the next action: interrupted runs are left as they are.
RestartAsIs ==
    /\ service = "down"
    /\ service' = "starting"
    /\ UNCHANGED <<run, job, validated, queue, reader, follow, call, gateVars,
                   historyVars>>

\* Program.cs recovers interrupted runs before anything else is started.
Restart ==
    /\ service = "down"
    /\ service' = "starting"
    /\ run' = [p \in Plan |-> IF run[p].state \in InProgress
                              THEN [run[p] EXCEPT !.state = "REVIEW_REQUIRED"]
                              ELSE run[p]]
    /\ UNCHANGED <<job, validated, queue, reader, follow, call, gateVars,
                   historyVars>>

-----------------------------------------------------------------------------
Submission(j) == Validate(j) \/ EnqueueAccepts(j) \/ EnqueueRefuses(j)
                 \/ EnqueueSaveFails(j)
CallStep(c) == ClaimBusy(c) \/ ClaimAnswered(c) \/ Claim(c) \/ RefreshLive(c)
               \/ WorkerReturns(c)
ClientStep(c) == DirectCall(c) \/ DirectCallAnswered(c)
ReaderStep ==
    \/ Dequeue \/ DequeueWithoutRecord \/ ScanEnds
    \/ StepStopped \/ StepRefused \/ StepStart \/ StepError \/ StepDone
    \/ Mark \/ MarksDone \/ RefreshStart \/ RefreshDone
    \/ CheckStart \/ CheckDone \/ CheckRead \/ ChecksDone
    \/ Schedule \/ Close \/ FinishJob \/ ReleaseJob
FollowStep(j) == FollowStart(j) \/ FollowStopped(j) \/ FollowSkipped(j)
                 \/ FollowFails(j) \/ FollowMeasured(j)
HostStep == Maintain \/ EndMaintain \/ HostStops \/ Exit \/ Crash \/ Restart
            \/ Recover

Next ==
    \/ \E j \in Job : Submission(j) \/ FollowStep(j)
    \/ \E c \in Caller : CallStep(c)
    \/ \E c \in Client : ClientStep(c)
    \/ ReaderStep
    \/ HostStep

Spec == Init /\ [][Next]_vars

\* The reader and the tasks are scheduled by the runtime, every worker run has
\* a timeout, the host ends a shutdown, and the service is started again.
Fairness ==
    /\ WF_vars(ReaderStep)
    /\ \A c \in Caller : WF_vars(CallStep(c))
    /\ \A j \in Job : WF_vars(FollowStep(j))
    /\ WF_vars(Exit) /\ WF_vars(Restart) /\ WF_vars(Recover)

FairSpec == Spec /\ Fairness

-----------------------------------------------------------------------------
(* Correctness.                                                            *)

JobRecord == [state : JobState, plans : Seq(Plan), done : Seq(Plan)]
RunRecord == [state : RunState, backup : BOOLEAN, eff : Effective]
CallRecord == [pc : {"idle", "checked", "live", "running", "done"},
               op : Operation \cup {"none"}, plan : Plan \cup {NoPlan},
               owner : Job \cup {NoJob}, res : RunState \cup Error,
               eff : Effective]
Stage == {"idle", "scan", "steps", "marks", "refresh", "checks", "close",
          "finish", "release", "faulted"}
ReaderRecord == [job : Job \cup {NoJob}, stage : Stage, n : Nat \ {0},
                 pending : BOOLEAN, outcome : JobState]
FollowRecord == [round : 0..3, n : Nat \ {0}, skipped : BOOLEAN,
                 pending : BOOLEAN]

\* Every variable has its type.
TypeOK ==
    /\ GateTypeOK
    /\ job \in [Job -> JobRecord]
    /\ run \in [Plan -> RunRecord]
    /\ service \in {"down", "starting", "serving", "stopping"}
    /\ validated \subseteq Job \X Seq(Plan)
    /\ queue \in Seq(Job)
    /\ reader \in ReaderRecord
    /\ follow \in [Job -> FollowRecord]
    /\ call \in [Caller -> CallRecord]
    /\ applies \in [Plan -> 0..2]
    /\ restored \in [Plan -> {"no", "asked", "yes"}]
    /\ downs \in Nat

Busy(c) == call[c].pc \in {"live", "running"}
GpoOfCall(c) == GpoOf[call[c].plan]

\* Two operations never run on one GPO, and while a workflow holds a GPO only
\* that workflow's own operations run on it: direct requests, follow-up tasks
\* and the reader all pass OperationGate.
GpoExclusive ==
    \A c \in Caller : Busy(c) =>
        /\ reservations[GpoOfCall(c)] \in {NoJob, call[c].owner}
        /\ \A d \in Caller \ {c} : Busy(d) => GpoOfCall(d) # GpoOfCall(c)

\* A reservation never outlives its work: the workflow is in the channel or in
\* the reader's hands.  A leak would refuse every later operation on the GPO
\* and every maintenance until the process ends.
ReservationAccounted ==
    \A g \in Gpo : reservations[g] # NoJob =>
        \/ reader.job = reservations[g]
        \/ \E i \in DOMAIN queue : queue[i] = reservations[g]

\* A workflow that reserved its GPO is never told that the GPO is busy, so a
\* batch is not torn between two of its steps by another operation.
ReservedStepNeverBusy ==
    call[Reader].pc = "done" /\ call[Reader].res = "BUSY" =>
        Resources(Current, job[Current].plans) = {}

\* While the service is stopping or saving its configuration, nothing
\* privileged runs, nothing is reserved and no record claims to be in progress.
MaintenanceQuiet ==
    maintenance =>
        /\ operations = {}
        /\ \A c \in Caller : ~Busy(c)
        /\ \A g \in Gpo : reservations[g] = NoJob
        /\ ActiveRuns = {}

\* An in-progress record always belongs to an operation this process is
\* running; a stale one would block maintenance (CountActiveGpoRuns) for ever.
ActiveRunHasCaller ==
    service # "down" =>
        \A p \in ActiveRuns :
            \E c \in Caller : Busy(c) /\ call[c].plan = p

\* The worker is told to apply a plan at most once, across racing requests,
\* batches, failures and restarts: "no privileged work is replayed".
AppliedOnce == \A p \in Plan : applies[p] <= 1

\* A batch writes its next step only while every step before it is published.
BatchStepsFollowPublished ==
    Busy(Reader) /\ call[Reader].op = "apply" =>
        \A i \in DOMAIN CurrentDone : run[CurrentDone[i]].state \in Published

\* No accepted workflow is lost by a serving process: the state of its record
\* says who has it: the channel, the reader, or its follow-up task.
NoOrphanJob ==
    service \in {"serving", "stopping"} =>
        \A j \in Job :
            /\ job[j].state = "QUEUED" => \E i \in DOMAIN queue : queue[i] = j
            /\ job[j].state = "RUNNING" => reader.job = j
            /\ job[j].state = "VERIFY_SCHEDULED" => follow[j].round > 0

\* "At most four unfinished workflows per operator", whatever the interleaving
\* of submissions with the reader, the follow-ups and a restart.
UnfinishedBounded == Cardinality(UnfinishedJobs) <= MaxUnfinished

\* A workflow that was closed (by Finish or by the recovery of a restart) is
\* closed: its approvals are never executed again.
ClosedStaysClosed ==
    [][\A j \in Job : job[j].state \in Finished =>
            job'[j].state = job[j].state]_vars

\* When a batch recovery succeeds, no operation of the batch is left with a
\* record that still claims its change is published.
RecoveryCoversBatch ==
    [][\A j \in Job :
         /\ Request[j].source # NoJob
         /\ job[j].state = "RUNNING"
         /\ job'[j].state \in {"COMPLETED", "VERIFY_SCHEDULED"}
         => LET ps == job[Request[j].source].done
            IN  \A i \in DOMAIN ps :
                  run'[ps[i]].state \in {"ROLLED_BACK", "BATCH_ROLLED_BACK"}]_vars

\* An apply or refresh workflow ends COMPLETED, without scheduled checks, only
\* when each of its operations is verified effective (or was restored) at that
\* very moment: the reservation is still held.
CompletedMeansVerified ==
    [][\A j \in Job :
         /\ Request[j].action \in {"apply", "refresh"}
         /\ Request[j].rounds = 0
         /\ job[j].state = "RUNNING"
         /\ job'[j].state = "COMPLETED"
         => \A i \in DOMAIN job[j].done :
              LET r == run'[job[j].done[i]]
              IN  \/ r.state = "ROLLED_BACK"
                  \/ r.state \in Published /\ r.eff = "VERIFIED"]_vars

\* Every accepted workflow is eventually closed, across stops and crashes.
AcceptedIsClosed ==
    \A j \in Job : job[j].state \in Unfinished ~> job[j].state \in Finished

\* A follow-up that skipped a check because the GPO was busy remembers it until
\* its last round, and never ends as COMPLETED whatever the later checks say.
SkippedNeverCompleted ==
    [][\A j \in Job :
         \/ follow[j].skipped
         \/ follow[j].round > 0 /\ call[j].res = "BUSY" /\ call'[j] # call[j]
         => /\ job'[j].state # "COMPLETED"
            /\ follow'[j].round > 0 => follow'[j].skipped]_vars

\* The record of an operation that a batch recovery restored keeps saying so:
\* a verification or refresh that passed its checks before the recovery does
\* not write it again (GpoWorkflowService.cs:301-302, "Verification and refresh
\* must not overwrite another operation's result.").
RestoredRecordKept ==
    [][\A p \in Plan : run[p].state = "BATCH_ROLLED_BACK" =>
            run'[p].state \notin {"VERIFYING", "REFRESHING"}]_vars

\* Whatever the reader takes out of the channel has its durable record
\* (WorkspaceWorkflows.cs:108, "so the durable record exists before
\* processing").
RecordBeforeProcessing ==
    [][queue # <<>> /\ queue' = Tail(queue) /\ service' # "down"
       => job[Head(queue)].state # "none"]_vars

\* What the service promises of workflows and GPOs (GpoCustody), whatever the
\* channel, the reader, the tasks and the requests do meanwhile: one operation
\* at a time on a GPO, under the reservation of a workflow that is still open,
\* each plan handed to the DC once, nothing in progress under maintenance, and a
\* restart that closes what the last process left and continues nothing
\* (WorkspaceWorkflows.cs:22-35 and 102-119, OperationGate.cs).
NoWork == [op |-> "none", plan |-> NoPlan, owner |-> NoJob]
WorkOf(c) == IF Busy(c) THEN [op |-> call[c].op, plan |-> call[c].plan,
                              owner |-> call[c].owner]
             ELSE NoWork
\* A workflow is open until it has its outcome.
Standing(j) == IF job[j].state \in Unfinished THEN "open" ELSE job[j].state
\* The process has recovered, and serves or stops.
Up == service \in {"serving", "stopping"}
Custody == INSTANCE GpoCustody WITH
    Outcome <- Finished,
    standing <- [j \in Job |-> Standing(j)],
    holder <- reservations,
    work <- [c \in Caller |-> WorkOf(c)],
    told <- {p \in Plan : applies[p] # 0},
    quiet <- maintenance,
    up <- Up
CustodyKept == Custody!CustodySpec

-----------------------------------------------------------------------------
(* The inductive invariant behind the theorems of WorkspaceWorkflowsProofs. *)

\* What each actor relies on when it uses a record: the reader's position is
\* within its workflow and a follow-up's within the completed operations, the
\* reader's final state is known before it is written, a call has a plan, and
\* only a read-only scan has none.
ReaderShape ==
    /\ reader.stage \notin {"idle", "faulted"} =>
         reader.job \in Job /\ job[reader.job].state # "none"
    /\ reader.stage \in {"steps", "marks", "refresh", "checks", "close"} =>
         Request[reader.job].action # "scan"
    /\ reader.stage = "steps" => reader.n <= Len(job[reader.job].plans)
    /\ reader.stage \in {"marks", "refresh", "checks", "close"} =>
         job[reader.job].done # <<>>
    /\ reader.stage = "marks" => Request[reader.job].source # NoJob
    /\ reader.stage = "finish" => reader.outcome \in Finished
FollowShape ==
    \A j \in Job : follow[j].round > 0 =>
        job[j].state # "none" /\ follow[j].n <= Len(job[j].done)
CallShape ==
    \A c \in Caller : call[c].pc # "idle" =>
        call[c].op \in Operation /\ call[c].plan \in Plan
PlansShape ==
    /\ \A v \in validated : Request[v[1]].action # "scan" => v[2] # <<>>
    /\ \A j \in Job : job[j].state # "none" /\ Request[j].action # "scan" =>
         job[j].plans # <<>>

Shape == TypeOK /\ ReaderShape /\ FollowShape /\ CallShape /\ PlansShape

\* Whatever runs on a GPO is in the gate, alone and under its reservation.
BusyInGate == \A c \in Caller : Busy(c) => GpoOfCall(c) \in operations
BusyAlone == \A c, d \in Caller : Busy(c) /\ Busy(d) /\ c # d =>
                GpoOfCall(c) # GpoOfCall(d)
BusyOwns == \A c \in Caller : Busy(c) =>
                reservations[GpoOfCall(c)] \in {NoJob, call[c].owner}
MaintenanceIdle ==
    maintenance => /\ operations = {}
                   /\ \A g \in Gpo : reservations[g] = NoJob
                   /\ ActiveRuns = {}

\* A plan without a record was never applied; an in-progress record has the
\* worker run it stands for, or the process has ended.
UnrecordedUnapplied == \A p \in Plan : run[p].state = "none" => applies[p] = 0
RunHasWorker ==
    service # "down" =>
        \A p \in ActiveRuns :
            \E c \in Caller : call[c].pc = "running" /\ call[c].plan = p

\* What the actors rely on, what the gate says of the busy callers, and what the
\* records say of the worker runs: true at the start and kept by every step.
IInv ==
    /\ Shape
    /\ BusyInGate /\ BusyAlone /\ BusyOwns /\ MaintenanceIdle
    /\ UnrecordedUnapplied /\ AppliedOnce /\ RunHasWorker
=============================================================================
