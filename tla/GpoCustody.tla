------------------------------ MODULE GpoCustody ------------------------------
(* What the service promises of workflows and of the GPOs they change,     *)
(* without requests, channel, reader, tasks and records: one operation at  *)
(* a time on a GPO; a GPO in the custody of a workflow is left to it; a    *)
(* workflow works only while it is open and writes only what it has in its *)
(* custody; no plan is handed to the domain controller twice; what is      *)
(* closed keeps the outcome it was closed with; a process that ends takes  *)
(* custody and work with it, but forgets no workflow; and the next one     *)
(* closes what it finds open before it does anything else.                 *)
(* WorkspaceWorkflows implements this.                                     *)

CONSTANTS Gpo, Job, NoJob, Plan, NoPlan,
          Outcome,      \* what a workflow is closed with
          GpoOf,        \* Plan -> Gpo
          Caller        \* whoever can ask for an operation

VARIABLES standing,     \* Job -> "none", "open", or the outcome
          holder,       \* Gpo -> the workflow that has it in its custody
          work,         \* Caller -> the operation in progress
          told,         \* plans whose apply was handed to the controller
          quiet,        \* maintenance
          up            \* the process serves: it has closed what it found
custodyVars == <<standing, holder, work, told, quiet, up>>

NoWork == [op |-> "none", plan |-> NoPlan, owner |-> NoJob]
Work == [op : {"apply", "rollback", "verify", "refresh"}, plan : Plan,
         owner : Job \cup {NoJob}]
Worked(g) == \E c \in Caller : work[c] # NoWork /\ GpoOf[work[c].plan] = g
WorksFor(j) == \E c \in Caller : work[c] # NoWork /\ work[c].owner = j
Free(g) == ~quiet /\ holder[g] = NoJob /\ ~Worked(g)
AtRest == /\ \A c \in Caller : work[c] = NoWork
          /\ \A g \in Gpo : holder[g] = NoJob

CustodyInit ==
    /\ standing = [j \in Job |-> "none"] /\ told = {} /\ ~quiet /\ ~up
    /\ holder = [g \in Gpo |-> NoJob] /\ work = [c \in Caller |-> NoWork]

\* A workflow is accepted with the custody of all it will write.
Accept(j, wanted) ==
    /\ up /\ standing[j] = "none"
    /\ \A g \in wanted : Free(g)
    /\ standing' = [standing EXCEPT ![j] = "open"]
    /\ holder' = [g \in Gpo |-> IF g \in wanted THEN j ELSE holder[g]]
    /\ UNCHANGED <<work, told, quiet, up>>

Permitted(w) ==
    /\ up /\ ~quiet /\ ~Worked(GpoOf[w.plan])
    /\ holder[GpoOf[w.plan]] \in {NoJob, w.owner}
    /\ w.owner # NoJob => /\ standing[w.owner] = "open"
                          /\ w.op # "verify" => holder[GpoOf[w.plan]] = w.owner
    /\ w.op = "apply" => w.plan \notin told
Begin(c, w) ==
    /\ work[c] = NoWork /\ Permitted(w)
    /\ work' = [work EXCEPT ![c] = w]
    /\ told' = IF w.op = "apply" THEN told \cup {w.plan} ELSE told
    /\ UNCHANGED <<standing, holder, quiet, up>>
End(c) ==
    /\ work[c] # NoWork /\ work' = [work EXCEPT ![c] = NoWork]
    /\ UNCHANGED <<standing, holder, told, quiet, up>>

Close(j) ==
    /\ up /\ standing[j] = "open" /\ ~WorksFor(j)
    /\ \E outcome \in Outcome : standing' = [standing EXCEPT ![j] = outcome]
    /\ UNCHANGED <<holder, work, told, quiet, up>>
Release(j) ==
    /\ ~WorksFor(j)
    /\ holder' = [g \in Gpo |-> IF holder[g] = j THEN NoJob ELSE holder[g]]
    /\ UNCHANGED <<standing, work, told, quiet, up>>

Quieten == /\ AtRest /\ quiet' = TRUE
           /\ UNCHANGED <<standing, holder, work, told, up>>
Resume == quiet' = FALSE /\ UNCHANGED <<standing, holder, work, told, up>>

\* The process ends, and the next one closes what the last one left open.
Lose ==
    /\ holder' = [g \in Gpo |-> NoJob] /\ work' = [c \in Caller |-> NoWork]
    /\ quiet' = FALSE /\ up' = FALSE
    /\ UNCHANGED <<standing, told>>
CloseLost ==
    /\ ~up /\ AtRest
    /\ up' = TRUE
    /\ \E outcome \in [Job -> Outcome] :
         standing' = [j \in Job |-> IF standing[j] = "open" THEN outcome[j]
                                   ELSE standing[j]]
    /\ UNCHANGED <<holder, work, told, quiet>>

CustodyNext ==
    \/ \E j \in Job : \/ \E wanted \in SUBSET Gpo : Accept(j, wanted)
                      \/ Close(j) \/ Release(j)
    \/ \E c \in Caller : End(c) \/ \E w \in Work : Begin(c, w)
    \/ Quieten \/ Resume \/ Lose \/ CloseLost
CustodySpec == CustodyInit /\ [][CustodyNext]_custodyVars
=============================================================================
