---------------------------- MODULE OperationGate ----------------------------
(***************************************************************************)
(* The process-local gate of backend/Services/OperationGate.cs.  Every     *)
(* method runs under one C# lock, so each is one operator: its guard is    *)
(* the negation of the exceptions the method throws, its effect what it    *)
(* leaves in the three fields.  The callers compose these operators into   *)
(* their own steps (see WorkspaceWorkflows).                               *)
(***************************************************************************)
CONSTANTS
    Gpo,        \* resource keys: canonical GPO GUIDs
    Job,        \* reservation owners: server workflow ids
    NoJob       \* "no reservation", and the owner of a direct operation

ASSUME NoJobAssumption == NoJob \notin Job

VARIABLES
    maintenance,    \* the service is stopping, restarting or saving configuration
    operations,     \* GPOs with a privileged operation in progress
    reservations    \* GPO -> the workflow that holds it, or NoJob

gateVars == <<maintenance, operations, reservations>>

GateTypeOK ==
    /\ maintenance \in BOOLEAN
    /\ operations \subseteq Gpo
    /\ reservations \in [Gpo -> Job \cup {NoJob}]

\* A new process starts with an empty gate: none of the fields is persisted.
GateInit ==
    /\ maintenance = FALSE
    /\ operations = {}
    /\ reservations = [g \in Gpo |-> NoJob]

GateReset ==
    /\ maintenance' = FALSE
    /\ operations' = {}
    /\ reservations' = [g \in Gpo |-> NoJob]

-----------------------------------------------------------------------------
(* Whole-workflow reservations.                                            *)

\* Variant: the running operations are not looked at.
CanReserveRunning(g) == ~maintenance /\ reservations[g] = NoJob

CanReserve(g) ==
    /\ ~maintenance
    /\ reservations[g] = NoJob
    /\ g \notin operations

Reserve(g, j) ==
    /\ CanReserve(g)
    /\ reservations' = [reservations EXCEPT ![g] = j]

\* Only the owner releases; any other caller changes nothing.
Release(g, j) ==
    reservations' = [reservations EXCEPT ![g] = IF @ = j THEN NoJob ELSE @]

-----------------------------------------------------------------------------
(* One privileged operation.  owner is NoJob for a direct HTTP request and *)
(* for a scheduled follow-up, which pass no workflow id.                   *)

\* Variant: the reservation is not looked at.
CanBeginUnowned(g, owner) == ~maintenance /\ g \notin operations

CanBegin(g, owner) ==
    /\ ~maintenance
    /\ reservations[g] \in {NoJob, owner}
    /\ g \notin operations

BeginOperation(g, owner) ==
    /\ CanBegin(g, owner)
    /\ operations' = operations \cup {g}

EndOperation(g) == operations' = operations \ {g}

-----------------------------------------------------------------------------
(* Maintenance: activeRuns is what Store.CountActiveGpoRuns() finds.       *)

\* Variant: the reservations are not looked at.
CanMaintainReserved(activeRuns) ==
    ~maintenance /\ operations = {} /\ activeRuns = {}

CanMaintain(activeRuns) ==
    /\ ~maintenance
    /\ operations = {}
    /\ \A g \in Gpo : reservations[g] = NoJob
    /\ activeRuns = {}

BeginMaintenance(activeRuns) ==
    /\ CanMaintain(activeRuns)
    /\ maintenance' = TRUE

EndMaintenance == maintenance' = FALSE
=============================================================================
