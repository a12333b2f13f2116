-------------------------------- MODULE MCLive -------------------------------
(* Progress under fairness: an apply with two scheduled checks, a          *)
(* verification that competes for the GPO, a stop or a crash.              *)
EXTENDS WorkspaceWorkflows

CONSTANTS g1, change, check, p1

MCGpoOf == [p \in Plan |-> g1]
MCFresh == [p \in Plan |-> p]
MCRequest ==
    [j \in Job |->
       [action |-> IF j = change THEN "apply" ELSE "verify",
        plans |-> <<p1>>, source |-> NoJob, refresh |-> FALSE,
        rounds |-> IF j = change THEN 2 ELSE 0]]
MCDirectCalls == {}
=============================================================================
