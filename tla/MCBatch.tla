------------------------------- MODULE MCBatch -------------------------------
(* A reviewed batch of two controls on one GPO, its recovery from the      *)
(* first snapshot, and one direct request at a time on the same GPO.       *)
EXTENDS WorkspaceWorkflows

CONSTANTS g1, batch, recovery, p1, p2, f2

MCGpoOf == [p \in Plan |-> g1]
MCFresh == [p \in Plan |-> IF p = p2 THEN f2 ELSE p]
MCRequest ==
    [j \in Job |->
       IF j = batch
       THEN [action |-> "apply", plans |-> <<p1, p2>>, source |-> NoJob,
             refresh |-> TRUE, rounds |-> 0]
       ELSE [action |-> "rollback", plans |-> <<>>, source |-> batch,
             refresh |-> FALSE, rounds |-> 0]]
MCDirectCalls == {<<"apply", p1>>, <<"verify", f2>>, <<"rollback", p1>>}
=============================================================================
