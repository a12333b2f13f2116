------------------------------- MODULE MCSubmit ------------------------------
(* Racing submissions on one GPO: two workflows that apply the same plan   *)
(* and a read-only scan, with room for two unfinished workflows only, so   *)
(* that the third of them meets the limit. The durable write of an         *)
(* accepted submission may throw, and requests may be served before the    *)
(* recovery loop of a restart.                                             *)
EXTENDS WorkspaceWorkflows, TLC

CONSTANTS g1, a1, a2, scan1, p1

MCGpoOf == [p \in Plan |-> g1]
MCFresh == [p \in Plan |-> p]
MCRequest ==
    [j \in Job |->
       [action |-> IF j = scan1 THEN "scan" ELSE "apply",
        plans |-> IF j = scan1 THEN <<>> ELSE <<p1>>,
        source |-> NoJob, refresh |-> FALSE, rounds |-> 0]]
\* The applies are interchangeable.
MCSymmetry == Permutations({a1, a2})
MCDirectCalls == {}
=============================================================================
