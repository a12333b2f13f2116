------------------------------- MODULE MCWorker ------------------------------
(* Two operations on one GPO, each with one value, and two worker processes *)
(* on the DC, in two shapes that are explored side by side: one operation   *)
(* whose processes may overlap (one was given up on and runs on, or a       *)
(* preview looks in between), and a batch, two operations that are written  *)
(* and restored one process at a time.                                      *)
EXTENDS MCWorkerPreview, TLC

VARIABLE shape

Alone(o) == plan[o] = NoPlan /\ \A w \in Proc : proc[w].op # o /\ proc[w].anchor # o
Bounded ==
    \/ shape = "overlap" /\ Alone(o2)
    \/ /\ shape = "batch" /\ gpo.rev <= MaxRev /\ stops < MaxStops
       /\ \A w \in Proc : proc[w] # Off => w = awaited
WorkerInit == Init /\ shape \in {"overlap", "batch"} /\ gpo.linked = (shape = "batch")
WorkerNext == Next /\ UNCHANGED shape /\ Bounded'
WorkerSpec == WorkerInit /\ [][WorkerNext]_<<vars, shape>>

Processes == Permutations(Proc)
=============================================================================
