--------------------------- MODULE MCWorkerPreview ---------------------------
(* Two operations on one GPO, each with one value, and two worker processes *)
(* on the DC.                                                              *)
EXTENDS GpoWorker

CONSTANTS o1, o2, value1, value2, w1, w2

MCItem == [o \in Op |-> IF o = o1 THEN {value1} ELSE {value2}]
=============================================================================
