--------------------------- MODULE CodingWorkerMC ---------------------------
(* Instances of CodingWorker: two harness processes, one with two calls.   *)
EXTENDS CodingWorker

CONSTANTS h1, h2, c1, c2, c3

TwoAndOne == [c \in Calls |-> IF c = c3 THEN h2 ELSE h1]
=============================================================================
