------------------------- MODULE MCQueueRefinement -------------------------
(* A small instance of QueueRefinement for TLC. *)
EXTENDS QueueRefinement, TLC

CONSTANTS t1, t2, p1, p2, w1, w2, none

TwoProcesses == w1 :> p1 @@ w2 :> p2

Symmetry == Permutations(Task)
=============================================================================
