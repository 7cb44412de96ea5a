---------------------------- MODULE MCScanQueue ----------------------------
(* Small instances of ScanQueue for TLC. *)
EXTENDS ScanQueue, TLC

CONSTANTS t1, t2, p1, p2, w1, w2, none

TwoProcesses == w1 :> p1 @@ w2 :> p2
OneProcess == w1 :> p1 @@ w2 :> p1

Symmetry == Permutations(Task)
=============================================================================
