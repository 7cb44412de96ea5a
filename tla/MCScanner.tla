----------------------------- MODULE MCScanner -----------------------------
(* Small instances of Scanner for TLC. *)
EXTENDS Scanner, TLC

CONSTANTS t1, t2, p1, w1, w2, r1, r2, none

TwoThreads == w1 :> p1 @@ w2 :> p1
OneThread == w1 :> p1

(* r1 and r2 are found on the tracks A and H of the device of t1. *)
OneDevice == r1 :> t1 @@ r2 :> t1
OldAndNew == r1 :> 0 @@ r2 :> 3
Symmetry == Permutations(Thread)

(* Devices that failed once before, active on track C. *)
MCInit ==
  /\ ScannerInit
  /\ \A t \in Task : device[t].failures = 1 /\ device[t].track = 1

MCSpec == MCInit /\ [][ScannerNext]_scannerVars
=============================================================================
