---------------------------- MODULE MCBoundedQueue ----------------------------
(***************************************************************************)
(* Instances of BoundedQueue for TLC.                                      *)
(***************************************************************************)
EXTENDS BoundedQueue, TLC

CONSTANTS p1, p2, g1, i1, m1

================================================================================
