---------------------------- MODULE MCZoneTracking ----------------------------
(***************************************************************************)
(* Instances of ZoneTracking for TLC.                                      *)
(***************************************************************************)
EXTENDS ZoneTracking, TLC

CONSTANTS o1, o2, a, b

ObjectSymmetry == Permutations({o1, o2}) \cup Permutations({a, b})
===============================================================================
