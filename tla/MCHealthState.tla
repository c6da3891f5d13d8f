---------------------------- MODULE MCHealthState ----------------------------
(* Small instances of HealthState for TLC. *)
EXTENDS HealthState

CONSTANT p1
==============================================================================
