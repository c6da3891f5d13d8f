------------------------ MODULE MCCandidateFinalization ------------------------
(***************************************************************************)
(* An instance of CandidateFinalization for TLC.  Validators differ in     *)
(* nothing.                                                                *)
(***************************************************************************)
EXTENDS CandidateFinalization, TLC

CONSTANTS v1, v2

MCValidators      == {v1, v2}
ValidatorSymmetry == Permutations(MCValidators)
================================================================================
