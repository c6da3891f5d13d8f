---------------------------- MODULE MCPublication ----------------------------
(***************************************************************************)
(* Instances of Publication for TLC.  Contents are only compared, never    *)
(* computed with, so they are symmetric.                                   *)
(***************************************************************************)
EXTENDS PublicationInvariant, TLC

CONSTANTS a, b

MCContent == {a, b}
ContentSymmetry == Permutations(MCContent)
==============================================================================
