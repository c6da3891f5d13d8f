-------------------------- MODULE MCPublicationOpen --------------------------
(***************************************************************************)
(* An instance of PublicationOpen for TLC.                                 *)
(***************************************************************************)
EXTENDS PublicationOpenInvariant

CONSTANTS a, b
==============================================================================
