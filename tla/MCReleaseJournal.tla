--------------------------- MODULE MCReleaseJournal ---------------------------
(***************************************************************************)
(* An instance of ReleaseJournal for TLC.                                  *)
(***************************************************************************)
EXTENDS ReleaseJournal
================================================================================
