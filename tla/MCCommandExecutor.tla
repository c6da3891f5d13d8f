--------------------------- MODULE MCCommandExecutor ---------------------------
(***************************************************************************)
(* Instances of CommandExecutor for TLC.                                   *)
(***************************************************************************)
EXTENDS CommandExecutor
================================================================================
