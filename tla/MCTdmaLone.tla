----------------------------- MODULE MCTdmaLone -----------------------------
(***************************************************************************)
(* TdmaRdc with slot numbers and shell commands the schedule was not       *)
(* designed for.                                                           *)
(***************************************************************************)
EXTENDS TdmaSchedule
=============================================================================
