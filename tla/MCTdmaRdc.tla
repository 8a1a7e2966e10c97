----------------------------- MODULE MCTdmaRdc ------------------------------
(***************************************************************************)
(* TdmaRdc with constants that satisfy the assumptions of the proofs: a    *)
(* segment of nine ticks with a beacon slot and two slots of three ticks.  *)
(***************************************************************************)
EXTENDS TdmaRdc_proofs
=============================================================================
