------------------------------ MODULE MCCancel ------------------------------
(***************************************************************************)
(* MCMachine's chart, its calls abandoned at any action.                   *)
(***************************************************************************)
EXTENDS Cancel, MCMachine
=============================================================================
