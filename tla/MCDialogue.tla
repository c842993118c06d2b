------------------------------ MODULE MCDialogue ------------------------------
(***************************************************************************)
(* Instances of Dialogue for TLC.                                          *)
(***************************************************************************)
EXTENDS Dialogue

CONSTANTS battery
===============================================================================
