------------------------------- MODULE MCCommand ------------------------------
(***************************************************************************)
(* The instances of Command that TLC checks.                               *)
(***************************************************************************)
EXTENDS Command
===============================================================================
