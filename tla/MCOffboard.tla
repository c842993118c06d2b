------------------------------ MODULE MCOffboard ------------------------------
(***************************************************************************)
(* Instances of Offboard for TLC.                                          *)
(***************************************************************************)
EXTENDS Offboard
===============================================================================
