------------------------------- MODULE MCFlight -------------------------------
(***************************************************************************)
(* Instances of Flight for TLC.  Altitudes are quarter metres: home is at  *)
(* 0.5 m, on the ground is below 0.25 m, the hold point is reset when the  *)
(* drone is 0.75 m below it.                                               *)
(***************************************************************************)
EXTENDS Flight

MCAlts == 0 .. MaxPos
===============================================================================
