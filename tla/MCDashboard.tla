----------------------------- MODULE MCDashboard ------------------------------
(***************************************************************************)
(* Instances of Dashboard for TLC.                                         *)
(***************************************************************************)
EXTENDS Dashboard

(* A pose that carries a velocity.                                         *)
Fields == <<"velocity">>
===============================================================================
