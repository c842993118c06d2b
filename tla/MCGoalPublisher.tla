--------------------------- MODULE MCGoalPublisher ----------------------------
(***************************************************************************)
(* Instances of GoalPublisher for TLC.                                     *)
(***************************************************************************)
EXTENDS GoalPublisher
===============================================================================
