------------------------------ MODULE MCPlayback ------------------------------
(***************************************************************************)
(* Instances of Playback for TLC.                                          *)
(***************************************************************************)
EXTENDS Playback

CONSTANTS s1, s2, s3

P(t, m) == [t |-> t, moved |-> m]

(* A flight that stands still at first, one that never moves and has a     *)
(* single point, and one with neighbouring points.                         *)
MCRaw ==
    [s \in Sessions |->
        CASE s = s1 -> <<P(3, FALSE), P(5, FALSE), P(6, TRUE), P(7, FALSE), P(9, TRUE)>>
          [] s = s2 -> <<P(4, FALSE)>>
          [] OTHER  -> <<P(0, FALSE), P(1, TRUE), P(2, TRUE), P(5, TRUE)>>]
===============================================================================
