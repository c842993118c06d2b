-------------------------------- MODULE GoalGen --------------------------------
(***************************************************************************)
(* The translation of one action into a goal: StubGoalGenerator.generate   *)
(* and the constraints SmallModelComponent merges for it.  No state: the   *)
(* operators say where each action code aims, how the constraints bend the *)
(* aim, and when the final check refuses it.                               *)
(*                                                                         *)
(* A coordinate is an integer, a millimetre.  Abstracted: the heading, the *)
(* speed, which is handed on untouched, and the default arguments of an    *)
(* action.  For a move, "point" is the displacement its direction and      *)
(* value come to; for a goto it is the target.                             *)
(***************************************************************************)
EXTENDS Integers

Axes   == {"x", "y", "z"}
Points == [Axes -> Int]

Codes == {"takeoff", "land", "goto", "move", "climb", "descend", "yaw",
          "hover", "return_home"}

Actions  == [code : Codes, point : Points, value : Int]
Safeties == [boundary : [lo : Points, hi : Points], floor : Int, ceiling : Int]

(* What a call's overrides leave of the default constraints: a field that  *)
(* is given replaces the default, it does not tighten it.                  *)
MergeSafety(overrides, defaults) ==
    [f \in DOMAIN defaults |->
        IF f \in DOMAIN overrides THEN overrides[f] ELSE defaults[f]]

(* max(lo, min(hi, v)): the lower bound wins when the bounds cross.        *)
Clamp(v, lo, hi) ==
    LET below == IF v < hi THEN v ELSE hi
    IN  IF below > lo THEN below ELSE lo

ClampPoint(p, s) ==
    [i \in Axes |-> Clamp(p[i], s.boundary.lo[i], s.boundary.hi[i])]

AtHeight(p, h) == [i \in Axes |-> IF i = "z" THEN h ELSE p[i]]
Height(h, s)   == Clamp(h, s.floor, s.ceiling)

(* Into the boundary first, then between floor and ceiling.                *)
Into(p, s) ==
    LET q == ClampPoint(p, s) IN AtHeight(q, Height(q["z"], s))

(* A climb of d: the height obeys floor and ceiling only.                  *)
Rise(cur, d, s) ==
    AtHeight(ClampPoint(cur, s), Height(cur["z"] + d, s))

(* Takeoff is above the home; its height, too, obeys floor and ceiling     *)
(* only.                                                                   *)
Above(home, h, s) == AtHeight(ClampPoint(home, s), Height(h, s))

Shifted(p, d) == [i \in Axes |-> p[i] + d[i]]

(* Where an action aims from the position cur.  A turn stays where it is,  *)
(* even outside the boundary.                                              *)
Aim(a, cur, home, s) ==
    CASE a.code = "goto"        -> Into(a.point, s)
      [] a.code = "takeoff"     -> Above(home, a.value, s)
      [] a.code = "land"        -> ClampPoint(AtHeight(home, s.floor), s)
      [] a.code = "move"        -> Into(Shifted(cur, a.point), s)
      [] a.code = "climb"       -> Rise(cur, a.value, s)
      [] a.code = "descend"     -> Rise(cur, -a.value, s)
      [] a.code = "yaw"         -> cur
      [] a.code = "hover"       -> Into(cur, s)
      [] a.code = "return_home" -> Into(home, s)

(* abs(clamped - goal) > 0.001 refuses the goal.                           *)
Tol == 1
Near(m, n) == m - n \in -Tol..Tol

Admitted(p, s) == \A i \in Axes : Near(ClampPoint(p, s)[i], p[i])

(* The goal of an action, or none when GoalGenError is raised.             *)
Generate(a, cur, home, s) ==
    { p \in {Aim(a, cur, home, s)} : Admitted(p, s) }

-------------------------------------------------------------------------------
(* The reference: a box, and constraints that fit together.                *)
Box(s) == { p \in Points : \A i \in Axes :
              p[i] \in s.boundary.lo[i]..s.boundary.hi[i] }

Ordered(s) == \A i \in Axes : s.boundary.lo[i] <= s.boundary.hi[i]

Sane(s) == /\ Ordered(s)
           /\ s.floor <= s.ceiling
           /\ s.boundary.lo["z"] <= s.floor
           /\ s.ceiling <= s.boundary.hi["z"]

Safe(p, s) == p \in Box(s) /\ p["z"] \in s.floor..s.ceiling
===============================================================================
