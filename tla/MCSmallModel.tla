----------------------------- MODULE MCSmallModel -----------------------------
(***************************************************************************)
(* Instances of SmallModel for TLC.                                        *)
(***************************************************************************)
EXTENDS SmallModel, SequencesExt

(* Every list of at most two actions, the empty one included, and longer   *)
(* ones in which an action stops the plan in the middle.                   *)
MCPlans ==
    BoundedSeq(Kinds, 2) \cup
    { <<"fly", "fly", "fly">>, <<"fly", "land", "fly">>,
      <<"unknown", "fly", "fly">>, <<"malformed", "malformed", "fly">> }

(* Plans with no malformed action.                                         *)
SoundPlans == { <<"fly">>, <<"fly", "fly">>, <<"fly", "land">> }

-------------------------------------------------------------------------------
(* The translation of actions at the corners: config/field.yaml and        *)
(* default_constraints.yaml in millimetres, with overrides that fit them.  *)
G == INSTANCE GoalGen

MCPoint(x, y, z) == [i \in G!Axes |-> CASE i = "x" -> x [] i = "y" -> y [] i = "z" -> z]

FieldConstraints ==
    [ boundary |-> [lo |-> MCPoint(0, 0, 0), hi |-> MCPoint(5000, 4000, 3000)],
      floor |-> 300, ceiling |-> 2500 ]

MCOverrides == { << >>, [ceiling |-> 1000], [floor |-> 2500], [ceiling |-> 3000] }

MCPositions == { MCPoint(x, y, z) : x \in {-2, 0, 5001}, y \in {-1, 3999, 4002},
                                    z \in {-30, 299, 2501, 3002} }

MCActions == [code : G!Codes, point : {MCPoint(-2, 4001, 0), MCPoint(1, -1, 2600)},
              value : {-400, 0, 2700}]

(* GoalsAreSafe and TurnRefusedOutside on these values.                    *)
ASSUME TranslationAtTheCorners ==
    \A o \in MCOverrides, cur \in MCPositions, a \in MCActions :
      LET s == G!MergeSafety(o, FieldConstraints)
          goals == G!Generate(a, cur, MCPoint(0, 0, 500), s)
      IN  IF a.code = "yaw"
            THEN goals = {} <=> \E i \in G!Axes :
                   cur[i] \notin (s.boundary.lo[i] - 1)..(s.boundary.hi[i] + 1)
            ELSE \E p \in goals :
                   /\ \A i \in G!Axes : p[i] \in s.boundary.lo[i]..s.boundary.hi[i]
                   /\ p["z"] \in s.floor..s.ceiling

(* An override replaces the default: a ceiling above the field is refused  *)
(* by the final check once a drone climbs past the field.                  *)
ASSUME OverridesReplace ==
    LET s == G!MergeSafety([ceiling |-> 9000], FieldConstraints)
        climb == [code |-> "climb", point |-> MCPoint(0, 0, 0), value |-> 2000]
    IN  /\ s.ceiling = 9000
        /\ G!Generate(climb, MCPoint(0, 0, 2000), MCPoint(0, 0, 500), s) = {}
===============================================================================
