------------------------- MODULE GoalPublisherProofs --------------------------
(***************************************************************************)
(* Theorems about GoalPublisher, for any number of positions, any speed    *)
(* and any drop, and whatever goals are set, cleared and issued again.     *)
(*                                                                         *)
(* The invariant they rest on says what the fields of the thread are worth *)
(* after a setpoint of either kind (FieldsMatchSource), and how they agree *)
(* with what the thread has published (FieldsMatchPast): the ramp is where *)
(* the goal flown last was left, and after a goal there is a hold point    *)
(* exactly when that goal was issued again, namely the one of the hover    *)
(* before.                                                                 *)
(***************************************************************************)
EXTENDS GoalPublisher, TLAPS

USE MaxPosAssumption, TargetsAssumption, StepAssumption, DropAssumption

FieldsMatchSource ==
    /\ source = "none" => holdPoint = NoPos /\ rampKey = NoGoal
    /\ source = "goal" => rampKey # NoGoal /\ setpoint = rampPos
    /\ source = "hover" => holdPoint # NoPos /\ setpoint = holdPoint

FieldsMatchPast ==
    /\ flown = [goal |-> rampKey, to |-> rampPos]
    /\ source = "goal" => (holdPoint # NoPos <=> again)
    /\ holdPoint # NoPos => held = holdPoint

-------------------------------------------------------------------------------
(* A goal is never the absence of one.                                     *)
LEMMA NoGoalNotGoal == NoGoal \notin Goal /\ NoPos \notin Pos
<1>1. NoGoal \in Goal => NoGoal.target \in Targets
  BY DEF Goal
<1>2. NoGoal.target = -1
  BY DEF NoGoal
<1>3. -1 \notin Targets /\ -1 \notin Pos
  BY DEF Pos
<1> QED
  BY <1>1, <1>2, <1>3 DEF NoPos

(* The target of a goal is a position.                                     *)
LEMMA GoalTarget == \A g \in Goal : g.target \in Pos
  BY DEF Goal, Pos

(* A step of the ramp stays among the positions, and is no longer than     *)
(* Step.                                                                   *)
LEMMA TowardsBounds ==
    ASSUME NEW a \in Pos, NEW b \in Pos
    PROVE  /\ Towards(a, b) \in Pos
           /\ Dist(Towards(a, b), a) <= Step
  BY DEF Towards, Dist, Pos

-------------------------------------------------------------------------------
(* The initial state has its types.                                        *)
LEMMA InitTypes == Init => TypeOK
<1>1. [goal |-> NoGoal, to |-> NoPos] \in [goal : Goal \cup {NoGoal}, to : Pos \cup {NoPos}]
  OBVIOUS
<1> QED
  BY <1>1 DEF Init, TypeOK

(* Every step keeps the types.                                             *)
LEMMA NextTypes == TypeOK /\ [Next]_vars => TypeOK'
<1> SUFFICES ASSUME TypeOK, [Next]_vars PROVE TypeOK'
  OBVIOUS
<1> USE DEF TypeOK
<1>1. ASSUME NEW g \in Goal, SetGoal(g) PROVE TypeOK'
  BY <1>1 DEF SetGoal, pubVars, history
<1>2. CASE ClearGoal \/ DroneMoves \/ ReadGoal
  BY <1>2 DEF ClearGoal, DroneMoves, ReadGoal, pubVars, history
<1>3. CASE PublishGoal
  <2>1. local \in Goal /\ local.target \in Pos
    BY <1>3, GoalTarget DEF PublishGoal
  <2>2. rampKey = local => rampPos \in Pos
    BY <2>1, NoGoalNotGoal
  <2>3. rampPos' \in Pos
    BY <1>3, <2>1, <2>2, TowardsBounds DEF PublishGoal, Ramp
  <2>4. holdPoint' \in Pos \cup {NoPos} /\ rampKey' = local
    BY <1>3 DEF PublishGoal, Ramp
  <2>5. rampPos' # NoPos /\ rampKey' # NoGoal
    BY <2>1, <2>3, <2>4, NoGoalNotGoal
  <2> QED
    BY <1>3, <2>1, <2>3, <2>4, <2>5 DEF PublishGoal
<1>4. CASE PublishHover
  BY <1>4 DEF PublishHover, Hold
<1>5. CASE UNCHANGED vars
  BY <1>5 DEF vars, pubVars, history
<1> QED
  BY <1>1, <1>2, <1>3, <1>4, <1>5 DEF Next, Tick

-------------------------------------------------------------------------------
(* What a setpoint was published for fixes the fields it left behind.      *)
LEMMA FieldsInvariant ==
    TypeOK /\ FieldsMatchSource /\ [Next]_vars => FieldsMatchSource'
<1> SUFFICES ASSUME TypeOK, FieldsMatchSource, [Next]_vars PROVE FieldsMatchSource'
  OBVIOUS
<1> USE DEF FieldsMatchSource
<1>1. CASE UNCHANGED <<source, holdPoint, rampKey, setpoint, rampPos>>
  BY <1>1
<1>2. CASE PublishGoal
  BY <1>2 DEF PublishGoal, Ramp
<1>3. CASE PublishHover
  BY <1>3, NoGoalNotGoal DEF PublishHover, Hold, TypeOK
<1> QED
  BY <1>1, <1>2, <1>3 DEF Next, SetGoal, ClearGoal, DroneMoves, Tick, ReadGoal, pubVars, vars

(* And how they agree with what was published.                             *)
LEMMA PastInvariant ==
    TypeOK /\ FieldsMatchSource /\ FieldsMatchPast /\ [Next]_vars => FieldsMatchPast'
<1> SUFFICES ASSUME TypeOK, FieldsMatchSource, FieldsMatchPast, [Next]_vars
             PROVE  FieldsMatchPast'
  OBVIOUS
<1> USE DEF FieldsMatchPast
<1>1. CASE UNCHANGED <<source, holdPoint, rampKey, rampPos, history>>
  BY <1>1 DEF history
<1>2. CASE PublishGoal
  <2>1. flown' = [goal |-> rampKey', to |-> rampPos'] /\ source' = "goal"
    BY <1>2 DEF PublishGoal, Ramp
  <2>2. flown.goal = rampKey
    OBVIOUS
  <2>3. CASE rampKey = local
    <3>1. holdPoint' = holdPoint /\ held' = held /\ again' = (again \/ source = "hover")
      BY <1>2, <2>2, <2>3 DEF PublishGoal, Ramp
    <3>2. source = "hover" \/ source = "goal"
      BY <1>2, <2>3 DEF PublishGoal, TypeOK, FieldsMatchSource
    <3> QED
      BY <2>1, <3>1, <3>2 DEF FieldsMatchSource
  <2>4. CASE rampKey # local
    <3>1. holdPoint' = NoPos /\ again' = FALSE
      BY <1>2, <2>2, <2>4 DEF PublishGoal, Ramp
    <3> QED
      BY <2>1, <3>1
  <2> QED
    BY <2>3, <2>4
<1>3. CASE PublishHover
  BY <1>3 DEF PublishHover
<1> QED
  BY <1>1, <1>2, <1>3
     DEF Next, SetGoal, ClearGoal, DroneMoves, Tick, ReadGoal, pubVars, vars

(* The invariants hold.                                                    *)
LEMMA FieldsHold == Spec => [](TypeOK /\ FieldsMatchSource /\ FieldsMatchPast)
<1>1. Init => TypeOK /\ FieldsMatchSource /\ FieldsMatchPast
  BY InitTypes DEF Init, FieldsMatchSource, FieldsMatchPast
<1>2. TypeOK /\ FieldsMatchSource /\ FieldsMatchPast /\ [Next]_vars
      => (TypeOK /\ FieldsMatchSource /\ FieldsMatchPast)'
  BY NextTypes, FieldsInvariant, PastInvariant
<1> QED
  BY <1>1, <1>2, PTL DEF Spec

-------------------------------------------------------------------------------
(* The state of the publisher keeps its type.                              *)
THEOREM TypeCorrect == Spec => []TypeOK
  BY FieldsHold, PTL

(* Hovering, the setpoint does not follow the drone.                       *)
THEOREM HoldsStillHolds == Spec => HoldsStill
<1>1. ASSUME TypeOK, FieldsMatchSource, [Next]_vars,
             Published, source = "hover", source' = "hover"
      PROVE  setpoint' = setpoint \/ (setpoint' = pose /\ pose < setpoint - Drop)
  <2>1. PublishHover
    BY <1>1 DEF Next, SetGoal, ClearGoal, DroneMoves, Tick, ReadGoal, PublishGoal,
       Published, pubVars, vars
  <2> QED
    BY <1>1, <2>1 DEF PublishHover, Hold, FieldsMatchSource
<1>2. TypeOK /\ FieldsMatchSource /\ [Next]_vars =>
        [(Published /\ source = "hover" /\ source' = "hover") =>
            setpoint' = setpoint \/ (setpoint' = pose /\ pose < setpoint - Drop)]_vars
  BY <1>1
<1> QED
  BY <1>2, FieldsHold, PTL DEF Spec, HoldsStill

(* A setpoint jumps at the two ends of a goal that is issued again after a *)
(* hover, to where that goal or that hover was left, and nowhere else.     *)
THEOREM NoJumpHolds == Spec => NoJump
<1> DEFINE Near == Dist(setpoint', setpoint) <= Step \/ Dist(setpoint', pose) <= Step
<1>1. ASSUME TypeOK, FieldsMatchSource, FieldsMatchPast, [Next]_vars, Published
      PROVE  Near \/ RampResumed \/ HoverResumed
  <2>1. PublishGoal \/ PublishHover
    BY <1>1 DEF Next, SetGoal, ClearGoal, DroneMoves, Tick, ReadGoal, Published, pubVars, vars
  <2>2. CASE PublishGoal
    <3>1. local \in Goal /\ local.target \in Pos /\ pose \in Pos
      BY <1>1, <2>2, GoalTarget DEF PublishGoal, TypeOK
    <3>2. CASE rampKey = local
      <4>1. rampPos \in Pos
        BY <1>1, <3>1, <3>2, NoGoalNotGoal DEF TypeOK
      <4>2. flown.goal = local /\ flown.to = rampPos
        BY <1>1, <3>2 DEF FieldsMatchPast
      <4>3. Dist(setpoint', rampPos) <= Step /\ source' = "goal"
        BY <2>2, <3>1, <3>2, <4>1, TowardsBounds DEF PublishGoal, Ramp
      <4>4. source = "hover" \/ (source = "goal" /\ setpoint = rampPos)
        BY <1>1, <2>2, <3>2 DEF PublishGoal, TypeOK, FieldsMatchSource
      <4> QED
        BY <1>1, <4>2, <4>3, <4>4 DEF RampResumed, FromHoverToGoal
    <3>3. CASE rampKey # local
      BY <2>2, <3>1, <3>3, TowardsBounds DEF PublishGoal, Ramp
    <3> QED
      BY <3>2, <3>3
  <2>3. CASE PublishHover
    <3>1. setpoint' \in {pose, holdPoint} /\ source' = "hover"
      BY <2>3 DEF PublishHover, Hold
    <3>2. setpoint \in Int /\ pose \in Int
      BY <1>1 DEF TypeOK, Pos, NoPos
    <3>3. CASE setpoint' \in {pose, setpoint}
      <4>1. Dist(setpoint, setpoint) = 0 /\ Dist(pose, pose) = 0
        BY <3>2 DEF Dist
      <4> QED
        BY <3>3, <4>1
    <3>4. CASE setpoint' = holdPoint /\ setpoint' # pose /\ setpoint' # setpoint
      <4>1. source = "goal" /\ holdPoint # NoPos
        BY <1>1, <2>3, <3>4 DEF PublishHover, Hold, TypeOK, FieldsMatchSource
      <4> QED
        BY <1>1, <3>1, <3>4, <4>1 DEF FieldsMatchPast, HoverResumed, FromGoalToHover
    <3> QED
      BY <3>1, <3>3, <3>4
  <2> QED
    BY <2>1, <2>2, <2>3
<1>2. TypeOK /\ FieldsMatchSource /\ FieldsMatchPast /\ [Next]_vars
      => [Published => \/ Dist(setpoint', setpoint) <= Step
                       \/ Dist(setpoint', pose) <= Step
                       \/ RampResumed
                       \/ HoverResumed]_vars
  BY <1>1
<1> QED
  BY <1>2, FieldsHold, PTL DEF Spec, NoJump

(* The hover that follows a goal holds the drone where it is, or, after a  *)
(* goal issued again, where it was held before.                            *)
THEOREM HoldAfterGoalHolds == Spec => HoldAfterGoal
<1>1. ASSUME FieldsMatchPast, [Next]_vars, FromGoalToHover
      PROVE  setpoint' = IF again /\ ~(pose < held - Drop) THEN held ELSE pose
  <2>1. PublishHover
    BY <1>1 DEF Next, SetGoal, ClearGoal, DroneMoves, Tick, ReadGoal, PublishGoal,
       FromGoalToHover, Published, pubVars, vars
  <2>2. CASE again
    <3>1. holdPoint # NoPos /\ held = holdPoint
      BY <1>1, <2>2 DEF FieldsMatchPast, FromGoalToHover
    <3> QED
      BY <2>1, <2>2, <3>1 DEF PublishHover, Hold
  <2>3. CASE ~again
    BY <1>1, <2>1, <2>3 DEF FieldsMatchPast, FromGoalToHover, PublishHover, Hold
  <2> QED
    BY <2>2, <2>3
<1>2. FieldsMatchPast /\ [Next]_vars =>
        [FromGoalToHover =>
           setpoint' = IF again /\ ~(pose < held - Drop) THEN held ELSE pose]_vars
  BY <1>1
<1> QED
  BY <1>2, FieldsHold, PTL DEF Spec, HoldAfterGoal
===============================================================================
