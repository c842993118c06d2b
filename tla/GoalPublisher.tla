---------------------------- MODULE GoalPublisher -----------------------------
(***************************************************************************)
(* backend-B's GoalPublisher: the 20 Hz thread that turns the current goal *)
(* of the small_model component into setpoints.  A goal is approached on a *)
(* ramp that starts where the drone is and advances by at most             *)
(* speed_max * period from the setpoint before; without a goal the thread  *)
(* publishes a hold point it captures once.                                *)
(*                                                                         *)
(* A tick is two steps: the goal is read under the lock of the component,  *)
(* and used after the lock is released; in between the goal may be         *)
(* replaced and the drone may move.                                        *)
(*                                                                         *)
(* Abstracted: a position is one integer, the altitude, which is the       *)
(* coordinate the hold point is tested on; the speed limit is a constant;  *)
(* the component is any thread that sets and clears goals, and the drone   *)
(* goes where it likes (it need not follow its setpoint).                  *)
(***************************************************************************)
EXTENDS Integers

CONSTANTS
    MaxPos,   \* positions are 0 .. MaxPos
    Targets,  \* the targets of goals
    Yaws,     \* the yaws a goal may ask for
    Step,     \* speed_max * period
    Drop      \* the 0.7 m below the hold point that reset it

ASSUME MaxPosAssumption == MaxPos \in Nat
ASSUME TargetsAssumption == Targets \subseteq 0 .. MaxPos
ASSUME StepAssumption == Step \in Nat \ {0}
ASSUME DropAssumption == Drop \in Nat

Pos == 0 .. MaxPos
Goal == [target : Targets, yaw : Yaws]
NoGoal == [target |-> -1, yaw |-> "none"]
NoPos == -1

VARIABLES
    goal,       \* the component's current goal
    pose,       \* the drone's position, as the pose callback stores it
    local,      \* the goal this tick has read
    pc,         \* "read" or "use"
    rampPos,    \* _ramp_pos
    rampKey,    \* _ramp_key
    holdPoint,  \* _hold_point
    setpoint,   \* the last setpoint published
    source,     \* history: what it was published for
    flown,      \* history: the goal flown last, and its last setpoint
    held,       \* history: the last setpoint of the last hover
    again       \* history: the goal flown last is the one before that hover

history == <<flown, held, again>>
pubVars == <<local, pc, rampPos, rampKey, holdPoint, setpoint, source, history>>
vars == <<goal, pose, pubVars>>

Init ==
    /\ goal = NoGoal
    /\ pose \in Pos
    /\ local = NoGoal
    /\ pc = "read"
    /\ rampPos = NoPos
    /\ rampKey = NoGoal
    /\ holdPoint = NoPos
    /\ setpoint = NoPos
    /\ source = "none"
    /\ flown = [goal |-> NoGoal, to |-> NoPos]
    /\ held = NoPos
    /\ again = FALSE

Dist(a, b) == IF a < b THEN b - a ELSE a - b

(* One step of at most Step from a towards b, and not past it.             *)
Towards(a, b) ==
    IF Dist(a, b) <= Step THEN b
    ELSE IF a < b THEN a + Step ELSE a - Step

-------------------------------------------------------------------------------
(* The component sets a goal (an action translated, a hover), which may    *)
(* well have target and yaw of one flown before, or has none any more (the *)
(* plan is complete, rejected, aborted).                                   *)
SetGoal(g) ==
    /\ g # goal
    /\ goal' = g
    /\ UNCHANGED <<pose, pubVars>>

ClearGoal ==
    /\ goal # NoGoal
    /\ goal' = NoGoal
    /\ UNCHANGED <<pose, pubVars>>

DroneMoves ==
    /\ pose' \in Pos \ {pose}
    /\ UNCHANGED <<goal, pubVars>>

-------------------------------------------------------------------------------
(* get_current_goal.                                                       *)
ReadGoal ==
    /\ pc = "read"
    /\ local' = goal
    /\ pc' = "use"
    /\ UNCHANGED <<goal, pose, rampPos, rampKey, holdPoint, setpoint, source, history>>

(* Mistake: every setpoint is one step ahead of the drone, as before       *)
(* 2026-08-03.                                                             *)
RampFromPose ==
    /\ rampKey' = local
    /\ rampPos' = Towards(pose, local.target)
    /\ holdPoint' = IF rampKey = local THEN holdPoint ELSE NoPos

(* Mistake: a new goal goes on from the setpoint of the goal before.       *)
RampNotRestarted ==
    /\ rampKey' = local
    /\ rampPos' = Towards(IF rampPos = NoPos THEN pose ELSE rampPos, local.target)
    /\ holdPoint' = IF rampKey = local THEN holdPoint ELSE NoPos

(* Mistake: a new goal leaves the hold point alone.                        *)
RampKeepsHold ==
    /\ rampKey' = local
    /\ rampPos' = Towards(IF rampKey = local THEN rampPos ELSE pose, local.target)
    /\ UNCHANGED holdPoint

(* A goal of another key (target and yaw) starts a ramp where the drone is *)
(* and drops the hold point; any goal moves the ramp one step on.          *)
Ramp ==
    /\ rampKey' = local
    /\ rampPos' = Towards(IF rampKey = local THEN rampPos ELSE pose, local.target)
    /\ holdPoint' = IF rampKey = local THEN holdPoint ELSE NoPos

PublishGoal ==
    /\ pc = "use"
    /\ local # NoGoal
    /\ Ramp
    /\ setpoint' = rampPos'
    /\ source' = "goal"
    /\ flown' = [goal |-> local, to |-> rampPos']
    /\ again' = (local = flown.goal /\ (again \/ source = "hover"))
    /\ held' = IF local = flown.goal THEN held ELSE NoPos
    /\ pc' = "read"
    /\ local' = NoGoal
    /\ UNCHANGED <<goal, pose>>

(* Mistake: the hold point is the place where the drone is now.            *)
HoldFollows == holdPoint' = pose

(* Mistake: the hold point is never reset, as before 2026-08-04.           *)
HoldForEver == holdPoint' = IF holdPoint = NoPos THEN pose ELSE holdPoint

(* The hold point is captured once, and again after a descent of more than *)
(* Drop below it.                                                          *)
Hold ==
    holdPoint' = IF holdPoint = NoPos \/ pose < holdPoint - Drop THEN pose ELSE holdPoint

PublishHover ==
    /\ pc = "use"
    /\ local = NoGoal
    /\ Hold
    /\ setpoint' = holdPoint'
    /\ source' = "hover"
    /\ held' = holdPoint'
    /\ pc' = "read"
    /\ UNCHANGED <<goal, pose, local, rampPos, rampKey, flown, again>>

Tick == ReadGoal \/ PublishGoal \/ PublishHover

Next ==
    \/ \E g \in Goal : SetGoal(g)
    \/ ClearGoal
    \/ DroneMoves
    \/ Tick

Spec == Init /\ [][Next]_vars

(* The thread ticks for ever; nothing is assumed of the drone.             *)
FairSpec == Spec /\ WF_vars(Tick)

-------------------------------------------------------------------------------
(* The type of the state; a ramp and its key come together, and the        *)
(* setpoint stays inside the positions there are.                          *)
TypeOK ==
    /\ goal \in Goal \cup {NoGoal}
    /\ pose \in Pos
    /\ local \in Goal \cup {NoGoal}
    /\ pc \in {"read", "use"}
    /\ rampKey \in Goal \cup {NoGoal}
    /\ rampPos \in Pos \cup {NoPos}
    /\ rampPos = NoPos <=> rampKey = NoGoal
    /\ holdPoint \in Pos \cup {NoPos}
    /\ setpoint \in Pos \cup {NoPos}
    /\ source \in {"none", "goal", "hover"}
    /\ flown \in [goal : Goal \cup {NoGoal}, to : Pos \cup {NoPos}]
    /\ held \in Pos \cup {NoPos}
    /\ again \in BOOLEAN

Published == pc = "use" /\ pc' = "read"

FromGoalToHover == Published /\ source = "goal" /\ source' = "hover"
FromHoverToGoal == Published /\ source = "hover" /\ source' = "goal"

(* The goal before a hover is issued again: its ramp goes on where it was  *)
(* left, wherever the drone has been held since.                           *)
RampResumed ==
    FromHoverToGoal /\ local = flown.goal /\ Dist(setpoint', flown.to) <= Step

(* And the hover after such a goal is the one before it.                   *)
HoverResumed == FromGoalToHover /\ again /\ setpoint' = held

(* publisher.py:28-32 and 80 say that a setpoint never jumps.  What is so: *)
(* it is at most one step away from the one before or from the drone,      *)
(* whatever goals are set and cleared between reading and use, except at   *)
(* the two ends of a goal that is issued again after a hover; there it     *)
(* returns to where that goal, or that hover, was left.                    *)
NoJump ==
    [][Published =>
          \/ Dist(setpoint', setpoint) <= Step
          \/ Dist(setpoint', pose) <= Step
          \/ RampResumed
          \/ HoverResumed]_vars

(* publisher.py:80 says that a goal invalidates the hold point that was:   *)
(* the hover that follows a goal holds the place where the goal left the   *)
(* drone.  Of a goal issued again it is not so: the drone goes back to the *)
(* hold point of the hover before, unless it has sunk by more than Drop.   *)
HoldAfterGoal ==
    [][FromGoalToHover =>
          setpoint' = IF again /\ ~(pose < held - Drop) THEN held ELSE pose]_vars

(* While it hovers the setpoint stays, wherever the drone drifts, unless   *)
(* it has sunk by more than Drop: then it is held where it is.             *)
HoldsStill ==
    [][(Published /\ source = "hover" /\ source' = "hover") =>
          setpoint' = setpoint \/ (setpoint' = pose /\ pose < setpoint - Drop)]_vars

(* publisher.py:29-32 says that the setpoint reaches a target that stays,  *)
(* wherever the drone is pushed, which a setpoint tied to the drone did    *)
(* not.                                                                    *)
SetpointReachesTarget ==
    \A g \in Goal : <>[](goal = g) => <>[](setpoint = g.target)

-------------------------------------------------------------------------------
(* publisher.py:80 as it stands: every new goal starts at the drone, and a *)
(* setpoint never jumps.  A goal issued again refutes it.                  *)
NeverJumps ==
    [][Published => Dist(setpoint', setpoint) <= Step \/ Dist(setpoint', pose) <= Step]_vars
===============================================================================
