-------------------------------- MODULE Flight --------------------------------
(***************************************************************************)
(* GoalPublisher and Offboard together, as phase 2 runs them: the thread   *)
(* that publishes setpoints is the one that watches OFFBOARD (publishing   *)
(* is one call that ends in the check), the setpoint it publishes decides  *)
(* whether a drone that has landed is armed again, and a landing is        *)
(* commanded when the component has no goal any more.                      *)
(*                                                                         *)
(* The component is reduced to what this needs: it sets and clears goals,  *)
(* and lands after it cleared one (an abort, or a land action, which       *)
(* completes the plan: SmallModel has the rest).                           *)
(***************************************************************************)
EXTENDS Offboard

CONSTANTS Targets, Yaws, Step, Drop, MaxPos   \* as in GoalPublisher

ASSUME AltitudesAssumption == MaxPos \in Nat /\ Alts = 0 .. MaxPos
ASSUME PublisherAssumption == Targets \subseteq 0 .. MaxPos /\ Step \in Nat \ {0} /\ Drop \in Nat

VARIABLES
    goal, local, pc, rampPos, rampKey, holdPoint, setpoint, source, flown, held, again,
    pubAlt      \* history: the altitude when a setpoint was last published

G == INSTANCE GoalPublisher WITH pose <- alt

goalVars ==
    <<goal, local, pc, rampPos, rampKey, holdPoint, setpoint, source, flown, held, again, pubAlt>>
flightVars == <<vars, goalVars>>

FlightInit ==
    /\ Init
    /\ G!Init
    /\ pubAlt = 0

(* A call from A, or the publisher moving the plan on.                     *)
ChangeGoal ==
    /\ Started /\ ipc = "idle"
    /\ (\E g \in G!Goal : G!SetGoal(g)) \/ G!ClearGoal
    /\ UNCHANGED <<vars, pubAlt>>

(* One tick: the goal is read, the setpoint published, and the same thread *)
(* goes through the watch before its next tick.                            *)
TickRead ==
    /\ Started /\ pub = "idle"
    /\ G!ReadGoal
    /\ UNCHANGED <<vars, pubAlt>>

TickPublish ==
    /\ G!PublishGoal \/ G!PublishHover
    /\ PublishPosition(setpoint')
    /\ pubAlt' = alt

(* A landing is commanded by a thread that has just seen the goal cleared: *)
(* the land handler and the abort handler run after the critical section.  *)
CommandLanding ==
    /\ goal = G!NoGoal
    /\ (pc = "read" /\ PubLandAction) \/ IpcSetEmergency
    /\ UNCHANGED goalVars

Rest ==
    /\ Vehicle \/ OnMavState \/ Adapter
    /\ UNCHANGED goalVars

FlightNext ==
    \/ ChangeGoal
    \/ TickRead
    \/ TickPublish
    \/ CommandLanding
    \/ Rest

FlightSpec == FlightInit /\ [][FlightNext]_flightVars

-------------------------------------------------------------------------------
RearmStarts == starting' > starting

(* A drone that was on the ground when the setpoint was published is armed *)
(* again for a goal, or for a hold point that the reset does not reach: at *)
(* home altitude or above, but not more than Drop above the ground.  From  *)
(* higher up a hold point that was left from the flight arms nothing.      *)
RearmNeedsReason ==
    [][RearmStarts /\ Grounded(pubAlt) =>
          source = "goal" \/ holdPoint \in HomeZ .. pubAlt + Drop]_flightVars

-------------------------------------------------------------------------------
(* publisher.py:114-115 and adapter.py:597-598 say that a drone that       *)
(* landed is armed again for a takeoff goal, not for the hold point that   *)
(* was left from the flight.                                               *)
RearmOnlyForGoal ==
    [][RearmStarts /\ Grounded(pubAlt) => source = "goal"]_flightVars
===============================================================================
