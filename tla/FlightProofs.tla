----------------------------- MODULE FlightProofs -----------------------------
(***************************************************************************)
(* Theorems about the adapter (Offboard), for every set of altitudes,      *)
(* every home altitude and every cap on the retries and the workers; and   *)
(* about Flight, the condition under which the hold point arms a drone     *)
(* that has landed.                                                        *)
(*                                                                         *)
(* OverrideAtMostOnce is not inductive: what makes it so is that once a    *)
(* landing has been overridden, and as long as the flag stays set, the     *)
(* publisher is not past its guard again.  FailuresOfThisLoss needs the    *)
(* loss to be old wherever a re-engagement is under way.                   *)
(***************************************************************************)
EXTENDS Flight, Integers, TLAPS

(* Once overridden, a landing finds the publisher in front of its guard.   *)
PastGuard == emergency /\ overrides = 1 => pub \notin {"lost", "request"}

(* A re-engagement is under way for an old loss only.                      *)
EngagingIsOld == pub \in {"request", "wait", "failed"} => lost = "old"

IInv == TypeOK /\ OverrideAtMostOnce /\ PastGuard /\ FailuresOfThisLoss /\ EngagingIsOld

-------------------------------------------------------------------------------
(* The altitudes and the constants are what the assumptions say.           *)
LEMMA InitTypes == Init => TypeOK
<1>1. 0 \in 0 .. MaxRetries /\ 0 \in Nat /\ 0 \in Alts
  BY AltsAssumption, MaxRetriesAssumption
<1> QED
  BY <1>1, Zenon DEF Init, TypeOK, Modes

(* Every step keeps the types.                                             *)
LEMMA NextTypes == TypeOK /\ [Next]_vars => TypeOK'
<1> SUFFICES ASSUME TypeOK, [Next]_vars PROVE TypeOK'
  OBVIOUS
<1>0. 0 \in 0 .. MaxRetries /\ 0 \in Nat
  BY MaxRetriesAssumption
<1> USE DEF TypeOK, Modes
<1>1. CASE Vehicle
  <2>1. fcuMode' \in Modes /\ fcuArmed' \in BOOLEAN
    BY <1>1, Zenon DEF Vehicle, FcuLeavesOffboard, FcuDisarms, DroneDescends, DroneClimbs
  <2>2. alt' \in Alts
    BY <1>1 DEF Vehicle, FcuLeavesOffboard, FcuDisarms, DroneDescends, DroneClimbs
  <2> QED
    BY <1>1, <2>1, <2>2 DEF Vehicle, viewVars, lossVars, armVars
<1>2. CASE OnMavState
  BY <1>2 DEF OnMavState, fcuVars, lossVars, armVars
<1>3. CASE Preflight
  BY <1>3 DEF Preflight, PreflightStream, PreflightRefused, PreflightOffboard,
     PreflightModeRefused, PreflightActive, PreflightArmRefused, PreflightExhausted,
     preRest, viewVars, lossVars, armVars
<1>4. CASE Engaged
  <2>1. cooling' \in BOOLEAN /\ starting' \in {starting, starting + 1} /\ arming' = arming
    BY <1>4, Zenon DEF Engaged, MaybeRearm, armVars
  <2> QED
    BY <1>0, <1>4, <2>1 DEF Engaged, pubRest, fcuVars, viewVars
<1>5. CASE GuardEmergency
  <2>1. emergency' \in BOOLEAN /\ pub' \in {"idle", "lost"}
    BY <1>5, Zenon DEF GuardEmergency
  <2> QED
    BY <1>5, <2>1 DEF GuardEmergency, guardRest, pubRest, fcuVars, viewVars,
       lossVars, armVars
<1>6. CASE TolerateLoss
  BY <1>6 DEF TolerateLoss, pubRest, fcuVars, viewVars, armVars
<1>7. CASE RequestOffboard
  BY <1>7 DEF RequestOffboard, CallMode, viewVars, lossVars, armVars
<1>8. CASE WaitOffboard \/ ReengageFailed
  BY MaxRetriesAssumption, <1>8 DEF WaitOffboard, ReengageFailed, pubRest, fcuVars, viewVars, lossVars, armVars
<1>9. CASE PubSetEmergency \/ PubLandAction
  BY <1>0, <1>9, Zenon DEF PubSetEmergency, PubLandAction, pubRest, fcuVars, viewVars, lossVars, armVars
<1>10. CASE PubCallAutoLand \/ IpcCallAutoLand
  BY <1>10 DEF PubCallAutoLand, IpcCallAutoLand, CallMode, viewVars, lossVars, armVars
<1>11. CASE IpcSetEmergency \/ LossAges \/ CooldownOver
  BY <1>0, <1>11, Zenon DEF IpcSetEmergency, LossAges, CooldownOver, pubRest, fcuVars, viewVars,
     lossVars, armVars
<1>12. CASE WorkerDisarm \/ WorkerArm
  <2>1. fcuArmed' \in BOOLEAN
    BY <1>12, Zenon DEF WorkerDisarm, WorkerArm
  <2>2. \/ starting > 0 /\ starting' = starting - 1 /\ arming' = arming + 1
        \/ arming > 0 /\ arming' = arming - 1 /\ starting' = starting
    BY <1>12, Zenon DEF WorkerDisarm, WorkerArm
  <2>3. starting' \in Nat /\ arming' \in Nat
    BY <2>2
  <2> QED
    BY <1>12, <2>1, <2>3 DEF WorkerDisarm, WorkerArm, workRest, viewVars, lossVars
<1>13. CASE \E z \in Alts : PublishPosition(z)
  BY <1>13 DEF PublishPosition, pubRest, fcuVars, viewVars, lossVars, armVars
<1>14. CASE UNCHANGED vars
  BY <1>14 DEF vars, fcuVars, viewVars, lossVars, armVars
<1> QED
  BY <1>1, <1>2, <1>3, <1>4, <1>5, <1>6, <1>7, <1>8, <1>9, <1>10, <1>11, <1>12,
     <1>13, <1>14 DEF Next, Adapter, WatchSteps

-------------------------------------------------------------------------------
(* The initial state has no landing and no loss.                           *)
LEMMA InitIInv == Init => IInv
  BY InitTypes DEF Init, IInv, OverrideAtMostOnce, PastGuard, FailuresOfThisLoss, EngagingIsOld

(* Every step keeps the inductive invariant.                               *)
LEMMA NextIInv == IInv /\ [Next]_vars => IInv'
<1> SUFFICES ASSUME IInv, [Next]_vars PROVE IInv'
  OBVIOUS
<1>0. TypeOK /\ TypeOK'
  BY NextTypes DEF IInv
<1> DEFINE Parts == /\ OverrideAtMostOnce /\ PastGuard
                   /\ FailuresOfThisLoss /\ EngagingIsOld
<1> SUFFICES Parts'
  BY <1>0 DEF IInv
<1> USE MaxRetriesAssumption DEF IInv, OverrideAtMostOnce, PastGuard, FailuresOfThisLoss, EngagingIsOld
<1>1. CASE UNCHANGED <<lossVars, emergency, pub, overrides>>
  BY <1>1 DEF lossVars
<1>2. CASE Engaged
  BY <1>2 DEF Engaged
<1>3. CASE GuardEmergency
  BY <1>3 DEF GuardEmergency, guardRest, lossVars
<1>4. CASE TolerateLoss
  BY <1>0, <1>4 DEF TolerateLoss, TypeOK
<1>5. CASE LossAges
  BY <1>5 DEF LossAges
<1>6. CASE RequestOffboard
  BY <1>0, <1>6 DEF RequestOffboard, lossVars, TypeOK
<1>7. CASE WaitOffboard
  BY <1>7 DEF WaitOffboard, lossVars
<1>8. CASE ReengageFailed
  BY <1>8 DEF ReengageFailed
<1>9. CASE PubLandAction \/ PubCallAutoLand
  BY <1>9 DEF PubLandAction, PubCallAutoLand, lossVars
<1>10. CASE PubSetEmergency
  BY <1>10 DEF PubSetEmergency, lossVars
<1>11. CASE IpcSetEmergency
  BY <1>11 DEF IpcSetEmergency, lossVars
<1>12. CASE \E z \in Alts : PublishPosition(z)
  BY <1>12 DEF PublishPosition, lossVars
<1>13. (Vehicle \/ OnMavState \/ Preflight \/ IpcCallAutoLand \/ WorkerDisarm
          \/ WorkerArm \/ CooldownOver \/ UNCHANGED vars)
        => UNCHANGED <<lossVars, emergency, pub, overrides>>
  BY DEF Vehicle, OnMavState, Preflight, PreflightStream, PreflightRefused,
     PreflightOffboard, PreflightModeRefused, PreflightActive, PreflightArmRefused,
     PreflightExhausted, preRest, IpcCallAutoLand, WorkerDisarm, WorkerArm, workRest,
     CooldownOver, vars
<1> QED
  BY <1>1, <1>2, <1>3, <1>4, <1>5, <1>6, <1>7, <1>8, <1>9, <1>10, <1>11, <1>12, <1>13
     DEF Next, Adapter, WatchSteps

(* The inductive invariant holds.                                          *)
LEMMA IInvHolds == Spec => []IInv
<1>1. Init => IInv
  BY InitIInv
<1>2. IInv /\ [Next]_vars => IInv'
  BY NextIInv
<1> QED
  BY <1>1, <1>2, PTL DEF Spec

-------------------------------------------------------------------------------
(* The state of the adapter keeps its type.                                *)
THEOREM TypeCorrect == Spec => []TypeOK
  BY IInvHolds, PTL DEF IInv

(* emergency_land is overridden by _check_offboard_lost at most once.      *)
THEOREM OverrideAtMostOnceHolds == Spec => []OverrideAtMostOnce
  BY IInvHolds, PTL DEF IInv

(* _offboard_retries counts the failures of the loss that goes on.         *)
THEOREM FailuresOfThisLossHolds == Spec => []FailuresOfThisLoss
  BY IInvHolds, PTL DEF IInv

-------------------------------------------------------------------------------
(* The adapter with its callers.                                           *)

USE AltsAssumption, HomeZAssumption, MaxRetriesAssumption, AltitudesAssumption, PublisherAssumption

P == INSTANCE GoalPublisherProofs WITH pose <- alt

(* No step of the vehicle, the adapter or the callback touches the fields  *)
(* of the publisher, and the drone moves among the altitudes only.         *)
LEMMA RestMoves == Rest => alt' = alt \/ G!DroneMoves
<1>1. Vehicle => alt' = alt \/ alt' \in Alts
  BY DEF Vehicle, FcuLeavesOffboard, FcuDisarms, DroneDescends, DroneClimbs
<1>2. OnMavState \/ Adapter => alt' = alt
  BY DEF OnMavState, fcuVars, Adapter, Preflight, PreflightStream, PreflightRefused,
     PreflightOffboard, PreflightModeRefused, PreflightActive, PreflightArmRefused,
     PreflightExhausted, preRest, WatchSteps, Engaged, GuardEmergency, guardRest,
     TolerateLoss, RequestOffboard, WaitOffboard, ReengageFailed, PubSetEmergency,
     PubCallAutoLand, CallMode, pubRest, LossAges, IpcCallAutoLand, WorkerDisarm,
     WorkerArm, workRest, CooldownOver
<1> QED
  BY <1>1, <1>2 DEF Rest, goalVars, G!DroneMoves, G!Pos, G!pubVars, G!history

(* Every step is a step of the publisher or leaves it alone.               *)
LEMMA StepOfPublisher == [FlightNext]_flightVars => [G!Next]_(G!vars)
<1> SUFFICES ASSUME [FlightNext]_flightVars PROVE [G!Next]_(G!vars)
  OBVIOUS
<1>1. CASE ChangeGoal
  BY <1>1 DEF ChangeGoal, G!Next
<1>2. CASE TickRead
  BY <1>2 DEF TickRead, G!Next, G!Tick
<1>3. CASE TickPublish
  BY <1>3 DEF TickPublish, G!Next, G!Tick
<1>4. CASE CommandLanding
  BY <1>4 DEF CommandLanding, goalVars, PubLandAction, IpcSetEmergency, pubRest, fcuVars,
     G!vars, G!pubVars, G!history
<1>5. CASE Rest
  BY <1>5, RestMoves DEF Rest, goalVars, G!Next, G!vars, G!pubVars, G!history
<1>6. CASE UNCHANGED flightVars
  BY <1>6 DEF flightVars, goalVars, vars, fcuVars, G!vars, G!pubVars, G!history
<1> QED
  BY <1>1, <1>2, <1>3, <1>4, <1>5, <1>6 DEF FlightNext

-------------------------------------------------------------------------------
(* P, the instance that carries the theorems, is G once more.              *)
LEMMA SameInstance ==
    /\ G!Init => P!Init
    /\ [G!Next]_(G!vars) => [P!Next]_(P!vars)
    /\ P!TypeOK => G!TypeOK
<1>1. G!Init => P!Init
  BY DEF G!Init, P!Init, G!NoGoal, P!NoGoal, G!NoPos, P!NoPos, G!Pos, P!Pos
<1>2. [G!Next]_(G!vars) => [P!Next]_(P!vars)
  BY DEF G!Next, P!Next, G!vars, P!vars, G!pubVars, P!pubVars, G!history, P!history, G!Goal, P!Goal,
     G!SetGoal, P!SetGoal, G!ClearGoal, P!ClearGoal, G!DroneMoves, P!DroneMoves,
     G!Tick, P!Tick, G!ReadGoal, P!ReadGoal, G!PublishGoal, P!PublishGoal,
     G!PublishHover, P!PublishHover, G!Ramp, P!Ramp, G!Hold, P!Hold,
     G!Towards, P!Towards, G!Dist, P!Dist, G!NoGoal, P!NoGoal, G!NoPos, P!NoPos,
     G!Pos, P!Pos
<1>3. P!TypeOK => G!TypeOK
  BY DEF G!TypeOK, P!TypeOK, G!Goal, P!Goal, G!NoGoal, P!NoGoal, G!NoPos, P!NoPos,
     G!Pos, P!Pos
<1> QED
  BY <1>1, <1>2, <1>3

(* The types of GoalPublisher carry over.                                  *)
LEMMA PublisherTypes ==
    FlightSpec => []G!TypeOK
<1>1. P!Spec => []P!TypeOK
  BY P!TypeCorrect
<1>2. FlightInit => P!Init
  BY SameInstance DEF FlightInit
<1>3. [FlightNext]_flightVars => [P!Next]_(P!vars)
  BY SameInstance, StepOfPublisher
<1>4. P!TypeOK => G!TypeOK
  BY SameInstance
<1> QED
  BY <1>1, <1>2, <1>3, <1>4, PTL DEF FlightSpec, P!Spec

-------------------------------------------------------------------------------
(* What the publisher publishes is an altitude: it never reaches the       *)
(* adapter before a ramp or a hold point is set.                           *)
LEMMA PublishesAltitude ==
    ASSUME G!TypeOK, G!TypeOK', TickPublish
    PROVE  setpoint' \in Alts
<1>1. Alts = G!Pos
  BY DEF G!Pos
<1>2. CASE G!PublishGoal
  <2>1. rampKey' # G!NoGoal
    BY <1>2 DEF G!PublishGoal, G!Ramp
  <2>2. rampPos' \in G!Pos
    BY <2>1 DEF G!TypeOK
  <2> QED
    BY <1>1, <1>2, <2>2 DEF G!PublishGoal
<1>3. CASE G!PublishHover
  BY <1>1, <1>3 DEF G!PublishHover, G!Hold, G!TypeOK
<1> QED
  BY <1>2, <1>3 DEF TickPublish

(* Every step is a step of the adapter or leaves it alone.                 *)
LEMMA StepOfOffboard ==
    ASSUME G!TypeOK, G!TypeOK', [FlightNext]_flightVars
    PROVE  [Next]_vars
<1>1. CASE TickPublish
  BY <1>1, PublishesAltitude DEF TickPublish, Next
<1>2. CASE ChangeGoal \/ TickRead \/ UNCHANGED flightVars
  BY <1>2 DEF ChangeGoal, TickRead, flightVars
<1>3. CASE CommandLanding \/ Rest
  BY <1>3 DEF CommandLanding, Rest, Next
<1> QED
  BY <1>1, <1>2, <1>3 DEF FlightNext

(* The types of the adapter carry over.                                    *)
LEMMA AdapterTypes == FlightSpec => []TypeOK
<1>1. FlightInit => TypeOK
  BY InitTypes DEF FlightInit
<1>2. G!TypeOK /\ G!TypeOK' /\ TypeOK /\ [FlightNext]_flightVars => TypeOK'
  BY StepOfOffboard, NextTypes
<1> QED
  BY <1>1, <1>2, PublisherTypes, PTL DEF FlightSpec

-------------------------------------------------------------------------------
(* The adapter decides on the setpoint that was published last, and a hold *)
(* point was at most Drop above the drone when it was published.           *)
SetpointKnown ==
    /\ source = "none" => pub \in {"idle", "emergency", "land"}
    /\ source = "hover" => spz = holdPoint /\ holdPoint <= pubAlt + Drop

(* Every step keeps that so.                                               *)
LEMMA SetpointKnownStep ==
    ASSUME G!TypeOK, G!TypeOK', TypeOK, SetpointKnown, [FlightNext]_flightVars
    PROVE  SetpointKnown'
<1> USE DEF SetpointKnown
<1>1. CASE TickPublish
  <2>1. CASE G!PublishGoal
    BY <2>1 DEF G!PublishGoal
  <2>2. CASE G!PublishHover
    <3>1. source' = "hover" /\ spz' = holdPoint' /\ pubAlt' = alt
      BY <1>1, <2>2 DEF TickPublish, G!PublishHover, PublishPosition
    <3>2. alt \in Int /\ holdPoint \in Int
      BY DEF TypeOK, G!TypeOK, G!Pos, G!NoPos
    <3>3. holdPoint' = alt \/ (holdPoint' = holdPoint /\ ~(alt < holdPoint - Drop))
      BY <2>2 DEF G!PublishHover, G!Hold
    <3>4. holdPoint' <= alt + Drop
      BY <3>2, <3>3
    <3> QED
      BY <3>1, <3>4
  <2> QED
    BY <1>1, <2>1, <2>2 DEF TickPublish
<1>2. CASE ChangeGoal
  BY <1>2 DEF ChangeGoal, G!SetGoal, G!ClearGoal, G!pubVars, G!history, vars
<1>3. CASE TickRead
  BY <1>3 DEF TickRead, G!ReadGoal, vars
<1>4. CASE CommandLanding
  BY <1>4 DEF CommandLanding, goalVars, PubLandAction, IpcSetEmergency, pubRest
<1>5. CASE Rest
  <2>1. UNCHANGED <<source, holdPoint, pubAlt>>
    BY <1>5 DEF Rest, goalVars
  <2>2. spz' = spz
    BY <1>5 DEF Rest, Vehicle, OnMavState, Adapter, Preflight, PreflightStream,
       PreflightRefused, PreflightOffboard, PreflightModeRefused, PreflightActive,
       PreflightArmRefused, PreflightExhausted, preRest, WatchSteps, Engaged,
       GuardEmergency, guardRest, TolerateLoss, RequestOffboard, WaitOffboard,
       ReengageFailed, PubSetEmergency, PubCallAutoLand, LossAges, IpcCallAutoLand,
       WorkerDisarm, WorkerArm, workRest, CooldownOver
  <2>3. pub \in {"idle", "emergency", "land"} => pub' \in {"idle", "emergency", "land"}
    BY <1>5 DEF Rest, Vehicle, OnMavState, Adapter, Preflight, PreflightStream,
       PreflightRefused, PreflightOffboard, PreflightModeRefused, PreflightActive,
       PreflightArmRefused, PreflightExhausted, preRest, WatchSteps, Engaged,
       GuardEmergency, TolerateLoss, RequestOffboard, WaitOffboard,
       ReengageFailed, PubSetEmergency, PubCallAutoLand, LossAges, IpcCallAutoLand,
       WorkerDisarm, WorkerArm, workRest, CooldownOver
  <2> QED
    BY <2>1, <2>2, <2>3
<1>6. CASE UNCHANGED flightVars
  BY <1>6 DEF flightVars, goalVars, vars
<1> QED
  BY <1>1, <1>2, <1>3, <1>4, <1>5, <1>6 DEF FlightNext

(* Arming starts in Engaged, for the setpoint published last.              *)
LEMMA RearmStep ==
    ASSUME G!TypeOK, TypeOK, SetpointKnown, [FlightNext]_flightVars, RearmStarts
    PROVE  source = "goal" \/ holdPoint \in HomeZ .. pubAlt + Drop
<1>0. starting' # starting /\ ~(starting' = starting - 1)
  BY DEF TypeOK, RearmStarts
<1>1. Engaged
  BY <1>0, Zenon DEF FlightNext, ChangeGoal, TickRead, TickPublish, PublishPosition,
     CommandLanding, PubLandAction, IpcSetEmergency, Rest, Vehicle, OnMavState, Adapter,
     Preflight, PreflightStream, PreflightRefused, PreflightOffboard, PreflightModeRefused,
     PreflightActive, PreflightArmRefused, PreflightExhausted, preRest, WatchSteps,
     GuardEmergency, guardRest, TolerateLoss, RequestOffboard, WaitOffboard,
     ReengageFailed, PubSetEmergency, PubCallAutoLand, LossAges, IpcCallAutoLand,
     WorkerDisarm, WorkerArm, CooldownOver, flightVars, vars, armVars
<1>2. spz >= HomeZ /\ source # "none"
  BY <1>0, <1>1 DEF Engaged, MaybeRearm, armVars, SetpointKnown
<1>3. source = "goal" \/ (spz = holdPoint /\ holdPoint <= pubAlt + Drop)
  BY <1>2 DEF G!TypeOK, SetpointKnown
<1>4. holdPoint \in Int
  BY DEF G!TypeOK, G!Pos, G!NoPos
<1> QED
  BY <1>2, <1>3, <1>4

(* A hold point arms a drone that has landed only from within Drop of the  *)
(* ground.                                                                 *)
THEOREM RearmNeedsReasonHolds ==
    FlightSpec => RearmNeedsReason
<1>1. FlightInit => SetpointKnown
  BY DEF FlightInit, Init, G!Init, SetpointKnown
<1>2. /\ G!TypeOK /\ G!TypeOK' /\ TypeOK /\ SetpointKnown /\ [FlightNext]_flightVars
      => SetpointKnown'
  BY SetpointKnownStep
<1>3. G!TypeOK /\ TypeOK /\ SetpointKnown /\ [FlightNext]_flightVars
      => [RearmStarts /\ Grounded(pubAlt) =>
            source = "goal" \/ holdPoint \in HomeZ .. pubAlt + Drop]_flightVars
  BY RearmStep
<1> QED
  BY <1>1, <1>2, <1>3, PublisherTypes, AdapterTypes, PTL DEF FlightSpec, RearmNeedsReason
===============================================================================
