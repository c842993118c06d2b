------------------------------- MODULE Offboard -------------------------------
(***************************************************************************)
(* backend-B's Phase2Adapter: preflight, the watch over the OFFBOARD mode  *)
(* that every published setpoint runs (_check_offboard_lost), the landing  *)
(* of last resort (emergency_land) and the arming again after a landing;   *)
(* with the flight controller (PX4 behind MAVROS) it drives, as far as the *)
(* adapter can tell.                                                       *)
(*                                                                         *)
(* Threads: the main thread in preflight, then the goal-publisher, the IPC *)
(* thread, a worker that arms again, and rospy's callback thread that      *)
(* brings /mavros/state.  A step is what one of them does between two      *)
(* points where another can come in: a critical section of _lock or a      *)
(* service call.                                                           *)
(*                                                                         *)
(* Abstracted: altitudes are integers out of a small set, the horizontal   *)
(* position is left out; the modes are OFFBOARD, AUTO.LAND and any other;  *)
(* the 1 s of tolerance and the 5 s of cooldown run out at any moment.     *)
(***************************************************************************)
EXTENDS Naturals

CONSTANTS
    Alts,         \* altitudes; 0 is the ground
    HomeZ,        \* _home[2], 0.5 m
    GroundMargin, \* how far below HomeZ is on the ground, 0.3 m
    MaxRetries,   \* bound: failed re-engagements counted; the code tests >= 2
    MaxWorkers    \* bound: workers of _rearm_after_land under way

ASSUME AltsAssumption == Alts \subseteq Nat /\ 0 \in Alts
ASSUME HomeZAssumption == HomeZ \in Nat /\ GroundMargin \in 0 .. HomeZ
ASSUME MaxRetriesAssumption == MaxRetries \in Nat /\ MaxRetries >= 2
ASSUME MaxWorkersAssumption == MaxWorkers \in Nat \ {0}

VARIABLES
    fcuMode,    \* flight controller: its mode
    fcuArmed,   \* flight controller: armed
    alt,        \* the drone's altitude, which the pose callback copies
    mavMode,    \* _mav_mode: what the last /mavros/state said
    mavArmed,   \* _mav_armed: likewise
    pre,        \* where the main thread is in preflight
    phase,      \* _phase
    lost,       \* _offboard_lost_at: "no", "recent", or "old" (1 s and more)
    retries,    \* _offboard_retries
    emergency,  \* _emergency
    spz,        \* _setpoint_z
    cooling,    \* less than 5 s since _rearm_cooldown
    starting,   \* workers of _rearm_after_land that have just been started
    arming,     \* and those that are about to arm
    pub,        \* where the publisher thread is
    snapArmed,  \* the armed flag of its snapshot (its mode is in pub)
    ipc,        \* where the IPC thread is in emergency_land
    overrides   \* history: OFFBOARD requested since _emergency was last set

fcuVars  == <<fcuMode, fcuArmed, alt>>
viewVars == <<mavMode, mavArmed>>
lossVars == <<lost, retries>>
armVars  == <<cooling, starting, arming>>
vars == <<fcuVars, viewVars, pre, phase, lossVars, emergency, spz, armVars, pub, snapArmed, ipc, overrides>>

Modes == {"OFFBOARD", "AUTO.LAND", "OTHER"}

Init ==
    /\ fcuMode = "OTHER" /\ fcuArmed = FALSE /\ alt = 0
    /\ mavMode = "OTHER" /\ mavArmed = FALSE
    /\ pre = "connect" /\ phase = "DISARMED"
    /\ lost = "no" /\ retries = 0
    /\ emergency = FALSE
    /\ spz = 0
    /\ cooling = FALSE /\ starting = 0 /\ arming = 0
    /\ pub = "idle" /\ snapArmed = FALSE
    /\ ipc = "idle"
    /\ overrides = 0

(* _is_grounded: 0.3 m or more below the home altitude.                    *)
Grounded(z) == z + GroundMargin <= HomeZ

-------------------------------------------------------------------------------
(* The flight controller and the drone.                                    *)

(* The mode is taken away: a failsafe, a pilot, a stream that broke off.   *)
FcuLeavesOffboard ==
    /\ fcuMode = "OFFBOARD"
    /\ fcuMode' = "OTHER"
    /\ UNCHANGED <<fcuArmed, alt>>

FcuDisarms ==
    /\ fcuArmed /\ alt = 0
    /\ fcuArmed' = FALSE
    /\ UNCHANGED <<fcuMode, alt>>

DroneDescends ==
    /\ fcuMode = "OFFBOARD" /\ fcuArmed => spz < alt
    /\ \E a \in Alts : a < alt /\ alt' = a
    /\ UNCHANGED <<fcuMode, fcuArmed>>

DroneClimbs ==
    /\ fcuMode = "OFFBOARD" /\ fcuArmed
    /\ \E a \in Alts : alt < a /\ a <= spz /\ alt' = a
    /\ UNCHANGED <<fcuMode, fcuArmed>>

Vehicle ==
    /\ FcuLeavesOffboard \/ FcuDisarms \/ DroneDescends \/ DroneClimbs
    /\ UNCHANGED <<viewVars, pre, phase, lossVars, emergency, spz, armVars, pub, snapArmed, ipc, overrides>>

(* _on_mav_state.                                                          *)
OnMavState ==
    /\ <<mavMode, mavArmed>> # <<fcuMode, fcuArmed>>
    /\ mavMode' = fcuMode
    /\ mavArmed' = fcuArmed
    /\ UNCHANGED <<fcuVars, pre, phase, lossVars, emergency, spz, armVars, pub, snapArmed, ipc, overrides>>

(* _call_mode: the service answers that the command was sent or not, and   *)
(* the flight controller takes the mode or refuses it.                     *)
CallMode(mode, sent) ==
    /\ sent \in BOOLEAN
    /\ fcuMode' \in {fcuMode, mode}
    /\ UNCHANGED <<fcuArmed, alt>>

-------------------------------------------------------------------------------
(* Preflight.  No other thread of B commands anything while it runs: the   *)
(* publisher and the IPC loop of run_b start after it.                     *)
preRest == <<alt, lossVars, emergency, spz, armVars, pub, snapArmed, ipc, overrides>>

(* Connected, a first pose, 3 s of setpoints, not far from home.           *)
PreflightStream ==
    /\ pre = "connect"
    /\ phase' = "STREAMING"
    /\ pre' = "engage"
    /\ UNCHANGED <<fcuMode, fcuArmed, viewVars, preRest>>

(* No connection or no pose in time; or streaming, but far from home.      *)
PreflightRefused ==
    /\ pre = "connect"
    /\ phase' \in {"DISARMED", "STREAMING"}
    /\ pre' = "failed"
    /\ UNCHANGED <<fcuMode, fcuArmed, viewVars, preRest>>

(* OFFBOARD, by way of POSCTL if need be, confirmed by /mavros/state.      *)
PreflightOffboard ==
    /\ pre = "engage"
    /\ fcuMode' = "OFFBOARD" /\ mavMode' = "OFFBOARD" /\ mavArmed' = fcuArmed
    /\ phase' = "OFFBOARD"
    /\ pre' = "arm"
    /\ UNCHANGED <<fcuArmed, preRest>>

(* ARM confirmed, with the disarm and re-arm of a drone that stands.       *)
PreflightActive ==
    /\ pre = "arm"
    /\ fcuArmed' = TRUE /\ mavArmed' = TRUE /\ mavMode' = fcuMode
    /\ phase' = "ACTIVE"
    /\ pre' = "done"
    /\ UNCHANGED <<fcuMode, preRest>>

(* OFFBOARD not confirmed in time; the mode may be POSCTL by now.          *)
PreflightModeRefused ==
    /\ pre = "engage"
    /\ fcuMode' \in {fcuMode, "OFFBOARD", "OTHER"}
    /\ UNCHANGED <<pre, fcuArmed, viewVars, phase, preRest>>

(* ARM refused, or not confirmed and taken back: the loop starts over, and *)
(* _phase stays as it is.                                                  *)
PreflightArmRefused ==
    /\ pre = "arm"
    /\ fcuArmed' \in BOOLEAN
    /\ pre' = "engage"
    /\ UNCHANGED <<fcuMode, viewVars, phase, preRest>>

(* The attempts used up the time.                                          *)
PreflightExhausted ==
    /\ pre = "engage"
    /\ pre' = "failed"
    /\ UNCHANGED <<fcuMode, fcuArmed, viewVars, phase, preRest>>

Preflight ==
    \/ PreflightStream \/ PreflightRefused
    \/ PreflightOffboard \/ PreflightModeRefused
    \/ PreflightActive \/ PreflightArmRefused
    \/ PreflightExhausted

(* run_b starts the publisher and the IPC loop whether it succeeded or not *)
Started == pre \in {"done", "failed"}

-------------------------------------------------------------------------------
(* The publisher: publish_position(z), then _check_offboard_lost.          *)
pubRest == <<fcuVars, viewVars, pre, phase, ipc>>

(* The setpoint goes out, then the state is copied under the lock.         *)
PublishPosition(z) ==
    /\ Started /\ pub = "idle"
    /\ spz' = z
    /\ snapArmed' = mavArmed
    /\ pub' = IF phase # "ACTIVE" THEN "idle"
              ELSE IF mavMode = "OFFBOARD" THEN "engaged" ELSE "guard"
    /\ UNCHANGED <<pubRest, lossVars, emergency, armVars, overrides>>

(* _maybe_rearm_if_needed: at most one worker is started in 5 s, whether   *)
(* the one before has ended or not.                                        *)
MaybeRearm ==
    IF ~mavArmed /\ spz >= HomeZ /\ Grounded(alt) /\ ~cooling
    THEN cooling' = TRUE /\ starting' = starting + 1 /\ arming' = arming
    ELSE UNCHANGED armVars

(* Mistake: a recovery leaves the failures of the loss behind.             *)
EngagedKeepsRetries ==
    /\ pub = "engaged"
    /\ lost' = "no"
    /\ MaybeRearm
    /\ pub' = "idle"
    /\ UNCHANGED <<pubRest, retries, emergency, spz, snapArmed, overrides>>

(* OFFBOARD in the snapshot, or a re-engagement confirmed: the loss is     *)
(* forgotten.                                                              *)
Engaged ==
    /\ pub = "engaged"
    /\ lost' = "no" /\ retries' = 0
    /\ MaybeRearm
    /\ pub' = "idle"
    /\ UNCHANGED <<pubRest, emergency, spz, snapArmed, overrides>>

guardRest == <<pubRest, lossVars, spz, armVars, snapArmed, overrides>>

(* Mistake: the landing under way does not end the check.                  *)
GuardDropped ==
    /\ pub = "guard"
    /\ pub' = "lost"
    /\ emergency' = (emergency /\ (snapArmed \/ ~Grounded(alt)))
    /\ UNCHANGED guardRest

(* Mistake: the flag is never cleared, as before 2026-08-04.               *)
GuardNeverClears ==
    /\ pub = "guard"
    /\ pub' = IF emergency THEN "idle" ELSE "lost"
    /\ UNCHANGED <<guardRest, emergency>>

(* Another mode: a landing that is over is forgotten, one that is not ends *)
(* the check.                                                              *)
GuardEmergency ==
    /\ pub = "guard"
    /\ \/ /\ emergency /\ ~snapArmed /\ Grounded(alt)
          /\ emergency' = FALSE
          /\ pub' = "lost"
       \/ /\ emergency /\ (snapArmed \/ ~Grounded(alt))
          /\ pub' = "idle"
          /\ UNCHANGED emergency
       \/ /\ ~emergency
          /\ pub' = "lost"
          /\ UNCHANGED emergency
    /\ UNCHANGED guardRest

(* Mistake: every check starts the time of the loss anew.                  *)
TolerateForEver ==
    /\ pub = "lost"
    /\ lost' = "recent"
    /\ pub' = "idle"
    /\ UNCHANGED <<pubRest, retries, emergency, spz, armVars, snapArmed, overrides>>

(* The first second of a loss is tolerated.                                *)
TolerateLoss ==
    /\ pub = "lost"
    /\ lost' = IF lost = "no" THEN "recent" ELSE lost
    /\ pub' = IF lost' = "old" THEN "request" ELSE "idle"
    /\ UNCHANGED <<pubRest, retries, emergency, spz, armVars, snapArmed, overrides>>

LossAges ==
    /\ lost = "recent"
    /\ lost' = "old"
    /\ UNCHANGED <<pubRest, retries, emergency, spz, armVars, pub, snapArmed, overrides>>

(* _call_mode("OFFBOARD"): what was tested above may have changed since.   *)
RequestOffboard ==
    /\ pub = "request"
    /\ \E sent \in BOOLEAN :
          /\ CallMode("OFFBOARD", sent)
          /\ pub' = IF sent THEN "wait" ELSE "failed"
    /\ overrides' = IF emergency THEN overrides + 1 ELSE overrides
    /\ UNCHANGED <<viewVars, pre, phase, ipc, lossVars, emergency, spz, armVars, snapArmed>>

(* _wait_mode: confirmed within 3 s, or not.                               *)
WaitOffboard ==
    /\ pub = "wait"
    /\ pub' = IF mavMode = "OFFBOARD" THEN "engaged" ELSE "failed"
    /\ UNCHANGED <<pubRest, lossVars, emergency, spz, armVars, snapArmed, overrides>>

(* A failed re-engagement is counted and reported; the second in a row     *)
(* lands the drone.                                                        *)
ReengageFailed ==
    /\ pub = "failed"
    /\ retries' = IF retries < MaxRetries THEN retries + 1 ELSE retries
    /\ pub' = IF retries' >= 2 THEN "emergency" ELSE "idle"
    /\ UNCHANGED <<pubRest, lost, emergency, spz, armVars, snapArmed, overrides>>

(* emergency_land on the publisher thread: after the second failure, or    *)
(* for a land action the arrival check came to.                            *)
PubLandAction ==
    /\ Started /\ pub = "idle"
    /\ pub' = "emergency"
    /\ UNCHANGED <<pubRest, lossVars, emergency, spz, armVars, snapArmed, overrides>>

PubSetEmergency ==
    /\ pub = "emergency"
    /\ pub' = IF emergency THEN "idle" ELSE "land"
    /\ emergency' = TRUE
    /\ overrides' = IF emergency THEN overrides ELSE 0
    /\ UNCHANGED <<pubRest, lossVars, spz, armVars, snapArmed>>

(* Its outcome is not looked at.                                           *)
PubCallAutoLand ==
    /\ pub = "land"
    /\ \E sent \in BOOLEAN : CallMode("AUTO.LAND", sent)
    /\ pub' = "idle"
    /\ UNCHANGED <<viewVars, pre, phase, ipc, lossVars, emergency, spz, armVars, snapArmed, overrides>>

WatchSteps ==
    \/ Engaged \/ GuardEmergency \/ TolerateLoss \/ RequestOffboard
    \/ WaitOffboard \/ ReengageFailed \/ PubSetEmergency \/ PubCallAutoLand

-------------------------------------------------------------------------------
(* emergency_land on the IPC thread: an abort, or a plan that is a landing *)
(* from its first action.                                                  *)
IpcSetEmergency ==
    /\ Started /\ ipc = "idle" /\ ~emergency
    /\ emergency' = TRUE
    /\ overrides' = 0
    /\ ipc' = "land"
    /\ UNCHANGED <<fcuVars, viewVars, pre, phase, lossVars, spz, armVars, pub, snapArmed>>

IpcCallAutoLand ==
    /\ ipc = "land"
    /\ \E sent \in BOOLEAN : CallMode("AUTO.LAND", sent)
    /\ ipc' = "idle"
    /\ UNCHANGED <<viewVars, pre, phase, lossVars, emergency, spz, armVars, pub, snapArmed, overrides>>

-------------------------------------------------------------------------------
(* A worker of _rearm_after_land: disarm if armed meanwhile, then arm.     *)
workRest == <<fcuMode, alt, viewVars, pre, phase, lossVars, emergency, spz, cooling, pub, snapArmed, ipc, overrides>>

WorkerDisarm ==
    /\ starting > 0
    /\ starting' = starting - 1
    /\ arming' = arming + 1
    /\ fcuArmed' \in IF mavArmed /\ alt = 0 THEN {FALSE, fcuArmed} ELSE {fcuArmed}
    /\ UNCHANGED workRest

WorkerArm ==
    /\ arming > 0
    /\ arming' = arming - 1
    /\ fcuArmed' \in {TRUE, fcuArmed}
    /\ UNCHANGED <<starting, workRest>>

(* 5 s since the last worker was started; MaxWorkers bounds how many of    *)
(* them the services may still keep waiting then.                          *)
CooldownOver ==
    /\ cooling
    /\ starting + arming < MaxWorkers
    /\ cooling' = FALSE
    /\ UNCHANGED <<fcuVars, viewVars, pre, phase, lossVars, emergency, spz, starting, arming, pub, snapArmed, ipc, overrides>>

-------------------------------------------------------------------------------
Adapter ==
    \/ Preflight
    \/ WatchSteps
    \/ LossAges
    \/ IpcCallAutoLand
    \/ WorkerDisarm \/ WorkerArm \/ CooldownOver

Next ==
    \/ Vehicle
    \/ OnMavState
    \/ Adapter
    \/ \E z \in Alts : PublishPosition(z)
    \/ PubLandAction
    \/ IpcSetEmergency

Spec == Init /\ [][Next]_vars

(* The 20 Hz thread publishes again whatever it did in between, the worker *)
(* and the callbacks run, the clock goes on.  Nothing is assumed of what   *)
(* the flight controller answers, of calls from A or of the vehicle.       *)
Fairness ==
    /\ WF_vars(Preflight)
    /\ WF_vars(OnMavState)
    /\ WF_vars(WatchSteps)
    /\ SF_vars(\E z \in Alts : PublishPosition(z))
    /\ WF_vars(LossAges)
    /\ WF_vars(IpcCallAutoLand)
    /\ WF_vars(WorkerDisarm \/ WorkerArm)
    /\ WF_vars(CooldownOver)

FairSpec == Spec /\ Fairness

(* Besides: the operator aborts again whenever that has an effect, and the *)
(* flight controller takes AUTO.LAND if it is asked for again and again.   *)
PersistentSpec ==
    /\ FairSpec
    /\ SF_vars(IpcSetEmergency)
    /\ SF_vars(IpcCallAutoLand /\ fcuMode' = "AUTO.LAND")

-------------------------------------------------------------------------------
(* The type of the state.                                                  *)
TypeOK ==
    /\ fcuMode \in Modes /\ fcuArmed \in BOOLEAN /\ alt \in Alts
    /\ mavMode \in Modes /\ mavArmed \in BOOLEAN
    /\ pre \in {"connect", "engage", "arm", "done", "failed"}
    /\ phase \in {"DISARMED", "STREAMING", "OFFBOARD", "ACTIVE"}
    /\ lost \in {"no", "recent", "old"} /\ retries \in 0 .. MaxRetries
    /\ emergency \in BOOLEAN
    /\ spz \in Alts
    /\ cooling \in BOOLEAN /\ starting \in Nat /\ arming \in Nat
    /\ pub \in {"idle", "engaged", "guard", "lost", "request", "wait", "failed", "emergency", "land"}
    /\ snapArmed \in BOOLEAN
    /\ ipc \in {"idle", "land"}
    /\ overrides \in Nat

(* A landing of last resort is overridden by a re-engagement at most once: *)
(* only a check that was past its guard when the landing was commanded can *)
(* still ask for OFFBOARD, and the next check finds the flag.              *)
OverrideAtMostOnce == overrides <= 1

(* The failures counted are those of the loss that goes on: a loss that    *)
(* was mended leaves nothing behind that could make the next one land the  *)
(* drone after a single failure.                                           *)
FailuresOfThisLoss == retries > 0 => lost = "old"

(* A loss of OFFBOARD that the adapter sees ends in OFFBOARD again or in   *)
(* the landing of last resort, whatever the flight controller answers.     *)
LossResolved ==
    (phase = "ACTIVE" /\ mavMode # "OFFBOARD" /\ ~emergency)
        ~> (mavMode = "OFFBOARD" \/ emergency)

Landed == phase = "ACTIVE" /\ pre = "done" /\ ~mavArmed /\ Grounded(alt)

(* After a landing, disarmed on the ground and out of OFFBOARD, the flag   *)
(* does not stay set: the next plan can take off.  (In OFFBOARD, which is  *)
(* where a landing that was refused or overridden leaves it, the check     *)
(* returns before it looks at the flag.)                                   *)
LandedAllowsTakeoff ==
    (emergency /\ Landed /\ mavMode # "OFFBOARD")
        ~> (~emergency \/ ~Landed \/ mavMode = "OFFBOARD")

-------------------------------------------------------------------------------
(* adapter.py:537 and 561 say that a landing of last resort under way is   *)
(* not overridden by a re-engagement of OFFBOARD.                          *)
LandingNotOverridden == overrides = 0

(* PX4-阶段2-design.md:176 says that an abort is set_mode AUTO.LAND.       *)
AbortLands ==
    (emergency /\ fcuArmed) ~> (fcuMode = "AUTO.LAND" \/ ~fcuArmed \/ ~emergency)
===============================================================================
