------------------------------ MODULE SmallModel ------------------------------
(***************************************************************************)
(* backend-B's small_model component: the plan, index, status and current  *)
(* goal that SmallModelComponent keeps under one lock, written by the IPC  *)
(* thread (action, abort and hover calls), by the main thread (the hover   *)
(* of a shutdown) and by the 20 Hz goal-publisher thread, which advances   *)
(* the plan when the drone arrives.                                        *)
(*                                                                         *)
(* One step is one critical section of component._lock; the events sent    *)
(* inside it are part of it.  What happens between two sections is a step  *)
(* boundary: the publisher has compared a position with the goal it read   *)
(* and does not hold the lock; a thread has released the lock and is about *)
(* to call the land handler.                                               *)
(*                                                                         *)
(* Abstracted: positions (whether the drone is within 0.15 m of the goal   *)
(* is a choice), the coordinates of a goal (a goal is named by the plan    *)
(* and the action it was computed for and the constraints it was clamped   *)
(* to), an action's code (only how its translation ends matters).          *)
(***************************************************************************)
EXTENDS Naturals, Sequences

CONSTANTS
    Plans,        \* the action lists a generate_goal call may carry
    LandHandler,  \* TRUE in phase 2, where land calls AUTO.LAND (set_land_handler)
    MaxCmds       \* bound: calls that B receives in one behaviour

(* How the translation of an action ends: a goal; an unknown code; a goal  *)
(* outside the boundary (GoalGenError); the land code; an exception other  *)
(* than GoalGenError (a null "target", say, which backend-A lets through). *)
Kinds == {"fly", "unknown", "oob", "land", "malformed"}

ASSUME PlansAssumption == Plans \subseteq Seq(Kinds)
ASSUME LandHandlerAssumption == LandHandler \in BOOLEAN
ASSUME MaxCmdsAssumption == MaxCmds \in Nat

VARIABLES
    cmds,     \* calls received so far; the number of a call names its plan
    plan,     \* state.current_action_plan
    idx,      \* state.current_action_index
    status,   \* state.small_model_status
    safety,   \* _merged_safety: the plan whose overrides it holds, 0 = None
    goal,     \* _current_goal
    event,    \* the last event handed to the event sender
    ipcLand,  \* the IPC thread is about to call a land handler for this call
    pub,      \* where the publisher thread is in check_arrival_and_advance
    seen,     \* the publisher's local copy of the goal it compared
    pubLand,  \* the publisher is about to call the land handler for this plan
    landed    \* calls for which a land handler has been called

planVars == <<plan, idx, status, safety, goal, event>>
pubVars  == <<pub, seen, pubLand>>
vars     == <<cmds, planVars, ipcLand, pubVars, landed>>

NoPlan == [id |-> 0, acts |-> << >>]
NoGoal == [kind |-> "none", id |-> 0, at |-> 0, under |-> 0]
HoverGoal == [kind |-> "hover", id |-> 0, at |-> 0, under |-> 0]
ActionGoal(p, i, s) == [kind |-> "action", id |-> p.id, at |-> i, under |-> s]

Report(type, p, cur, tot) == [type |-> type, id |-> p.id, cur |-> cur, tot |-> tot]

(* The action that index i of plan p names.                                *)
KindAt(p, i) == p.acts[i + 1]

(* The translation of this action stops the plan: rejected, or AUTO.LAND.  *)
Stops(kind) == kind \in {"unknown", "oob"} \/ (kind = "land" /\ LandHandler)

(* The translation of this action yields a goal (in phase 1 land does).    *)
Flies(kind) == kind = "fly" \/ (kind = "land" /\ ~LandHandler)

Init ==
    /\ cmds = 0
    /\ plan = NoPlan
    /\ idx = 0
    /\ status = "idle"
    /\ safety = 0
    /\ goal = NoGoal
    /\ event = Report("none", NoPlan, 0, 0)
    /\ ipcLand = 0
    /\ pub = "check"
    /\ seen = NoGoal
    /\ pubLand = 0
    /\ landed = {}

-------------------------------------------------------------------------------
(* Mistake: a rejected action leaves the status as it was.                 *)
GenerateRejectStays(p, i, st, s) ==
    LET kind == KindAt(p, i) IN
    \/ /\ Flies(kind)
       /\ goal' = ActionGoal(p, i, s)
       /\ event' = Report("executing", p, i + 1, Len(p.acts))
       /\ status' = st
    \/ /\ Stops(kind)
       /\ goal' = NoGoal
       /\ event' = Report("reject", p, i, 0)
       /\ status' = st
    \/ /\ kind = "malformed"
       /\ status' = st
       /\ UNCHANGED <<goal, event>>

(* Mistake: the index goes up as it is, the first action being number 0.   *)
GenerateReportsIndex(p, i, st, s) ==
    LET kind == KindAt(p, i) IN
    \/ /\ Flies(kind)
       /\ goal' = ActionGoal(p, i, s)
       /\ event' = Report("executing", p, i, Len(p.acts))
       /\ status' = st
    \/ /\ Stops(kind)
       /\ goal' = NoGoal
       /\ event' = Report("reject", p, i, 0)
       /\ status' = "idle"
    \/ /\ kind = "malformed"
       /\ status' = st
       /\ UNCHANGED <<goal, event>>

(* _generate_next_goal for action i of plan p, in the critical section of  *)
(* the caller, whose status is st and merged constraints are s.  The two   *)
(* callers never pass an index past the end of the plan (an empty list is  *)
(* turned away before, an advance tests the index first), so the branch    *)
(* for that index is not here.  A malformed action raises: the section     *)
(* ends with goal and event as they were.                                  *)
GenerateNextGoal(p, i, st, s) ==
    LET kind == KindAt(p, i) IN
    \/ /\ Flies(kind)
       /\ goal' = ActionGoal(p, i, s)
       /\ event' = Report("executing", p, i + 1, Len(p.acts))
       /\ status' = st
    \/ /\ kind \in {"unknown", "oob"}
       /\ goal' = NoGoal
       /\ event' = Report("reject", p, i, 0)
       /\ status' = "idle"
    \/ /\ kind = "land" /\ LandHandler
       /\ goal' = NoGoal
       /\ event' = Report("completed", p, i + 1, Len(p.acts))
       /\ status' = "idle"
    \/ /\ kind = "malformed"
       /\ status' = st
       /\ UNCHANGED <<goal, event>>

(* The land handler the caller has to run once it has released the lock.   *)
LandPending(p, i) ==
    IF KindAt(p, i) = "land" /\ LandHandler THEN p.id ELSE 0

(* The IPC thread handles one frame at a time, land handlers included.     *)
IpcFree == ipcLand = 0 /\ cmds < MaxCmds

(* Mistake: an empty list is taken for a plan, complete at once.           *)
GenerateGoalEmpty(acts) ==
    LET p == [id |-> cmds + 1, acts |-> acts] IN
    /\ IpcFree
    /\ cmds' = cmds + 1
    /\ safety' = p.id
    /\ plan' = p
    /\ idx' = 0
    /\ IF acts = << >>
       THEN /\ status' = "idle" /\ goal' = NoGoal
            /\ event' = Report("completed", p, 0, 0)
            /\ UNCHANGED ipcLand
       ELSE /\ GenerateNextGoal(p, 0, "executing", p.id)
            /\ ipcLand' = LandPending(p, 0)
    /\ UNCHANGED <<pubVars, landed>>

(* Mistake: the first action is translated before the constraints are      *)
(* merged.                                                                 *)
GenerateGoalThenMerge(acts) ==
    LET p == [id |-> cmds + 1, acts |-> acts] IN
    /\ IpcFree
    /\ acts # << >>
    /\ cmds' = cmds + 1
    /\ plan' = p
    /\ idx' = 0
    /\ GenerateNextGoal(p, 0, "executing", safety)
    /\ safety' = p.id
    /\ ipcLand' = LandPending(p, 0)
    /\ UNCHANGED <<pubVars, landed>>

(* handle("generate_goal"): an empty list is refused with nothing changed. *)
GenerateGoal(acts) ==
    LET p == [id |-> cmds + 1, acts |-> acts] IN
    /\ IpcFree
    /\ cmds' = cmds + 1
    /\ IF acts = << >>
       THEN UNCHANGED <<planVars, ipcLand>>
       ELSE /\ safety' = p.id
            /\ plan' = p
            /\ idx' = 0
            /\ GenerateNextGoal(p, 0, "executing", p.id)
            /\ ipcLand' = LandPending(p, 0)
    /\ UNCHANGED <<pubVars, landed>>

(* Mistake: the abort does not clear the goal.                             *)
AbortKeepsGoal ==
    /\ IpcFree
    /\ cmds' = cmds + 1
    /\ plan' = NoPlan /\ idx' = 0 /\ status' = "idle" /\ safety' = 0
    /\ ipcLand' = cmds + 1
    /\ UNCHANGED <<goal, event, pubVars, landed>>

(* Mistake: the abort clears the goal only, not the plan.                  *)
AbortKeepsPlan ==
    /\ IpcFree
    /\ cmds' = cmds + 1
    /\ status' = "idle" /\ goal' = NoGoal
    /\ ipcLand' = cmds + 1
    /\ UNCHANGED <<plan, idx, safety, event, pubVars, landed>>

(* handle("abort"), then the abort handler of the dispatcher outside the   *)
(* lock (emergency_land of the adapter).                                   *)
Abort ==
    /\ IpcFree
    /\ cmds' = cmds + 1
    /\ plan' = NoPlan
    /\ idx' = 0
    /\ status' = "idle"
    /\ safety' = 0
    /\ goal' = NoGoal
    /\ ipcLand' = cmds + 1
    /\ UNCHANGED <<event, pubVars, landed>>

(* handle("hover"): a call from A or a disconnection on the IPC thread, or *)
(* the shutdown of the lifecycle on the main thread.                       *)
Hover(thread) ==
    /\ cmds < MaxCmds
    /\ thread = "ipc" => ipcLand = 0
    /\ cmds' = cmds + 1
    /\ plan' = NoPlan
    /\ idx' = 0
    /\ status' = "hovering"
    /\ safety' = 0
    /\ goal' = HoverGoal
    /\ event' = Report("hovering", NoPlan, 0, 0)
    /\ UNCHANGED <<ipcLand, pubVars, landed>>

(* The IPC thread calls the handler it took, the lock released.            *)
IpcCallLand ==
    /\ ipcLand # 0
    /\ landed' = landed \cup {ipcLand}
    /\ ipcLand' = 0
    /\ UNCHANGED <<cmds, planVars, pubVars>>

-------------------------------------------------------------------------------
(* Mistake: no goal is taken for a goal that is reached.                   *)
CheckArrivalAlways ==
    /\ pub = "check"
    /\ seen' = goal
    /\ pub' = "arrived"
    /\ UNCHANGED <<cmds, planVars, ipcLand, pubLand, landed>>

(* The publisher reads the goal under the lock, releases it, and finds the *)
(* position of this tick within the threshold of it.  (The step that finds *)
(* no goal, or the drone still away, changes nothing.)                     *)
CheckArrival ==
    /\ pub = "check"
    /\ goal # NoGoal
    /\ seen' = goal
    /\ pub' = "arrived"
    /\ UNCHANGED <<cmds, planVars, ipcLand, pubLand, landed>>

(* The second critical section of check_arrival_and_advance while B hovers *)
(* leaves everything alone.                                                *)
ArriveHovering ==
    /\ pub = "arrived"
    /\ status = "hovering"
    /\ pub' = "check"
    /\ seen' = NoGoal
    /\ UNCHANGED <<cmds, planVars, ipcLand, pubLand, landed>>

(* Mistake: the goal of the last action stays.                             *)
CompletePlanKeepsGoal ==
    /\ idx + 1 >= Len(plan.acts)
    /\ idx' = idx + 1
    /\ status' = "idle"
    /\ event' = Report("completed", plan, Len(plan.acts), Len(plan.acts))
    /\ pub' = "check" /\ pubLand' = 0
    /\ UNCHANGED <<plan, safety, goal>>

(* Mistake: the status stays executing when the plan is complete.          *)
CompletePlanExecuting ==
    /\ idx + 1 >= Len(plan.acts)
    /\ idx' = idx + 1
    /\ goal' = NoGoal
    /\ event' = Report("completed", plan, Len(plan.acts), Len(plan.acts))
    /\ pub' = "check" /\ pubLand' = 0
    /\ UNCHANGED <<plan, safety, status>>

(* _advance_action past the last action.                                   *)
CompletePlan ==
    /\ idx + 1 >= Len(plan.acts)
    /\ idx' = idx + 1
    /\ status' = "idle"
    /\ goal' = NoGoal
    /\ event' = Report("completed", plan, Len(plan.acts), Len(plan.acts))
    /\ pub' = "check"
    /\ pubLand' = 0
    /\ UNCHANGED <<plan, safety>>

(* Mistake: the land handler an advance came to is not taken.              *)
NextActionForgetsLand ==
    /\ idx + 1 < Len(plan.acts)
    /\ idx' = idx + 1
    /\ GenerateNextGoal(plan, idx + 1, status, safety)
    /\ pubLand' = 0
    /\ pub' = "check"
    /\ UNCHANGED <<plan, safety>>

(* _advance_action to the next action, under the constraints kept.         *)
NextAction ==
    /\ idx + 1 < Len(plan.acts)
    /\ idx' = idx + 1
    /\ GenerateNextGoal(plan, idx + 1, status, safety)
    /\ pubLand' = LandPending(plan, idx + 1)
    /\ pub' = IF pubLand' = 0 THEN "check" ELSE "land"
    /\ UNCHANGED <<plan, safety>>

(* Mistake: the second section does not test for hovering.                 *)
ArriveAdvanceAnyStatus ==
    /\ pub = "arrived"
    /\ CompletePlan \/ NextAction
    /\ seen' = NoGoal
    /\ UNCHANGED <<cmds, ipcLand, landed>>

(* The second critical section otherwise: the plan it advances is the one  *)
(* the state holds now, whatever goal the comparison was made with.        *)
ArriveAdvance ==
    /\ pub = "arrived"
    /\ status # "hovering"
    /\ CompletePlan \/ NextAction
    /\ seen' = NoGoal
    /\ UNCHANGED <<cmds, ipcLand, landed>>

(* The publisher calls the land handler it took, the lock released.        *)
PubCallLand ==
    /\ pub = "land"
    /\ landed' = landed \cup {pubLand}
    /\ pubLand' = 0
    /\ pub' = "check"
    /\ UNCHANGED <<cmds, planVars, ipcLand, seen>>

-------------------------------------------------------------------------------
Threads == {"ipc", "main"}

Next ==
    \/ \E acts \in Plans : GenerateGoal(acts)
    \/ Abort
    \/ \E t \in Threads : Hover(t)
    \/ IpcCallLand
    \/ CheckArrival
    \/ ArriveHovering
    \/ ArriveAdvance
    \/ PubCallLand

(* The threads keep running: B's IPC loop and its 20 Hz publisher have no  *)
(* step they can be kept from for ever.  Fairness of CheckArrival is an    *)
(* assumption on the vehicle too: a goal that stays is reached in the end. *)
Fairness ==
    /\ WF_vars(IpcCallLand)
    /\ WF_vars(ArriveHovering)
    /\ WF_vars(ArriveAdvance)
    /\ WF_vars(PubCallLand)
    /\ WF_vars(CheckArrival)

Spec == Init /\ [][Next]_vars

FairSpec == Spec /\ Fairness
-------------------------------------------------------------------------------
PlanIds == 0 .. cmds
Goals == [kind : {"none", "hover", "action"}, id : Nat, at : Nat, under : Nat]
Events == [type : {"none", "executing", "completed", "reject", "hovering"},
           id : Nat, cur : Nat, tot : Nat]

(* The type of the state.                                                  *)
TypeOK ==
    /\ cmds \in 0 .. MaxCmds
    /\ plan \in [id : PlanIds, acts : Seq(Kinds)]
    /\ (plan.id = 0) <=> (plan.acts = << >>)
    /\ idx \in Nat
    /\ status \in {"idle", "executing", "hovering"}
    /\ safety \in PlanIds
    /\ goal \in Goals
    /\ event \in Events
    /\ ipcLand \in PlanIds
    /\ pub \in {"check", "arrived", "land"}
    /\ seen \in Goals
    /\ pubLand \in PlanIds
    /\ landed \subseteq PlanIds

HasPlan == plan.id # 0
Current == KindAt(plan, idx)

(* The last translation attempt raised: the goal is what was left of the   *)
(* one before.                                                             *)
GoalLeftOver == HasPlan /\ idx < Len(plan.acts) /\ Current = "malformed"

(* The goal the publisher flies to is that of the action the plan stands   *)
(* at: never of a plan an abort, a hover or a newer call has replaced, and *)
(* never of an action already left behind.  The one exception is an action *)
(* whose translation raised.                                               *)
GoalMatchesPlan ==
    goal.kind = "action" =>
        /\ HasPlan
        /\ idx < Len(plan.acts)
        /\ \/ goal.id = plan.id /\ goal.at = idx /\ Flies(Current)
           \/ GoalLeftOver

(* A goal is clamped to the constraints of its own plan, kept across every *)
(* advance: never to those of the plan before or to the defaults an abort  *)
(* left behind.                                                            *)
GoalUnderOwnSafety ==
    goal.kind = "action" => goal.under = goal.id

(* B calls itself executing only with an action in hand that it flies or   *)
(* whose translation raised: it never waits for an arrival at nothing.     *)
ExecutingIsBacked ==
    status = "executing" =>
        /\ HasPlan
        /\ idx < Len(plan.acts)
        /\ \/ Flies(Current) /\ goal.kind = "action"
           \/ GoalLeftOver

(* What A was last told agrees with what B flies: the action and the       *)
(* length of the plan, whatever was aborted or replaced on the way.        *)
ReportMatchesFlight ==
    (goal.kind = "action" /\ ~GoalLeftOver) =>
        event = Report("executing", plan, idx + 1, Len(plan.acts))

(* Flying an action while the status says idle takes a plan whose first    *)
(* action was rejected or was a landing, moved on by a late arrival.       *)
IdleFlightOnlyRevived ==
    (status = "idle" /\ goal.kind = "action") => idx > 0 /\ Stops(plan.acts[1])

(* Hovering ends by a call only, never because the drone is, of course,    *)
(* at the point where it hovers.                                           *)
HoverHolds ==
    [][(status = "hovering" /\ status' # "hovering") => cmds' > cmds]_vars

(* An action is left behind once the drone was seen at its own goal, or    *)
(* when its translation raised.  When the plan was replaced between the    *)
(* comparison and the advance the first action, and no other, can be left  *)
(* behind unflown; and never two at once.                                  *)
OnlyFirstActionAtRisk ==
    [][(HasPlan /\ plan' = plan /\ idx' # idx) =>
          /\ idx' = idx + 1
          /\ idx = 0 \/ seen = ActionGoal(plan, idx, plan.id) \/ GoalLeftOver]_vars

(* SmallModel implements Mission.                                          *)
Flying == status = "executing" \/ goal.kind = "action"

M == INSTANCE Mission WITH
        issued <- cmds,
        order  <- plan.id,
        len    <- Len(plan.acts),
        step   <- IF HasPlan THEN idx ELSE 0,
        phase  <- IF status = "hovering" THEN "hovering"
                  ELSE IF Flying THEN "flying" ELSE "idle"

ImplementsMission == M!Spec

-------------------------------------------------------------------------------
(* A plan whose actions all translate is flown to its end unless a call    *)
(* replaces it: B does not stay executing for ever.                        *)
PlanEnds ==
    \A n \in 1 .. MaxCmds :
        (plan.id = n /\ status = "executing" /\ \A i \in DOMAIN plan.acts : plan.acts[i] # "malformed")
            ~> (plan.id # n \/ status # "executing")

(* A plan that ends in a landing commands AUTO.LAND, from whichever thread *)
(* reached the landing, unless a call replaces it or an action stops it.   *)
LandingIsCommanded ==
    \A n \in 1 .. MaxCmds :
        ( /\ plan.id = n /\ status = "executing" /\ LandHandler
          /\ plan.acts[Len(plan.acts)] = "land"
          /\ \A i \in 1 .. Len(plan.acts) - 1 : plan.acts[i] = "fly" )
            ~> (plan.id # n \/ n \in landed)

-------------------------------------------------------------------------------
(* small_model/component.py:57-60 says that, every writer being one        *)
(* critical section, the first action of a new plan is not skipped: it is  *)
(* left behind only when the drone was seen at its goal.                   *)
FirstActionNotSkipped ==
    [][(HasPlan /\ plan' = plan /\ idx = 0 /\ idx' = 1) =>
          seen = ActionGoal(plan, 0, plan.id)]_vars
===============================================================================
