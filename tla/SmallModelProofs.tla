--------------------------- MODULE SmallModelProofs ---------------------------
(***************************************************************************)
(* Proofs about SmallModel, for every set of plans and any number of       *)
(* calls.                                                                  *)
(***************************************************************************)
EXTENDS SmallModel, GoalGen, TLAPS

USE PlansAssumption, LandHandlerAssumption, MaxCmdsAssumption

-------------------------------------------------------------------------------
(* Type correctness.                                                       *)

(* Whatever the translation of an action comes to, goal, event and status  *)
(* keep their types.                                                       *)
LEMMA GenerateTypes ==
    ASSUME TypeOK,
           NEW p \in [id : Nat, acts : Seq(Kinds)], NEW i \in Nat, i < Len(p.acts),
           NEW st \in {"idle", "executing", "hovering"}, NEW s \in Nat,
           GenerateNextGoal(p, i, st, s)
    PROVE  /\ goal' \in Goals
           /\ event' \in Events
           /\ status' \in {"idle", "executing", "hovering"}
  <1>1. NoGoal \in Goals /\ ActionGoal(p, i, s) \in Goals
    BY DEF NoGoal, ActionGoal, Goals
  <1>2. /\ Report("executing", p, i + 1, Len(p.acts)) \in Events
        /\ Report("completed", p, i + 1, Len(p.acts)) \in Events
        /\ Report("reject", p, i, 0) \in Events
    BY DEF Report, Events
  <1> QED
    BY <1>1, <1>2 DEF GenerateNextGoal, TypeOK

(* A thread is left with the land handler of the plan at hand, or none.    *)
LEMMA LandPendingType ==
    ASSUME NEW p, NEW i
    PROVE  LandPending(p, i) \in {0, p.id}
  BY DEF LandPending

(* The initial state of __init__ is of the declared types.                 *)
LEMMA InitTypes == Init => TypeOK
  BY DEF Init, TypeOK, NoPlan, NoGoal, Report, PlanIds, Goals, Events, Kinds

(* Every step of every thread keeps the types, one action at a time.       *)
LEMMA NextTypes == TypeOK /\ [Next]_vars => TypeOK'
  <1> SUFFICES ASSUME TypeOK, [Next]_vars PROVE TypeOK'
    OBVIOUS
  <1>1. ASSUME NEW acts \in Plans, GenerateGoal(acts) PROVE TypeOK'
    <2> DEFINE p == [id |-> cmds + 1, acts |-> acts]
    <2>1. CASE acts = << >>
      BY <1>1, <2>1 DEF GenerateGoal, IpcFree, TypeOK, planVars, pubVars, PlanIds
    <2>2. CASE acts # << >>
      <3>1. /\ p \in [id : Nat, acts : Seq(Kinds)]
            /\ Len(p.acts) > 0
        BY <2>2 DEF TypeOK
      <3>2. GenerateNextGoal(p, 0, "executing", p.id)
        BY <1>1, <2>2 DEF GenerateGoal
      <3>3. goal' \in Goals /\ event' \in Events /\ status' \in {"idle", "executing", "hovering"}
        BY <3>1, <3>2, GenerateTypes
      <3>4. ipcLand' \in {0, p.id}
        BY <1>1, <2>2, LandPendingType DEF GenerateGoal
      <3> QED
        BY <1>1, <2>2, <3>1, <3>3, <3>4 DEF GenerateGoal, IpcFree, TypeOK, pubVars, PlanIds
    <2> QED
      BY <2>1, <2>2
  <1>2. ASSUME Abort PROVE TypeOK'
    BY <1>2 DEF Abort, IpcFree, TypeOK, pubVars, PlanIds, NoPlan, NoGoal, Goals
  <1>3. ASSUME NEW t \in Threads, Hover(t) PROVE TypeOK'
    BY <1>3 DEF Hover, TypeOK, pubVars, PlanIds, NoPlan, HoverGoal, Goals, Events, Report
  <1>4. ASSUME IpcCallLand PROVE TypeOK'
    BY <1>4 DEF IpcCallLand, TypeOK, planVars, pubVars, PlanIds
  <1>5. ASSUME CheckArrival PROVE TypeOK'
    BY <1>5 DEF CheckArrival, TypeOK, planVars, PlanIds
  <1>6. ASSUME ArriveHovering PROVE TypeOK'
    BY <1>6 DEF ArriveHovering, TypeOK, planVars, PlanIds, NoGoal, Goals
  <1>7. ASSUME ArriveAdvance PROVE TypeOK'
    <2>1. seen' \in Goals
      BY <1>7 DEF ArriveAdvance, NoGoal, Goals
    <2>2. CASE CompletePlan
      BY <1>7, <2>1, <2>2 DEF ArriveAdvance, CompletePlan, TypeOK, PlanIds, NoGoal, Goals, Events, Report
    <2>3. CASE NextAction
      <3>1. plan \in [id : Nat, acts : Seq(Kinds)] /\ safety \in Nat /\ idx + 1 \in Nat
        BY DEF TypeOK, PlanIds
      <3>2. goal' \in Goals /\ event' \in Events /\ status' \in {"idle", "executing", "hovering"}
        BY <2>3, <3>1, GenerateTypes DEF NextAction, TypeOK
      <3>3. pubLand' \in {0, plan.id}
        BY <2>3, LandPendingType DEF NextAction
      <3> QED
        BY <1>7, <2>1, <2>3, <3>1, <3>2, <3>3 DEF ArriveAdvance, NextAction, TypeOK, PlanIds
    <2> QED
      BY <1>7, <2>2, <2>3 DEF ArriveAdvance
  <1>8. ASSUME PubCallLand PROVE TypeOK'
    BY <1>8 DEF PubCallLand, TypeOK, planVars, PlanIds
  <1>9. CASE UNCHANGED vars
    BY <1>9 DEF vars, planVars, pubVars, TypeOK, PlanIds
  <1> QED
    BY <1>1, <1>2, <1>3, <1>4, <1>5, <1>6, <1>7, <1>8, <1>9 DEF Next

(* Every state the threads can reach is of the declared types.             *)
THEOREM TypeCorrect == Spec => []TypeOK
  BY InitTypes, NextTypes, PTL DEF Spec
-------------------------------------------------------------------------------
(* The inductive invariant.  None of the safety invariants is inductive    *)
(* alone: they hold because the constraints kept are the plan's, because   *)
(* hovering comes with no plan, because a late arrival finds the plan at   *)
(* its first action, and because a plan that stands idle at its first      *)
(* action was stopped there.                                               *)

SafetyOfPlan == safety = plan.id

HoverGoalKept ==
    /\ goal.kind = "none" => goal = NoGoal
    /\ goal.kind = "hover" =>
          /\ goal = HoverGoal
          /\ status = "hovering" \/ (status = "executing" /\ GoalLeftOver)
    /\ status = "hovering" => plan = NoPlan /\ idx = 0 /\ goal = HoverGoal

LateArrivalAtFirst == pub = "arrived" => seen # NoGoal /\ (seen # goal => idx = 0)

StoppedAtFirst ==
    (HasPlan /\ status = "idle" /\ idx = 0) => Stops(plan.acts[1]) /\ goal = NoGoal

IInv ==
    /\ TypeOK
    /\ SafetyOfPlan
    /\ HoverGoalKept
    /\ GoalMatchesPlan
    /\ GoalUnderOwnSafety
    /\ ExecutingIsBacked
    /\ ReportMatchesFlight
    /\ LateArrivalAtFirst
    /\ StoppedAtFirst
    /\ IdleFlightOnlyRevived
(* The conjuncts of IInv other than the type, whose variables the steps    *)
(* outside the two kinds of critical sections leave alone.                 *)
PlanInv ==
    /\ SafetyOfPlan
    /\ HoverGoalKept
    /\ GoalMatchesPlan
    /\ GoalUnderOwnSafety
    /\ ExecutingIsBacked
    /\ ReportMatchesFlight
    /\ StoppedAtFirst
    /\ IdleFlightOnlyRevived

(* A step that leaves plan, index, status, goal and report alone keeps what *)
(* the invariant says of them.                                             *)
LEMMA PlanInvUnchanged == PlanInv /\ UNCHANGED planVars => PlanInv'
  BY DEF PlanInv, planVars, SafetyOfPlan, HoverGoalKept, GoalMatchesPlan, GoalUnderOwnSafety,
         ExecutingIsBacked, ReportMatchesFlight, StoppedAtFirst, IdleFlightOnlyRevived,
         HasPlan, Current, GoalLeftOver

(* Before the first call nothing is flown and nothing is reported.         *)
LEMMA InitInv == Init => IInv
  BY InitTypes
  DEF Init, IInv, NoPlan, NoGoal, Report, SafetyOfPlan, HoverGoalKept, GoalMatchesPlan,
      GoalUnderOwnSafety, ExecutingIsBacked, ReportMatchesFlight, LateArrivalAtFirst,
      StoppedAtFirst, IdleFlightOnlyRevived, HasPlan, GoalLeftOver

(* Translating action i of the plan now in hand re-establishes the         *)
(* invariant, provided the caller's status and the plan fit.               *)
LEMMA GeneratePlanInv ==
    ASSUME TypeOK, TypeOK', PlanInv,
           NEW p \in [id : Nat \ {0}, acts : Seq(Kinds)], NEW i \in Nat, i < Len(p.acts),
           NEW st \in {"idle", "executing"},
           GenerateNextGoal(p, i, st, p.id),
           plan' = p, idx' = i, safety' = p.id,
           i = 0 => st = "executing",
           st = "idle" => Stops(p.acts[1]) /\ status = "idle"
    PROVE  PlanInv'
  <1> DEFINE k == KindAt(p, i)
  <1>1. /\ HasPlan' /\ Current' = k /\ (idx < Len(plan.acts))' /\ i >= 0
        /\ GoalLeftOver' <=> k = "malformed"
    BY DEF HasPlan, Current, GoalLeftOver, KindAt
  <1>2. k \in Kinds
    BY DEF KindAt
  <1>3. CASE Flies(k)
    <2>1. /\ goal' = [kind |-> "action", id |-> p.id, at |-> i, under |-> p.id]
          /\ event' = Report("executing", p, i + 1, Len(p.acts)) /\ status' = st
      BY <1>3 DEF GenerateNextGoal, Flies, ActionGoal
    <2> QED
      BY <1>1, <1>3, <2>1
      DEF PlanInv, SafetyOfPlan, HoverGoalKept, GoalMatchesPlan, GoalUnderOwnSafety,
          ExecutingIsBacked, ReportMatchesFlight, StoppedAtFirst, IdleFlightOnlyRevived,
          NoGoal, Flies, Stops
  <1>4. CASE k \in {"unknown", "oob"} \/ (k = "land" /\ LandHandler)
    <2>1. goal' = NoGoal /\ status' = "idle" /\ Stops(k)
      BY <1>4 DEF GenerateNextGoal, Flies, Stops
    <2>2. i = 0 => k = p.acts[1]
      BY DEF KindAt
    <2> QED
      BY <1>1, <2>1, <2>2
      DEF PlanInv, SafetyOfPlan, HoverGoalKept, GoalMatchesPlan, GoalUnderOwnSafety,
          ExecutingIsBacked, ReportMatchesFlight, StoppedAtFirst, IdleFlightOnlyRevived,
          NoGoal
  <1>5. CASE k = "malformed"
    <2>1. goal' = goal /\ event' = event /\ status' = st
      BY <1>5 DEF GenerateNextGoal, Flies
    <2>2. goal.kind = "hover" => st = "executing"
      BY DEF PlanInv, HoverGoalKept
    <2> QED
      BY <1>1, <1>5, <2>1, <2>2
      DEF PlanInv, SafetyOfPlan, HoverGoalKept, GoalMatchesPlan, GoalUnderOwnSafety,
          ExecutingIsBacked, ReportMatchesFlight, StoppedAtFirst, IdleFlightOnlyRevived
  <1> QED
    BY <1>2, <1>3, <1>4, <1>5 DEF Kinds, Flies

(* The advance finds a plan stopped at its first action, or an action it   *)
(* has been flying: idle or not, what it does next is covered.             *)
LEMMA IdleAdvance ==
    IInv /\ pub = "arrived" /\ HasPlan /\ status = "idle" => Stops(plan.acts[1])
  BY DEF IInv, TypeOK, Goals, HoverGoalKept, LateArrivalAtFirst, StoppedAtFirst,
         IdleFlightOnlyRevived

(* The strengthened invariant is inductive: calls, aborts, hovers, arrivals *)
(* and land handlers keep it.                                              *)
LEMMA NextInv == IInv /\ [Next]_vars => IInv'
  <1> SUFFICES ASSUME IInv, [Next]_vars PROVE IInv'
    OBVIOUS
  <1> USE DEF IInv
  <1>0. TypeOK' /\ PlanInv
    BY NextTypes DEF PlanInv
  <1> SUFFICES PlanInv' /\ LateArrivalAtFirst'
    BY <1>0 DEF PlanInv
  <1>1. ASSUME NEW acts \in Plans, GenerateGoal(acts) PROVE PlanInv' /\ LateArrivalAtFirst'
    <2> DEFINE p == [id |-> cmds + 1, acts |-> acts]
    <2>1. CASE acts = << >>
      BY <1>0, <1>1, <2>1, PlanInvUnchanged DEF GenerateGoal, planVars, pubVars, LateArrivalAtFirst
    <2>2. CASE acts # << >>
      <3>1. p \in [id : Nat \ {0}, acts : Seq(Kinds)] /\ 0 < Len(p.acts)
        BY <2>2 DEF TypeOK
      <3>2. /\ plan' = p /\ idx' = 0 /\ safety' = p.id
            /\ GenerateNextGoal(p, 0, "executing", p.id)
            /\ UNCHANGED pubVars
        BY <1>1, <2>2 DEF GenerateGoal
      <3>3. PlanInv'
        BY <1>0, <3>1, <3>2, GeneratePlanInv
      <3>4. LateArrivalAtFirst'
        BY <3>2 DEF pubVars, LateArrivalAtFirst
      <3> QED
        BY <3>3, <3>4
    <2> QED
      BY <2>1, <2>2
  <1>2. ASSUME Abort PROVE PlanInv' /\ LateArrivalAtFirst'
    BY <1>2
    DEF Abort, pubVars, NoPlan, NoGoal, PlanInv, SafetyOfPlan, HoverGoalKept, GoalMatchesPlan,
        GoalUnderOwnSafety, ExecutingIsBacked, ReportMatchesFlight, LateArrivalAtFirst,
        StoppedAtFirst, IdleFlightOnlyRevived, HasPlan
  <1>3. ASSUME NEW t \in Threads, Hover(t) PROVE PlanInv' /\ LateArrivalAtFirst'
    BY <1>3
    DEF Hover, pubVars, NoPlan, HoverGoal, PlanInv, SafetyOfPlan, HoverGoalKept, GoalMatchesPlan,
        GoalUnderOwnSafety, ExecutingIsBacked, ReportMatchesFlight, LateArrivalAtFirst,
        StoppedAtFirst, IdleFlightOnlyRevived, HasPlan
  <1>4. ASSUME IpcCallLand PROVE PlanInv' /\ LateArrivalAtFirst'
    BY <1>0, <1>4, PlanInvUnchanged DEF IpcCallLand, planVars, pubVars, LateArrivalAtFirst
  <1>5. ASSUME CheckArrival PROVE PlanInv' /\ LateArrivalAtFirst'
    BY <1>0, <1>5, PlanInvUnchanged DEF CheckArrival, planVars, LateArrivalAtFirst
  <1>6. ASSUME ArriveHovering PROVE PlanInv' /\ LateArrivalAtFirst'
    BY <1>0, <1>6, PlanInvUnchanged DEF ArriveHovering, planVars, LateArrivalAtFirst
  <1>7. ASSUME ArriveAdvance PROVE PlanInv' /\ LateArrivalAtFirst'
    <2>1. LateArrivalAtFirst'
      BY <1>7 DEF ArriveAdvance, CompletePlan, NextAction, LateArrivalAtFirst
    <2>2. CASE CompletePlan
      BY <1>7, <2>1, <2>2
      DEF ArriveAdvance, CompletePlan, NoGoal, PlanInv, SafetyOfPlan, HoverGoalKept,
          GoalMatchesPlan, GoalUnderOwnSafety, ExecutingIsBacked, ReportMatchesFlight,
          StoppedAtFirst, IdleFlightOnlyRevived, TypeOK, HasPlan
    <2>3. CASE NextAction
      <3>1. /\ HasPlan
            /\ plan \in [id : Nat \ {0}, acts : Seq(Kinds)]
            /\ idx + 1 \in Nat /\ idx + 1 # 0 /\ idx + 1 < Len(plan.acts)
            /\ status \in {"idle", "executing"}
            /\ safety = plan.id
        BY <1>7, <2>3 DEF NextAction, ArriveAdvance, TypeOK, PlanIds, HasPlan, SafetyOfPlan
      <3>2. /\ plan' = plan /\ idx' = idx + 1 /\ safety' = plan.id
            /\ GenerateNextGoal(plan, idx + 1, status, plan.id)
        BY <2>3, <3>1 DEF NextAction
      <3>3. status = "idle" => Stops(plan.acts[1])
        BY <1>7, <3>1, IdleAdvance DEF ArriveAdvance
      <3> HIDE DEF IInv
      <3>4. TypeOK
        BY DEF IInv
      <3> QED
        BY <1>0, <2>1, <3>1, <3>2, <3>3, <3>4, GeneratePlanInv
    <2> QED
      BY <1>7, <2>2, <2>3 DEF ArriveAdvance
  <1>8. ASSUME PubCallLand PROVE PlanInv' /\ LateArrivalAtFirst'
    BY <1>0, <1>8, PlanInvUnchanged DEF PubCallLand, planVars, LateArrivalAtFirst
  <1>9. CASE UNCHANGED vars
    BY <1>0, <1>9, PlanInvUnchanged DEF vars, planVars, pubVars, LateArrivalAtFirst
  <1> QED
    BY <1>1, <1>2, <1>3, <1>4, <1>5, <1>6, <1>7, <1>8, <1>9 DEF Next


(* The strengthened invariant holds in every state the threads reach.      *)
LEMMA InvHolds == Spec => []IInv
  BY InitInv, NextInv, PTL DEF Spec

(* The publisher's goal is that of the action the plan stands at, however  *)
(* calls and arrivals interleave.                                          *)
THEOREM GoalMatchesPlanHolds == Spec => []GoalMatchesPlan
  BY InvHolds, PTL DEF IInv

(* The goal flown is clamped to the constraints of its own plan.           *)
THEOREM GoalUnderOwnSafetyHolds == Spec => []GoalUnderOwnSafety
  BY InvHolds, PTL DEF IInv

(* B that calls itself executing has an action in hand.                    *)
THEOREM ExecutingIsBackedHolds == Spec => []ExecutingIsBacked
  BY InvHolds, PTL DEF IInv

(* The last report agrees with the action that is flown.                   *)
THEOREM ReportMatchesFlightHolds == Spec => []ReportMatchesFlight
  BY InvHolds, PTL DEF IInv

(* Flight in status idle has one cause only.                               *)
THEOREM IdleFlightOnlyRevivedHolds == Spec => []IdleFlightOnlyRevived
  BY InvHolds, PTL DEF IInv

-------------------------------------------------------------------------------
(* Action properties.                                                      *)

(* A step that changes the index without replacing the plan is an advance  *)
(* of the publisher.                                                       *)
LEMMA IndexMoves ==
    ASSUME IInv, [Next]_vars, HasPlan, plan' = plan, idx' # idx
    PROVE  ArriveAdvance
  <1> USE DEF IInv, TypeOK, PlanIds, HasPlan
  <1>1. ASSUME NEW acts \in Plans, GenerateGoal(acts) PROVE FALSE
    BY <1>1 DEF GenerateGoal, IpcFree, planVars
  <1>2. ~Abort /\ \A t \in Threads : ~Hover(t)
    BY DEF Abort, Hover, NoPlan
  <1>3. ~IpcCallLand /\ ~CheckArrival /\ ~ArriveHovering /\ ~PubCallLand /\ ~(UNCHANGED vars)
    BY DEF IpcCallLand, CheckArrival, ArriveHovering, PubCallLand, vars, planVars
  <1> QED
    BY <1>1, <1>2, <1>3 DEF Next

(* At most the first action of a plan is left behind unflown, and only by  *)
(* an arrival that was compared with another goal.                         *)
THEOREM OnlyFirstActionAtRiskHolds == Spec => OnlyFirstActionAtRisk
  <1>1. ASSUME IInv, [Next]_vars, HasPlan, plan' = plan, idx' # idx
        PROVE  /\ idx' = idx + 1
               /\ idx = 0 \/ seen = ActionGoal(plan, idx, plan.id) \/ GoalLeftOver
    <2>1. ArriveAdvance
      BY <1>1, IndexMoves
    <2>2. idx' = idx + 1
      BY <2>1 DEF ArriveAdvance, CompletePlan, NextAction
    <2>3. ASSUME idx # 0 PROVE seen = ActionGoal(plan, idx, plan.id) \/ GoalLeftOver
      <3>1. seen = goal /\ goal # NoGoal /\ status # "hovering"
        BY <1>1, <2>1, <2>3 DEF ArriveAdvance, IInv, LateArrivalAtFirst
      <3>2. goal \in Goals
        BY <1>1 DEF IInv, TypeOK
      <3> QED
        BY <1>1, <3>1, <3>2
        DEF IInv, HoverGoalKept, GoalMatchesPlan, GoalUnderOwnSafety, ActionGoal, Goals
    <2> QED
      BY <2>2, <2>3
  <1>2. IInv /\ [Next]_vars =>
          [(HasPlan /\ plan' = plan /\ idx' # idx) =>
             /\ idx' = idx + 1
             /\ idx = 0 \/ seen = ActionGoal(plan, idx, plan.id) \/ GoalLeftOver]_vars
    BY <1>1
  <1> QED
    BY <1>2, InvHolds, PTL DEF Spec, OnlyFirstActionAtRisk

(* Hovering ends by a call only.                                           *)
THEOREM HoverHoldsHolds == Spec => HoverHolds
  <1>1. ASSUME IInv, [Next]_vars, status = "hovering", status' # "hovering"
        PROVE  cmds' > cmds
    <2> USE DEF IInv, TypeOK
    <2>1. ~ArriveAdvance
      BY <1>1 DEF ArriveAdvance
    <2>2. ~IpcCallLand /\ ~CheckArrival /\ ~ArriveHovering /\ ~PubCallLand /\ ~(UNCHANGED vars)
      BY <1>1 DEF IpcCallLand, CheckArrival, ArriveHovering, PubCallLand, vars, planVars
    <2>3. ASSUME NEW acts \in Plans, GenerateGoal(acts) PROVE cmds' > cmds
      BY <1>1, <2>3 DEF GenerateGoal
    <2>4. ASSUME Abort \/ \E t \in Threads : Hover(t) PROVE cmds' > cmds
      BY <1>1, <2>4 DEF Abort, Hover
    <2> QED
      BY <1>1, <2>1, <2>2, <2>3, <2>4 DEF Next
  <1>2. IInv /\ [Next]_vars => [(status = "hovering" /\ status' # "hovering") => cmds' > cmds]_vars
    BY <1>1
  <1> QED
    BY <1>2, InvHolds, PTL DEF Spec, HoverHolds

-------------------------------------------------------------------------------
(* Refinement.                                                             *)

(* What the translation of an action comes to, as Mission sees it.         *)
LEMMA GenerateFlying ==
    ASSUME IInv, NEW p, NEW i, NEW s, KindAt(p, i) \in Kinds,
           NEW st \in {"idle", "executing"},
           GenerateNextGoal(p, i, st, s)
    PROVE  status' \in {"idle", "executing"}
  BY DEF GenerateNextGoal

(* Every critical section is an order, an advance, an end or a stutter of  *)
(* Mission.                                                                *)
LEMMA StepImplements == IInv /\ [Next]_vars => [M!Next]_(M!vars)
  <1> SUFFICES ASSUME IInv, [Next]_vars PROVE [M!Next]_(M!vars)
    OBVIOUS
  <1> USE DEF IInv, TypeOK
  <1>1. ASSUME NEW acts \in Plans, GenerateGoal(acts) PROVE M!Next
    <2> DEFINE p == [id |-> cmds + 1, acts |-> acts]
    <2>1. CASE acts = << >>
      BY <1>1, <2>1 DEF GenerateGoal, planVars, M!Next, M!Refuse, HasPlan, Flying
    <2>2. CASE acts # << >>
      <3>1. /\ plan' = p /\ idx' = 0 /\ cmds' = cmds + 1
            /\ GenerateNextGoal(p, 0, "executing", p.id)
        BY <1>1, <2>2 DEF GenerateGoal
      <3>2. Len(acts) \in Nat \ {0} /\ KindAt(p, 0) \in Kinds
        BY <2>2 DEF KindAt
      <3>3. status' # "hovering"
        BY <3>1, <3>2, GenerateFlying
      <3> QED
        BY <3>1, <3>2, <3>3 DEF M!Next, M!Accept, HasPlan, Flying
    <2> QED
      BY <2>1, <2>2
  <1>2. ASSUME Abort PROVE M!Next
    BY <1>2 DEF Abort, NoPlan, NoGoal, M!Next, M!Revoke, HasPlan, Flying
  <1>3. ASSUME NEW t \in Threads, Hover(t) PROVE M!Next
    BY <1>3 DEF Hover, NoPlan, HoverGoal, M!Next, M!Revoke, HasPlan, Flying
  <1>4. ASSUME IpcCallLand \/ CheckArrival \/ ArriveHovering \/ PubCallLand \/ UNCHANGED vars
        PROVE UNCHANGED M!vars
    <2>1. UNCHANGED <<cmds, planVars>>
      BY <1>4 DEF IpcCallLand, CheckArrival, ArriveHovering, PubCallLand, vars
    <2> QED
      BY <2>1 DEF planVars, M!vars, HasPlan, Flying
  <1>5. ASSUME ArriveAdvance PROVE [M!Next]_(M!vars)
    <2>1. CASE ~HasPlan
      <3>1. CompletePlan
        BY <1>5, <2>1 DEF ArriveAdvance, NextAction, HasPlan
      <3>2. ~Flying /\ status # "hovering"
        BY <1>5, <2>1 DEF ArriveAdvance, Flying, ExecutingIsBacked, GoalMatchesPlan
      <3> QED
        BY <1>5, <2>1, <3>1, <3>2 DEF ArriveAdvance, CompletePlan, M!vars, HasPlan, Flying, NoGoal
    <2>2. CASE HasPlan
      <3>1. /\ plan' = plan /\ idx' = idx + 1 /\ cmds' = cmds
            /\ status # "hovering" /\ pub = "arrived"
        BY <1>5 DEF ArriveAdvance, CompletePlan, NextAction
      <3>2. Flying \/ idx = 0
        BY <3>1 DEF LateArrivalAtFirst, HoverGoalKept, Flying, Goals
      <3>3. idx < Len(plan.acts)
        BY <2>2, <3>2 DEF Flying, ExecutingIsBacked, GoalMatchesPlan, HasPlan
      <3>4. CASE CompletePlan
        BY <2>2, <3>1, <3>2, <3>3, <3>4
        DEF CompletePlan, M!Next, M!Advance, HasPlan, Flying, NoGoal
      <3>5. CASE NextAction
        <4>1. KindAt(plan, idx + 1) \in Kinds /\ idx + 1 < Len(plan.acts)
          BY <3>5 DEF NextAction, KindAt
        <4>2. status' # "hovering"
          BY <3>1, <3>5, <4>1, GenerateFlying DEF NextAction
        <4> QED
          BY <2>2, <3>1, <3>2, <3>3, <4>1, <4>2 DEF M!Next, M!Advance, HasPlan, Flying
      <3> QED
        BY <1>5, <3>4, <3>5 DEF ArriveAdvance
    <2> QED
      BY <2>1, <2>2
  <1> QED
    BY <1>1, <1>2, <1>3, <1>4, <1>5 DEF Next

(* The component keeps the promise Mission states: one order at a time,    *)
(* its actions once and in order, nothing after the last or a revocation.  *)
THEOREM Refinement == Spec => ImplementsMission
  <1>1. Init => M!Init
    BY DEF Init, M!Init, NoPlan, NoGoal, HasPlan, Flying
  <1> QED
    BY <1>1, StepImplements, InvHolds, PTL DEF Spec, ImplementsMission, M!Spec
-------------------------------------------------------------------------------
(* The translation of an action, for every position and every constraint.  *)

(* What _clamp_point's docstring promises: the result lies in the boundary *)
(* and no point of the boundary is nearer, axis by axis.                   *)
LEMMA ClampNearest ==
    ASSUME NEW lo \in Int, NEW hi \in Int, lo <= hi, NEW v \in Int
    PROVE  /\ Clamp(v, lo, hi) \in lo..hi
           /\ \A w \in lo..hi : \/ v <= Clamp(v, lo, hi) /\ Clamp(v, lo, hi) <= w
                                \/ w <= Clamp(v, lo, hi) /\ Clamp(v, lo, hi) <= v
                                \/ Clamp(v, lo, hi) = v
  BY DEF Clamp

(* A value between the bounds is left alone.                               *)
LEMMA ClampKeeps ==
    ASSUME NEW lo \in Int, NEW hi \in Int, NEW v \in lo..hi
    PROVE  Clamp(v, lo, hi) = v
  BY DEF Clamp

(* A point comes to the boundary, whichever it is.                         *)
LEMMA ClampPointInBox ==
    ASSUME NEW s \in Safeties, Ordered(s), NEW p \in Points
    PROVE  ClampPoint(p, s) \in Box(s)
  <1>1. ASSUME NEW i \in Axes
        PROVE  /\ ClampPoint(p, s)[i] \in Int
               /\ ClampPoint(p, s)[i] \in s.boundary.lo[i]..s.boundary.hi[i]
    <2>1. s.boundary.lo[i] \in Int /\ s.boundary.hi[i] \in Int /\ p[i] \in Int
      BY DEF Safeties, Points
    <2>2. s.boundary.lo[i] <= s.boundary.hi[i]
      BY DEF Ordered
    <2>3. Clamp(p[i], s.boundary.lo[i], s.boundary.hi[i])
            \in s.boundary.lo[i]..s.boundary.hi[i]
      BY <2>1, <2>2, ClampNearest
    <2>4. ClampPoint(p, s)[i] = Clamp(p[i], s.boundary.lo[i], s.boundary.hi[i])
      BY DEF ClampPoint
    <2> QED
      BY <2>1, <2>3, <2>4
  <1> QED
    BY <1>1 DEF ClampPoint, Box, Points

(* Between floor and ceiling is within the boundary when the constraints   *)
(* fit together: to set the height of a point of the boundary is safe.     *)
LEMMA AtHeightSafe ==
    ASSUME NEW s \in Safeties, Sane(s), NEW p \in Box(s),
           NEW h \in s.floor..s.ceiling
    PROVE  Safe(AtHeight(p, h), s)
  <1>1. /\ s.floor \in Int /\ s.ceiling \in Int
        /\ s.boundary.lo["z"] \in Int /\ s.boundary.hi["z"] \in Int
    BY DEF Safeties, Points, Axes
  <1>2. AtHeight(p, h)["z"] = h /\ h \in s.boundary.lo["z"]..s.boundary.hi["z"]
    BY <1>1 DEF AtHeight, Sane, Axes
  <1>3. \A i \in Axes : AtHeight(p, h)[i] \in s.boundary.lo[i]..s.boundary.hi[i]
    BY <1>2 DEF AtHeight, Box
  <1>4. AtHeight(p, h) \in Points
    BY <1>1 DEF AtHeight, Box, Points
  <1> QED
    BY <1>2, <1>3, <1>4 DEF Safe, Box

(* Floor and ceiling bound the height.                                     *)
LEMMA HeightBetween ==
    ASSUME NEW s \in Safeties, Sane(s), NEW h \in Int
    PROVE  Height(h, s) \in s.floor..s.ceiling
  BY ClampNearest DEF Height, Safeties, Sane

(* Every action but a turn aims at a safe point, whatever it asks for and  *)
(* wherever the drone is.                                                  *)
LEMMA AimSafe ==
    ASSUME NEW s \in Safeties, Sane(s), NEW cur \in Points, NEW home \in Points,
           NEW a \in Actions, a.code # "yaw"
    PROVE  Safe(Aim(a, cur, home, s), s)
  <1>1. Ordered(s) /\ s.floor \in Int /\ s.ceiling \in Int
    BY DEF Sane, Safeties
  <1>2. a.code \in Codes /\ a.point \in Points /\ a.value \in Int
    BY DEF Actions
  <1>3. ASSUME NEW p \in Points PROVE Safe(Into(p, s), s)
    <2>1. ClampPoint(p, s) \in Box(s)
      BY <1>1, ClampPointInBox
    <2>2. ClampPoint(p, s)["z"] \in Int
      BY <2>1 DEF Box, Points, Axes
    <2> QED
      BY <2>1, <2>2, HeightBetween, AtHeightSafe DEF Into
  <1>4. ASSUME NEW p \in Points, NEW h \in Int
        PROVE  Safe(AtHeight(ClampPoint(p, s), Height(h, s)), s)
    BY <1>1, ClampPointInBox, HeightBetween, AtHeightSafe
  <1>5. cur["z"] \in Int
    BY DEF Points, Axes
  <1>6. CASE a.code = "goto"
    BY <1>2, <1>3, <1>6 DEF Aim
  <1>7. CASE a.code = "takeoff"
    BY <1>2, <1>4, <1>7 DEF Aim, Above
  <1>8. CASE a.code = "land"
    <2> DEFINE p == AtHeight(home, s.floor)
    <2>1. p \in Points /\ p["z"] = s.floor
      BY <1>1 DEF AtHeight, Points, Axes
    <2>2. ClampPoint(p, s) \in Box(s)
      BY <1>1, <2>1, ClampPointInBox
    <2>3. s.floor \in s.boundary.lo["z"]..s.boundary.hi["z"]
      BY <1>1 DEF Sane, Safeties, Points, Axes
    <2>4. ClampPoint(p, s)["z"] = s.floor
      <3>1. ClampPoint(p, s)["z"]
              = Clamp(s.floor, s.boundary.lo["z"], s.boundary.hi["z"])
        BY <2>1 DEF ClampPoint, Axes
      <3>2. s.boundary.lo["z"] \in Int /\ s.boundary.hi["z"] \in Int
        BY DEF Safeties, Points, Axes
      <3> QED
        BY <2>3, <3>1, <3>2, ClampKeeps
    <2>5. s.floor \in s.floor..s.ceiling
      BY <1>1 DEF Sane
    <2> QED
      BY <1>8, <2>2, <2>4, <2>5 DEF Aim, Safe
  <1>9. CASE a.code = "move"
    <2>1. Shifted(cur, a.point) \in Points
      BY <1>2 DEF Shifted, Points
    <2> QED
      BY <1>3, <1>9, <2>1 DEF Aim
  <1>10. CASE a.code = "climb"
    BY <1>2, <1>4, <1>5, <1>10 DEF Aim, Rise
  <1>11. CASE a.code = "descend"
    BY <1>2, <1>4, <1>5, <1>11 DEF Aim, Rise
  <1>12. CASE a.code = "hover"
    BY <1>3, <1>12 DEF Aim
  <1>13. CASE a.code = "return_home"
    BY <1>3, <1>13 DEF Aim
  <1> QED
    BY <1>2, <1>6, <1>7, <1>8, <1>9, <1>10, <1>11, <1>12, <1>13 DEF Codes

(* A point of the boundary passes the final check.                         *)
LEMMA BoxAdmitted ==
    ASSUME NEW s \in Safeties, NEW p \in Box(s)
    PROVE  Admitted(p, s)
  <1>1. ASSUME NEW i \in Axes PROVE ClampPoint(p, s)[i] = p[i] /\ p[i] \in Int
    <2>1. s.boundary.lo[i] \in Int /\ s.boundary.hi[i] \in Int /\ p[i] \in Int
      BY DEF Safeties, Points, Box
    <2> QED
      BY <2>1, ClampKeeps DEF ClampPoint, Box
  <1> QED
    BY <1>1 DEF Admitted, Near, Tol

(* With constraints that fit together every action but a turn is accepted, *)
(* and its goal is in the boundary, between floor and ceiling: also for a  *)
(* drone that has drifted outside (the B-15 repair of hover, generalised   *)
(* to every code).                                                         *)
THEOREM GoalsAreSafe ==
    ASSUME NEW s \in Safeties, Sane(s), NEW cur \in Points, NEW home \in Points,
           NEW a \in Actions, a.code # "yaw"
    PROVE  \E p \in Points : Generate(a, cur, home, s) = {p} /\ Safe(p, s)
  <1>1. Safe(Aim(a, cur, home, s), s)
    BY AimSafe
  <1>2. Admitted(Aim(a, cur, home, s), s)
    BY <1>1, BoxAdmitted DEF Safe
  <1>3. Aim(a, cur, home, s) \in Points
    BY <1>1 DEF Safe, Box
  <1> QED
    BY <1>1, <1>2, <1>3 DEF Generate

(* Whatever constraints a call brings, floor and ceiling that contradict   *)
(* the boundary included, no goal leaves the boundary by more than the     *)
(* tolerance of the final check.                                           *)
THEOREM NoGoalOutside ==
    ASSUME NEW s \in Safeties, Ordered(s), NEW cur \in Points, NEW home \in Points,
           NEW a \in Actions, NEW p \in Generate(a, cur, home, s), p \in Points,
           NEW i \in Axes
    PROVE  p[i] \in (s.boundary.lo[i] - Tol)..(s.boundary.hi[i] + Tol)
  <1>1. Near(ClampPoint(p, s)[i], p[i])
    BY DEF Generate, Admitted
  <1>2. ClampPoint(p, s)[i] \in s.boundary.lo[i]..s.boundary.hi[i]
    BY ClampPointInBox DEF Box
  <1>3. s.boundary.lo[i] \in Int /\ s.boundary.hi[i] \in Int /\ p[i] \in Int
    BY DEF Safeties, Points
  <1> QED
    BY <1>1, <1>2, <1>3 DEF Near, Tol

(* The final check is reached in spite of the comment above it: a turn is  *)
(* refused exactly when the drone is outside the boundary by more than the *)
(* tolerance.                                                              *)
THEOREM TurnRefusedOutside ==
    ASSUME NEW s \in Safeties, Ordered(s), NEW cur \in Points, NEW home \in Points,
           NEW a \in Actions, a.code = "yaw"
    PROVE  Generate(a, cur, home, s) = {}
             <=> \E i \in Axes : cur[i] \notin (s.boundary.lo[i] - Tol)..(s.boundary.hi[i] + Tol)
  <1>1. Aim(a, cur, home, s) = cur
    BY DEF Aim
  <1>2. Generate(a, cur, home, s) = {} <=> ~Admitted(cur, s)
    BY <1>1 DEF Generate
  <1>3. ASSUME NEW i \in Axes
        PROVE  Near(ClampPoint(cur, s)[i], cur[i])
                 <=> cur[i] \in (s.boundary.lo[i] - Tol)..(s.boundary.hi[i] + Tol)
    <2>1. /\ s.boundary.lo[i] \in Int /\ s.boundary.hi[i] \in Int /\ cur[i] \in Int
          /\ s.boundary.lo[i] <= s.boundary.hi[i]
      BY DEF Safeties, Points, Ordered
    <2>2. ClampPoint(cur, s)[i] = Clamp(cur[i], s.boundary.lo[i], s.boundary.hi[i])
      BY DEF ClampPoint
    <2> QED
      BY <2>1, <2>2 DEF Clamp, Near, Tol
  <1> QED
    BY <1>2, <1>3 DEF Admitted

(* A floor above the boundary grounds the drone: no action but a landing   *)
(* or a turn is accepted, because the height was raised to the floor after *)
(* it had been brought into the boundary.                                  *)
THEOREM FloorAboveBoundaryRefuses ==
    ASSUME NEW s \in Safeties, Ordered(s), s.floor <= s.ceiling,
           s.boundary.hi["z"] + Tol < s.floor,
           NEW cur \in Points, NEW home \in Points,
           NEW a \in Actions, a.code \notin {"land", "yaw"}
    PROVE  Generate(a, cur, home, s) = {}
  <1>1. a.code \in Codes /\ a.point \in Points /\ a.value \in Int
    BY DEF Actions
  <1>2. /\ s.floor \in Int /\ s.ceiling \in Int /\ "z" \in Axes
        /\ s.boundary.lo["z"] \in Int /\ s.boundary.hi["z"] \in Int
        /\ s.boundary.lo["z"] <= s.boundary.hi["z"]
    BY DEF Safeties, Points, Axes, Ordered
  <1>3. ASSUME NEW p, NEW h \in Int
        PROVE  ~Admitted(AtHeight(p, Height(h, s)), s)
    <2> DEFINE q == AtHeight(p, Height(h, s))
    <2>1. q["z"] \in s.floor..s.ceiling
      BY <1>2, ClampNearest DEF AtHeight, Height
    <2>2. ClampPoint(q, s)["z"] = Clamp(q["z"], s.boundary.lo["z"], s.boundary.hi["z"])
      BY <1>2 DEF ClampPoint
    <2> HIDE DEF q
    <2>3. ClampPoint(q, s)["z"] = s.boundary.hi["z"]
      BY <1>2, <2>1, <2>2 DEF Clamp, Tol
    <2>4. ~Near(ClampPoint(q, s)["z"], q["z"])
      BY <1>2, <2>1, <2>3 DEF Near, Tol
    <2>5. ~Admitted(q, s)
      BY <1>2, <2>4 DEF Admitted
    <2> QED
      BY <2>5 DEF q
  <1>4. ASSUME NEW p \in Points PROVE ~Admitted(Into(p, s), s)
    <2>1. ClampPoint(p, s)["z"] \in Int
      BY <1>2, ClampPointInBox DEF Box
    <2> QED
      BY <1>3, <2>1 DEF Into
  <1>5. cur["z"] \in Int /\ Shifted(cur, a.point) \in Points
    BY <1>1, <1>2 DEF Points, Shifted
  <1>6. ~Admitted(Aim(a, cur, home, s), s)
    <2>1. CASE a.code \in {"goto", "move", "hover", "return_home"}
      BY <1>1, <1>4, <1>5, <2>1 DEF Aim
    <2>2. CASE a.code = "takeoff"
      BY <1>1, <1>3, <2>2 DEF Aim, Above
    <2>3. CASE a.code = "climb"
      BY <1>1, <1>3, <1>5, <2>3 DEF Aim, Rise
    <2>4. CASE a.code = "descend"
      BY <1>1, <1>3, <1>5, <2>4 DEF Aim, Rise
    <2> QED
      BY <1>1, <2>1, <2>2, <2>3, <2>4 DEF Codes
  <1> QED
    BY <1>6 DEF Generate
===============================================================================
