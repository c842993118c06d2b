------------------------------- MODULE Command --------------------------------
(***************************************************************************)
(* The way of an instruction through backend-A to backend-B: the proposals *)
(* of the beta agent and what a human says to it, the queue of the alpha   *)
(* loop, its translation, the call over the link, and the events B answers *)
(* with.  backend-A is one asyncio thread: a step is what runs between two *)
(* awaits that really suspend, the translations, the sleeps and the wait   *)
(* for a frame.  (The locks are never contended, and writing a frame does  *)
(* not suspend.)                                                           *)
(*                                                                         *)
(* Abstracted: an instruction is a model value, the strings drained        *)
(* together are a set, and a plan is there or not; the pre-translated      *)
(* actions and the name of a proposal; the sessions, but for which drafts  *)
(* were begun before the last switch.  backend-B keeps what SmallModel     *)
(* shows of it: the status it has, or reported last, and the events it     *)
(* sends.  The two sides of the link notice its loss in their own time,    *)
(* both before it comes back.                                              *)
(***************************************************************************)
EXTENDS Naturals, Sequences

CONSTANTS
    Says,       \* what humans say to the beta agent
    Proposals,  \* proposals of the beta agent
    None,       \* no proposal, nothing said
    MaxChan,    \* bound: calls under way when alpha sends another
    MaxBack,    \* bound: events under way when B goes on
    MaxBreaks   \* bound: losses of the link

Intents == Says \cup Proposals

ASSUME IntentsAssumption == Says \cap Proposals = {} /\ None \notin Intents
ASSUME BoundsAssumption == {MaxChan, MaxBack, MaxBreaks} \subseteq Nat

VARIABLES
    lastHuman,  \* state.last_human_message_to_beta
    drafting,   \* proposals whose pre-translation is under way
    pending,    \* state.pending_proposal
    fate,       \* history: what became of each proposal
    queue,      \* state.alpha_input_queue
    pc,         \* where AlphaLoop is: asleep, or in _translate
    batch,      \* the instructions it translates
    aplan,      \* there is a state.current_action_plan
    flight,     \* state.flight_status
    aUp, bUp,   \* each side has a connection
    chan, back, \* calls to B and events to A
    stale,      \* history: A could not send, or B stopped by itself
    breaks,     \* losses of the link
    bstatus,    \* small_model_status, executing also when revived
    bplan,      \* B has a plan
    bfirst,     \* B's plan stopped at its first action
    mute,       \* B took a plan up and has not reported it
    arrived     \* B has found the drone at its goal, and waits for the lock

propVars == <<lastHuman, drafting, pending, fate>>
alphaVars == <<queue, pc, batch, aplan, flight>>
linkVars == <<aUp, bUp, breaks>>
bVars    == <<bstatus, bplan, bfirst, mute, arrived>>
vars == <<propVars, alphaVars, linkVars, chan, back, stale, bVars>>

(* AppState and the component at the start, B connected.                   *)
Init ==
    /\ lastHuman = None
    /\ drafting = {}
    /\ pending = None
    /\ fate = [p \in Proposals |-> "new"]
    /\ queue = {}
    /\ pc = "sleep"
    /\ batch = {}
    /\ aplan = FALSE
    /\ flight = "idle"
    /\ aUp = TRUE
    /\ bUp = TRUE
    /\ chan = << >>
    /\ back = << >>
    /\ stale = FALSE
    /\ breaks = 0
    /\ bstatus = "idle"
    /\ bplan = FALSE
    /\ bfirst = FALSE
    /\ mute = FALSE
    /\ arrived = FALSE

-------------------------------------------------------------------------------
(* A human writes to the beta agent.                                       *)
Chat(h) ==
    /\ lastHuman' = h
    /\ UNCHANGED <<drafting, pending, fate, alphaVars, linkVars, chan, back,
                   stale, bVars>>

(* forward_last_human_message: what was said last, as often as the agent   *)
(* calls the tool.  Said again, it is wanted again.                        *)
Forward ==
    /\ lastHuman # None
    /\ queue' = queue \cup {lastHuman}
    /\ UNCHANGED <<propVars, pc, batch, aplan, flight, linkVars, chan, back,
                   stale, bVars>>

(* propose_to_alpha up to its pre-translation.                             *)
ProposeStart(p) ==
    /\ fate[p] = "new"
    /\ fate' = [fate EXCEPT ![p] = "open"]
    /\ drafting' = drafting \cup {p}
    /\ UNCHANGED <<lastHuman, pending, alphaVars, linkVars, chan, back, stale,
                   bVars>>

(* A proposal that loses its place unanswered can no longer be approved.   *)
Closed(ps) ==
    [p \in Proposals |->
        IF p \in ps /\ fate[p] \in {"open", "left"} THEN "closed" ELSE fate[p]]

Granted(f) == IF f \in {"open", "left"} THEN "approved" ELSE f

(* A switch of tasks closes what is pending, and leaves drafts behind.     *)
Left(ps) ==
    [p \in Proposals |-> IF p \in ps THEN "left" ELSE Closed({pending})[p]]

(* propose_to_alpha after it: whatever was pending is replaced.            *)
ProposeFinish(p) ==
    /\ p \in drafting
    /\ drafting' = drafting \ {p}
    /\ pending' = p
    /\ fate' = Closed({pending})
    /\ UNCHANGED <<lastHuman, alphaVars, linkVars, chan, back, stale, bVars>>

(* Mistake: the claim does not clear the pending proposal.                 *)
ApproveUnclaimed(p) ==
    /\ pending = p
    /\ fate' = [fate EXCEPT ![p] = Granted(@)]
    /\ queue' = queue \cup {p}
    /\ UNCHANGED <<lastHuman, drafting, pending, pc, batch, aplan, flight,
                   linkVars, chan, back, stale, bVars>>

(* POST /proposals/p/approve: claimed, then queued, unless its text is too *)
(* long.                                                                   *)
Approve(p) ==
    /\ pending = p
    /\ pending' = None
    /\ \/ /\ fate' = [fate EXCEPT ![p] = Granted(@)]
          /\ queue' = queue \cup {p}
       \/ /\ fate' = Closed({p})
          /\ UNCHANGED queue
    /\ UNCHANGED <<lastHuman, drafting, pc, batch, aplan, flight, linkVars,
                   chan, back, stale, bVars>>

(* POST /proposals/p/reject.                                               *)
Reject(p) ==
    /\ pending = p
    /\ pending' = None
    /\ fate' = Closed({p})
    /\ UNCHANGED <<lastHuman, drafting, alphaVars, linkVars, chan, back, stale,
                   bVars>>

(* The pending proposal goes with the task it was made for.                *)
LeaveTask ==
    /\ pending' = None
    /\ fate' = Left(drafting)
    /\ UNCHANGED <<lastHuman, drafting, alphaVars, linkVars, chan, back, stale,
                   bVars>>

(* POST /sessions, and DELETE of the current one (of another one it leaves *)
(* this state alone).                                                      *)
CreateTask == LeaveTask
DeleteTask == LeaveTask

(* POST /sessions/id/activate: another task, or the current one again.     *)
ActivateTask ==
    \/ LeaveTask
    \/ /\ pending' = None
       /\ fate' = Closed({pending})
       /\ UNCHANGED <<lastHuman, drafting, alphaVars, linkVars, chan, back,
                      stale, bVars>>

-------------------------------------------------------------------------------
(* bus_router.call to small_model: written when there is a connection,     *)
(* refused when there is none.                                             *)
Send(call) ==
    /\ chan' = IF aUp THEN Append(chan, call) ELSE chan
    /\ stale' = ~aUp

(* _send_hover.                                                            *)
SendHover == flight' = "hovering" /\ Send("hover")

(* Bound of the calls alpha sends by itself.                               *)
MaySend == Len(chan) < MaxChan

(* Bound of the aborts under way: one, on top of those.                    *)
OneAbort == \A k \in 1..Len(chan) : chan[k] # "abort"

(* An abort as the history of the proposals sees it.                       *)
Overtaken(ps) ==
    [p \in Proposals |->
        IF p \in ps /\ fate[p] = "approved" THEN "overtaken" ELSE fate[p]]

(* Mistake: an abort is for this process only.                             *)
AbortNotSent ==
    /\ OneAbort
    /\ flight' = "aborted"
    /\ aplan' = FALSE
    /\ fate' = Overtaken(queue \cup batch)
    /\ UNCHANGED <<lastHuman, drafting, pending, queue, pc, batch, linkVars,
                   chan, back, stale, bVars>>

(* POST /sessions/id/abort.                                                *)
Abort ==
    /\ OneAbort
    /\ flight' = "aborted"
    /\ aplan' = FALSE
    /\ Send("abort")
    /\ fate' = Overtaken(queue \cup batch)
    /\ UNCHANGED <<lastHuman, drafting, pending, queue, pc, batch, linkVars,
                   back, bVars>>

(* _tick with something in the queue, up to the await of _translate.       *)
TickTranslate ==
    /\ pc = "sleep"
    /\ queue # {}
    /\ pc' = "translating"
    /\ batch' = queue
    /\ queue' = {}
    /\ UNCHANGED <<propVars, aplan, flight, linkVars, chan, back, stale,
                   bVars>>

(* Mistake: a state that is not flying is taken for a safe one.            *)
TickHoverUnlessAborted ==
    /\ pc = "sleep"
    /\ queue = {}
    /\ ~aplan
    /\ flight # "aborted"
    /\ MaySend
    /\ SendHover
    /\ UNCHANGED <<propVars, queue, pc, batch, aplan, linkVars, back, bVars>>

(* _tick with an empty queue and no plan: the safe default.  (With a plan  *)
(* it does nothing.)                                                       *)
TickHover ==
    /\ pc = "sleep"
    /\ queue = {}
    /\ ~aplan
    /\ MaySend
    /\ SendHover
    /\ UNCHANGED <<propVars, queue, pc, batch, aplan, linkVars, back, bVars>>

(* A dispatch as the history of the proposals sees it.                     *)
Sending(ps) ==
    [p \in Proposals |->
        IF p \notin ps \/ ~aUp THEN fate[p]
        ELSE IF fate[p] \in {"approved", "overtaken"} THEN "closed"
        ELSE "wrong"]

(* Mistake: the queue is cleared when the translation is done, not when    *)
(* it is taken up.                                                         *)
TranslateClearsQueue ==
    /\ pc = "translating"
    /\ MaySend
    /\ pc' = "sleep"
    /\ batch' = {}
    /\ queue' = {}
    /\ aplan' = TRUE
    /\ Send("action")
    /\ fate' = Sending(batch)
    /\ flight' = IF aUp THEN "executing" ELSE "hovering"
    /\ UNCHANGED <<lastHuman, drafting, pending, linkVars, back, bVars>>

(* The translation comes back with a plan: it replaces the one in hand and *)
(* is dispatched; without a connection the answer is a hover, refused too. *)
TranslateOk ==
    /\ pc = "translating"
    /\ MaySend
    /\ pc' = "sleep"
    /\ batch' = {}
    /\ aplan' = TRUE
    /\ Send("action")
    /\ fate' = Sending(batch)
    /\ flight' = IF aUp THEN "executing" ELSE "hovering"
    /\ UNCHANGED <<lastHuman, drafting, pending, queue, linkVars, back, bVars>>

(* It fails or times out: _loop sends a hover; the plan in hand stays.     *)
TranslateFail ==
    /\ pc = "translating"
    /\ MaySend
    /\ pc' = "sleep"
    /\ batch' = {}
    /\ SendHover
    /\ UNCHANGED <<propVars, queue, aplan, linkVars, back, bVars>>

Alpha == TickTranslate \/ TickHover \/ TranslateOk \/ TranslateFail

(* Mistake: every event is taken for a status.                             *)
HandleStatusAny ==
    /\ aUp
    /\ back # << >>
    /\ flight' = Head(back)
    /\ back' = Tail(back)
    /\ UNCHANGED <<propVars, queue, pc, batch, aplan, linkVars, chan, stale,
                   bVars>>

(* A status event of B, whatever plan it is about.                         *)
HandleStatus ==
    /\ aUp
    /\ back # << >>
    /\ Head(back) # "reject"
    /\ flight' = Head(back)
    /\ back' = Tail(back)
    /\ UNCHANGED <<propVars, queue, pc, batch, aplan, linkVars, chan, stale,
                   bVars>>

(* Mistake: a reject is shown and nothing else.                            *)
HandleRejectShown ==
    /\ aUp
    /\ back # << >>
    /\ Head(back) = "reject"
    /\ back' = Tail(back)
    /\ UNCHANGED <<propVars, alphaVars, linkVars, chan, stale, bVars>>

(* A reject event: no plan, and a hover.                                   *)
HandleReject ==
    /\ aUp
    /\ back # << >>
    /\ Head(back) = "reject"
    /\ back' = Tail(back)
    /\ aplan' = FALSE
    /\ SendHover
    /\ UNCHANGED <<propVars, queue, pc, batch, linkVars, bVars>>

HandleEvent == HandleStatus \/ HandleReject

-------------------------------------------------------------------------------
(* Bound of the events under way when B goes on.                           *)
MayReport == Len(back) < MaxBack

(* What B does with an action call: it flies the first action, rejects it, *)
(* lands, or raises in its translation, which A never hears of.            *)
TakeUp ==
    /\ bplan' = TRUE
    /\ \/ /\ bstatus' = "executing"
          /\ bfirst' = FALSE
          /\ mute' = FALSE
          /\ back' = Append(back, "executing")
       \/ /\ bstatus' = "idle"
          /\ bfirst' = TRUE
          /\ mute' = FALSE
          /\ \E e \in {"reject", "completed"} : back' = Append(back, e)
       \/ /\ bstatus' = "executing"
          /\ bfirst' = FALSE
          /\ mute' = TRUE
          /\ UNCHANGED back

(* An abort: no plan, and no event.                                        *)
Stop ==
    /\ bplan' = FALSE
    /\ bstatus' = "idle"
    /\ bfirst' = FALSE
    /\ mute' = FALSE
    /\ UNCHANGED back

(* A hover, reported while there is a connection to report it on.          *)
HoverNow(evs) ==
    /\ bplan' = FALSE
    /\ bstatus' = "hovering"
    /\ bfirst' = FALSE
    /\ mute' = FALSE
    /\ back' = back \o evs

(* B handles the next call (dispatch._handle_call).                        *)
BHandle ==
    /\ bUp
    /\ chan # << >>
    /\ MayReport
    /\ chan' = Tail(chan)
    /\ \/ Head(chan) = "action" /\ TakeUp
       \/ Head(chan) = "abort" /\ Stop
       \/ Head(chan) = "hover" /\ HoverNow(<<"hovering">>)
    /\ UNCHANGED <<propVars, alphaVars, linkVars, stale, arrived>>

(* The drone is where the goal is that B has at this moment: that of an    *)
(* action or of a hover.                                                   *)
BArrives ==
    /\ ~arrived
    /\ bstatus # "idle"
    /\ arrived' = TRUE
    /\ UNCHANGED <<propVars, alphaVars, linkVars, chan, back, stale, bstatus, bplan,
                   bfirst, mute>>

(* The next action is flown, or the plan ends with it, by its last action, *)
(* a landing or a reject, or its translation raises.  A plan that stopped  *)
(* at its first action may be revived this way.                            *)
NextAction ==
    /\ bplan
    /\ bfirst' = FALSE
    /\ \/ /\ bstatus' = "executing"
          /\ mute' = FALSE
          /\ back' = Append(back, "executing")
       \/ /\ bstatus' = "idle"
          /\ mute' = FALSE
          /\ \E e \in {"reject", "completed"} : back' = Append(back, e)
       \/ UNCHANGED <<bstatus, mute, back>>

(* An abort came in between: no plan is left, and that is reported as its  *)
(* completion.                                                             *)
NothingLeft ==
    /\ ~bplan
    /\ bstatus' = "idle"
    /\ back' = Append(back, "completed")
    /\ UNCHANGED <<bfirst, mute>>

(* What comes after the arrival, whatever B has been told since: nothing   *)
(* while it hovers.                                                        *)
BAdvance ==
    /\ arrived
    /\ MayReport
    /\ arrived' = FALSE
    /\ \/ bstatus = "hovering" /\ UNCHANGED <<bstatus, bfirst, mute, back>>
       \/ bstatus # "hovering" /\ (NextAction \/ NothingLeft)
    /\ UNCHANGED <<propVars, alphaVars, linkVars, chan, stale, bplan>>

-------------------------------------------------------------------------------
Up == aUp /\ bUp

(* The connection breaks, which one side notices first and the other side  *)
(* later.                                                                  *)
Breaks ==
    IF Up THEN breaks < MaxBreaks /\ breaks' = breaks + 1 ELSE UNCHANGED breaks

(* B notices: what it has not read is gone, and it hovers by itself.       *)
BLoses ==
    /\ bUp
    /\ Breaks
    /\ bUp' = FALSE
    /\ chan' = << >>
    /\ HoverNow(<< >>)
    /\ stale' = TRUE
    /\ UNCHANGED <<propVars, alphaVars, aUp, arrived>>

(* A notices: what it has not read is gone; plan and status stay.          *)
ALoses ==
    /\ aUp
    /\ Breaks
    /\ aUp' = FALSE
    /\ back' = << >>
    /\ stale' = TRUE
    /\ UNCHANGED <<propVars, alphaVars, bUp, chan, bVars>>

(* B connects again.                                                       *)
Reconnect ==
    /\ ~aUp /\ ~bUp
    /\ aUp' = TRUE
    /\ bUp' = TRUE
    /\ chan' = << >>
    /\ back' = << >>
    /\ UNCHANGED <<propVars, alphaVars, breaks, stale, bVars>>

Human == (\E h \in Says : Chat(h))
         \/ (\E p \in Proposals : Approve(p) \/ Reject(p))
         \/ CreateTask \/ ActivateTask \/ DeleteTask \/ Abort

Beta == Forward \/ (\E p \in Proposals : ProposeStart(p) \/ ProposeFinish(p))

Link == BLoses \/ ALoses \/ Reconnect

Next == Human \/ Beta \/ Alpha \/ HandleEvent \/ BHandle \/ BArrives \/ BAdvance \/ Link

Spec == Init /\ [][Next]_vars

(* The loop goes on, frames are read, a lost link is noticed.  Humans, the *)
(* beta agent and the drone owe nothing.  Where fairness is strong, it is  *)
(* because one of the bounds may disable the step for a moment, which      *)
(* nothing in the code does.                                               *)
FairSpec ==
    /\ Spec
    /\ SF_vars(Alpha)
    /\ WF_vars(HandleEvent)
    /\ SF_vars(BHandle)
    /\ WF_vars(~aUp /\ BLoses)
    /\ WF_vars(~bUp /\ ALoses)
    /\ WF_vars(Reconnect)

-------------------------------------------------------------------------------
Fates == {"new", "open", "left", "approved", "overtaken", "closed", "wrong"}

Statuses == {"idle", "executing", "completed", "hovering", "aborted"}

TypeOK ==
    /\ lastHuman \in Says \cup {None}
    /\ drafting \subseteq Proposals
    /\ pending \in Proposals \cup {None}
    /\ fate \in [Proposals -> Fates]
    /\ queue \subseteq Intents
    /\ pc \in {"sleep", "translating"}
    /\ batch \subseteq Intents
    /\ flight \in Statuses
    /\ {aplan, aUp, bUp, stale, bplan, bfirst, mute, arrived} \subseteq BOOLEAN
    /\ chan \in Seq({"action", "abort", "hover"})
    /\ back \in Seq({"executing", "completed", "hovering", "reject"})
    /\ breaks \in 0..MaxBreaks
    /\ bstatus \in {"idle", "executing", "hovering"}

(* A proposal is carried to B at most once, and only when a human has      *)
(* approved it before it was turned down, replaced, or left behind with    *)
(* its task.                                                               *)
ConsentedOnce == \A p \in Proposals : fate[p] # "wrong"

Quiet == Up /\ chan = << >> /\ back = << >>

(* When every message has been read, A shows a plan being flown exactly    *)
(* when B has one under way: no status that was overtaken by an order or a *)
(* reject, on either side, leaves a lasting difference.  (Not between an   *)
(* abort or a reject and the hover that alpha sends next, not after a loss *)
(* of the link until A sends again, since B does not report its hover, and *)
(* not when B has raised on a plan without a word.)                        *)
QuietAgreement ==
    (Quiet /\ aplan /\ ~stale /\ ~mute)
        => (flight = "executing" <=> bstatus = "executing")

(* Without a plan at A there is none at B, once B has read every call: a   *)
(* plan that was aborted or rejected is stopped whatever the order of the  *)
(* calls and events under way.                                             *)
RevokedPlanStops == (Up /\ chan = << >> /\ ~aplan) => ~bplan

(* An instruction that is queued is translated: none is lost because       *)
(* another one is being translated, fails, or is aborted.                  *)
QueuedIsTranslated == \A h \in Says : (h \in queue) ~> (h \in batch)

(* Without a plan B is made to hover, the abort included, unless A gets a  *)
(* plan or the link is lost.                                               *)
SafeDefault ==
    (~aplan /\ Up) ~> (bstatus = "hovering" \/ aplan \/ ~Up)

-------------------------------------------------------------------------------
(* 2026-07-02-后端A-design.md:329-330 says that an abort clears the queue  *)
(* of alpha as well: an instruction given before an abort is not carried   *)
(* out after it.                                                           *)
AbortIsFinal ==
    [][\A p \in Proposals : fate[p] = "overtaken" => fate'[p] # "closed"]_vars

(* routes.py:176 and 234 say that a proposal is not approved across tasks: *)
(* what is pending was proposed for the current task.                      *)
TaskOwnProposal == pending # None => fate[pending] # "left"
===============================================================================
