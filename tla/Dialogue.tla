------------------------------- MODULE Dialogue -------------------------------
(***************************************************************************)
(* The dialogue with the agent beta in the browser: the chat panel         *)
(* (ChatPanel.js) with the answer streams (sse.js) and the folded alerts,  *)
(* the proposals that come with the answers and their card on the planning *)
(* page (BetaPage.js), and the recording of the flown way, which a reset   *)
(* of the plan freezes (app.js, Scene3D.js).                               *)
(*                                                                         *)
(* Backend A is reduced to what the browser sees of it: it holds one       *)
(* proposal, which a tool of beta sets during a stream and a verdict       *)
(* takes; after the answer it sends the proposal it holds.                 *)
(*                                                                         *)
(* Abstracted: a message is its role and the question or the alert it is   *)
(* of; the tokens of an answer come in one piece; a plan is the number of  *)
(* its proposal, and its preview on the map is left out, for nothing else  *)
(* depends on it.  Of the flown way it is kept whether it has points, and  *)
(* whether poses or a load brought them.  A switch of tasks is one step,   *)
(* with an empty conversation on the other side (see Tasks).  The page is  *)
(* not mounted again while its last request for the waiting proposal is    *)
(* under way.                                                              *)
(***************************************************************************)
EXTENDS Integers, Sequences, FiniteSets

CONSTANTS
    Codes,         \* the codes of alerts
    MaxQuestions,  \* bound: questions
    MaxProposals,  \* bound: proposals of beta
    MaxRequests,   \* bound: verdicts under way
    MaxActs        \* bound: operations of the user, alerts and faults

ASSUME BoundsAssumption ==
    {MaxQuestions, MaxProposals, MaxRequests, MaxActs} \subseteq Nat

VARIABLES
    history,   \* chatHistory
    view,      \* the elements of the message container
    drawing,   \* how often the panel was drawn: which container it is
    folds,     \* _lastAlertMap
    streams,   \* the questions and their streams
    proposal,  \* A: the proposal that waits for a verdict
    made,      \* A: how many were made
    plan,      \* beta.currentPlan
    page,      \* the planning page is mounted
    card,      \* what its plan area shows
    restore,   \* the request for the waiting proposal
    requests,  \* the verdicts under way
    frozen,    \* trajectory.frozen
    flown,     \* trajectory.flown: "none", "loaded", or "live" points
    trail,     \* the buffer of the 3D view has points
    scene,     \* a live 3D view is mounted, and whether it draws any
    missed,    \* history: the card has lost the waiting proposal, or never had it
    acts       \* how many acts there were

chat == <<history, view, drawing, folds>>
atA == <<proposal, made>>
plans == <<plan, page, card, restore, requests, missed>>
way == <<flown, trail, scene>>
vars == <<chat, streams, atA, plans, frozen, way, acts>>

Questions == 1 .. MaxQuestions
Requests == 1 .. MaxRequests
None == 0
Proposals == 1 .. MaxProposals

Message(role, of, count) == [role |-> role, of |-> of, count |-> count]
NoFold == [count |-> 0, index |-> 0, element |-> 0, age |-> "old"]
NoStream ==
    [phase |-> "none", drawing |-> 0, element |-> 0, plan |-> None,
     torn |-> FALSE, doubled |-> FALSE, left |-> FALSE]
NoRequest == [verdict |-> "none", id |-> None, step |-> "none", area |-> FALSE]

Open(q) == streams[q].phase \in {"open", "planning", "planned", "errored"}

Acts == acts < MaxActs /\ acts' = acts + 1

Init ==
    /\ history = <<>> /\ view = <<>> /\ drawing = 0
    /\ folds = [c \in Codes |-> NoFold]
    /\ streams = [q \in Questions |-> NoStream]
    /\ proposal = None /\ made = 0
    /\ plan = None
    /\ page = FALSE /\ card = None
    /\ restore = [step |-> "none", id |-> None]
    /\ requests = [r \in Requests |-> NoRequest]
    /\ frozen = FALSE /\ flown = "none" /\ trail = FALSE
    /\ scene = [live |-> FALSE, drawn |-> FALSE]
    /\ missed = FALSE
    /\ acts = 0

-------------------------------------------------------------------------------
(* The chat panel.                                                         *)

(* Mistake: the folded alerts are kept when the panel is drawn anew.       *)
RenderWithFolds(messages) ==
    /\ view' = messages
    /\ drawing' = drawing + 1
    /\ streams' = [q \in Questions |->
                      IF Open(q) THEN [streams[q] EXCEPT !.torn = TRUE] ELSE streams[q]]
    /\ UNCHANGED folds

(* render: the stored messages in a new container, and no alert to fold    *)
(* into.  A stream goes on in the container it has.                        *)
Render(messages) ==
    /\ view' = messages
    /\ drawing' = drawing + 1
    /\ folds' = [c \in Codes |-> NoFold]
    /\ streams' = [q \in Questions |->
                      IF Open(q) THEN [streams[q] EXCEPT !.torn = TRUE] ELSE streams[q]]

(* _sendMessage: the question is stored, and shown with a placeholder for  *)
(* its answer.                                                             *)
Ask(q) ==
    /\ streams[q].phase = "none" /\ \A p \in 1 .. q - 1 : streams[p].phase # "none"
    /\ history' = Append(history, Message("human", q, 1))
    /\ view' = view \o <<Message("human", q, 1), Message("wait", q, 1)>>
    /\ streams' = [streams EXCEPT ![q] =
          [NoStream EXCEPT !.phase = "open", !.drawing = drawing, !.element = Len(view) + 2]]
    /\ UNCHANGED <<drawing, folds, atA, plans, frozen, way, acts>>

(* The panel is drawn anew before a question from elsewhere is sent        *)
(* ('chat-send').                                                          *)
ChatSend ==
    /\ Acts
    /\ Render(history)
    /\ UNCHANGED <<history, atA, plans, frozen, way>>

(* Another task: its conversation and its way take the place of the old    *)
(* ones, and A drops the old proposal.  Its plan stays, and so does the    *)
(* buffer of the 3D view.                                                  *)
SwitchTask ==
    /\ Acts
    /\ history' = <<>>
    /\ view' = <<>> /\ drawing' = drawing + 1
    /\ folds' = [c \in Codes |-> NoFold]
    /\ streams' = [q \in Questions |->
                      IF streams[q].phase = "none" THEN streams[q]
                      ELSE [streams[q] EXCEPT !.torn = TRUE, !.left = TRUE]]
    /\ flown' \in {"none", "loaded"}
    /\ proposal' = None
    /\ UNCHANGED <<made, plans, frozen, trail, scene>>

(* The final element takes the place of the placeholder; if that is gone,  *)
(* it goes to the end of its container, which may not be the one shown.    *)
Shown(q, of) ==
    LET s == streams[q]
    IN  IF s.drawing # drawing THEN view
        ELSE IF view[s.element].role = "wait"
        THEN [view EXCEPT ![s.element] = Message("agent", of, 1)]
        ELSE Append(view, Message("agent", of, 1))

Answered(q) ==
    /\ history' = Append(history, Message("agent", q, 1))
    /\ view' = Shown(q, q)

(* Mistake: the end of a stream counts as an answer after an error too.    *)
DoneAlways(q) ==
    /\ streams[q].phase \in {"open", "planned", "errored"}
    /\ streams[q].phase = "open" => proposal = None
    /\ Answered(q)
    /\ streams' = [streams EXCEPT ![q].phase = "ended"]
    /\ UNCHANGED <<drawing, folds, atA, plans, frozen, way, acts>>

(* The stream ends: onComplete, unless an error event came before.  A has  *)
(* sent its proposal, if it has one.                                       *)
Done(q) ==
    /\ streams[q].phase \in {"open", "planned", "errored"}
    /\ streams[q].phase = "open" => proposal = None
    /\ IF streams[q].phase = "errored" THEN UNCHANGED <<history, view>> ELSE Answered(q)
    /\ streams' = [streams EXCEPT ![q].phase = "ended"]
    /\ UNCHANGED <<drawing, folds, atA, plans, frozen, way, acts>>

(* An error event of A: an answer that says so.                            *)
ErrorEvent(q) ==
    /\ streams[q].phase = "open" /\ Acts
    /\ Answered(q)
    /\ streams' = [streams EXCEPT ![q].phase = "errored"]
    /\ missed' = (missed \/ proposal # None)
    /\ UNCHANGED <<drawing, folds, atA, plan, page, card, restore, requests, frozen, way>>

(* The request fails or the connection breaks: onError, even after an      *)
(* error event.                                                            *)
Drop(q) ==
    /\ Open(q) /\ Acts
    /\ Answered(q)
    /\ streams' = [streams EXCEPT ![q].phase = "ended",
                                  ![q].doubled = streams[q].phase = "errored"]
    /\ missed' = (missed \/ proposal # None)
    /\ UNCHANGED <<drawing, folds, atA, plan, page, card, restore, requests, frozen, way>>

-------------------------------------------------------------------------------
(* Alerts.                                                                 *)

(* _handleAlert: within a second of the last of its code an alert is       *)
(* dropped, within ten it is counted by that one's badge, in the container *)
(* and in the store; otherwise it is a message of its own.                 *)
Alert(c) ==
    LET f == folds[c]
    IN  /\ Acts
        /\ \/ /\ f.age = "now"
              /\ UNCHANGED <<history, view, folds>>
           \/ /\ f.age = "recent"
              /\ folds' = [folds EXCEPT ![c].count = @ + 1, ![c].age = "now"]
              /\ view' = [view EXCEPT ![f.element].count = f.count + 1]
              /\ history' = IF f.index \in DOMAIN history
                            THEN [history EXCEPT ![f.index].count = f.count + 1]
                            ELSE history
           \/ /\ f.age = "old"
              /\ history' = Append(history, Message("alert", c, 1))
              /\ view' = Append(view, Message("alert", c, 1))
              /\ folds' = [folds EXCEPT ![c] =
                    [count |-> 1, index |-> Len(history) + 1,
                     element |-> Len(view) + 1, age |-> "now"]]
        /\ UNCHANGED <<drawing, streams, atA, plans, frozen, way>>

(* Time passes: a second, or ten.                                          *)
Ages(c) ==
    /\ folds[c].age # "old"
    /\ folds' = [folds EXCEPT ![c].age = IF @ = "now" THEN "recent" ELSE "old"]
    /\ UNCHANGED <<history, view, drawing, streams, atA, plans, frozen, way, acts>>

-------------------------------------------------------------------------------
(* Proposals.                                                              *)

(* A tool of beta makes a proposal, in the course of a stream.             *)
Propose ==
    /\ \E q \in Questions : streams[q].phase = "open"
    /\ made < MaxProposals
    /\ made' = made + 1 /\ proposal' = made + 1
    /\ UNCHANGED <<chat, streams, plans, frozen, way, acts>>

(* A sends the proposal that waits, at the end of an answer.               *)
SendPlan(q) ==
    /\ streams[q].phase = "open" /\ proposal # None
    /\ streams' = [streams EXCEPT ![q].phase = "planning", ![q].plan = proposal]
    /\ UNCHANGED <<chat, atA, plans, frozen, way, acts>>

(* Another proposal than the one that waits.                               *)
Outdated(p) == proposal # None /\ p # proposal

(* 'plan-received': the mounted page shows the plan and ends the freeze;   *)
(* no other page does.  The plan of another stream may be newer.           *)
PlanReceived(q) ==
    LET p == streams[q].plan
    IN  /\ streams[q].phase = "planning"
        /\ streams' = [streams EXCEPT ![q].phase = "planned"]
        /\ IF page
           THEN plan' = p /\ card' = p /\ frozen' = FALSE /\ missed' = Outdated(p)
           ELSE UNCHANGED <<plan, card, frozen, missed>>
        /\ UNCHANGED <<chat, atA, page, restore, requests, way, acts>>

(* Mistake: the page shows the stored plan only.                           *)
MountWithoutRestore ==
    /\ ~page /\ Acts
    /\ restore.step = "none"
    /\ page' = TRUE /\ card' = plan
    /\ missed' = FALSE
    /\ UNCHANGED <<chat, streams, atA, plan, restore, requests, frozen, way>>

(* The page is mounted: the stored plan is shown, and A is asked for the   *)
(* waiting proposal.                                                       *)
MountPage ==
    /\ ~page /\ Acts
    /\ restore.step = "none"
    /\ page' = TRUE /\ card' = plan
    /\ missed' = FALSE
    /\ restore' = [step |-> "asked", id |-> None]
    /\ UNCHANGED <<chat, streams, atA, plan, requests, frozen, way>>

(* The page is left.  A verdict under way no longer reaches its card.      *)
UnmountPage ==
    /\ page /\ Acts
    /\ page' = FALSE /\ card' = None
    /\ requests' = [r \in Requests |-> [requests[r] EXCEPT !.area = FALSE]]
    /\ UNCHANGED <<chat, streams, atA, plan, restore, missed, frozen, way>>

RestoreHandled ==
    /\ restore.step = "asked"
    /\ restore' = [step |-> "answered", id |-> proposal]
    /\ UNCHANGED <<chat, streams, atA, plan, page, card, requests, missed,
                   frozen, way, acts>>

(* _restorePendingProposal: the proposal that waited when A was asked is   *)
(* taken unless it is shown already.                                       *)
RestoreAnswer ==
    LET p == restore.id
    IN  /\ restore.step = "answered"
        /\ restore' = [step |-> "none", id |-> None]
        /\ IF p = None \/ p = plan
           THEN UNCHANGED <<plan, card, missed>>
           ELSE plan' = p /\ card' = (IF page THEN p ELSE card) /\ missed' = Outdated(p)
        /\ UNCHANGED <<chat, streams, atA, page, requests, frozen, way, acts>>

RestoreFails ==
    /\ restore.step # "none" /\ Acts
    /\ restore' = [step |-> "none", id |-> None]
    /\ missed' = TRUE
    /\ UNCHANGED <<chat, streams, atA, plan, page, card, requests, frozen, way>>

(* The buttons of the card.  They are not disabled.                        *)
Click(verdict) ==
    /\ page /\ card \in Proposals /\ Acts
    /\ \E r \in Requests :
        /\ requests[r] = NoRequest /\ \A s \in 1 .. r - 1 : requests[s] # NoRequest
        /\ requests' = [requests EXCEPT ![r] =
              [verdict |-> verdict, id |-> card, step |-> "sent", area |-> TRUE]]
    /\ UNCHANGED <<chat, streams, atA, plan, page, card, restore, missed, frozen, way>>

(* A takes the proposal if it is the one that waits, and answers 404       *)
(* otherwise.                                                              *)
VerdictHandled(r) ==
    /\ requests[r].step = "sent"
    /\ IF proposal = requests[r].id
       THEN proposal' = None /\ requests' = [requests EXCEPT ![r].step = "done"]
       ELSE proposal' = proposal /\ requests' = [requests EXCEPT ![r].step = "gone"]
    /\ UNCHANGED <<chat, streams, made, plan, page, card, restore, missed,
                   frozen, way, acts>>

(* The answer clears the plan, whatever it is by now, and the card tells.  *)
VerdictAnswer(r) ==
    /\ requests[r].step \in {"done", "gone"}
    /\ plan' = None
    /\ card' = IF requests[r].area THEN None ELSE card
    /\ requests' = [requests EXCEPT ![r] = NoRequest]
    /\ missed' = (missed \/ proposal # None)
    /\ UNCHANGED <<chat, streams, atA, page, restore, frozen, way, acts>>

(* A verdict that fails replaces the card by the error.                    *)
VerdictFails(r) ==
    /\ requests[r] # NoRequest /\ Acts
    /\ card' = IF requests[r].area THEN None ELSE card
    /\ requests' = [requests EXCEPT ![r] = NoRequest]
    /\ missed' = TRUE
    /\ UNCHANGED <<chat, streams, atA, plan, page, restore, frozen, way>>

-------------------------------------------------------------------------------
(* The flown way.                                                          *)

(* Mistake: the buffer is cleared when the views stand again.              *)
ResetLate ==
    /\ page /\ Acts
    /\ plan' = None /\ card' = None
    /\ frozen' = TRUE /\ flown' = "none" /\ trail' = FALSE
    /\ scene' = [scene EXCEPT !.drawn = scene.live /\ trail]
    /\ missed' = TRUE
    /\ UNCHANGED <<chat, streams, atA, page, restore, requests>>

(* _resetPlan: the plan and the way are cleared, recording is frozen, and  *)
(* the views of the page are set up anew.  A keeps its proposal.           *)
Reset ==
    /\ page /\ Acts
    /\ plan' = None /\ card' = None
    /\ frozen' = TRUE /\ flown' = "none" /\ trail' = FALSE
    /\ scene' = [scene EXCEPT !.drawn = scene.live /\ trail']
    /\ missed' = TRUE
    /\ UNCHANGED <<chat, streams, atA, page, restore, requests>>

(* A pose while recording is not frozen: a point for the store, and one    *)
(* for the buffer if a live 3D view is mounted.                            *)
Pose ==
    /\ ~frozen
    /\ flown' = "live"
    /\ trail' = (trail \/ scene.live)
    /\ scene' = [scene EXCEPT !.drawn = scene.live]
    /\ UNCHANGED <<chat, streams, atA, plans, frozen, acts>>

(* 'alpha_output': a plan is under way.  Recording goes on, and the panel  *)
(* says so.                                                                *)
AlphaOutput ==
    /\ Acts
    /\ frozen' = FALSE
    /\ history' = Append(history, Message("system", 0, 1))
    /\ view' = Append(view, Message("system", 0, 1))
    /\ UNCHANGED <<drawing, folds, streams, atA, plans, way>>

(* A live 3D view is mounted, here or on another page: it draws the        *)
(* buffer.                                                                 *)
MountScene ==
    /\ ~scene.live
    /\ scene' = [live |-> TRUE, drawn |-> trail]
    /\ UNCHANGED <<chat, streams, atA, plans, frozen, flown, trail, acts>>

UnmountScene ==
    /\ scene.live
    /\ scene' = [live |-> FALSE, drawn |-> FALSE]
    /\ UNCHANGED <<chat, streams, atA, plans, frozen, flown, trail, acts>>

-------------------------------------------------------------------------------
Chat ==
    \/ \E q \in Questions : Ask(q) \/ Done(q) \/ ErrorEvent(q) \/ Drop(q)
    \/ ChatSend
    \/ SwitchTask
    \/ \E c \in Codes : Alert(c) \/ Ages(c)

Planning ==
    \/ Propose
    \/ \E q \in Questions : SendPlan(q) \/ PlanReceived(q)
    \/ MountPage
    \/ UnmountPage
    \/ RestoreHandled
    \/ RestoreAnswer
    \/ RestoreFails
    \/ \E verdict \in {"approve", "reject"} : Click(verdict)
    \/ \E r \in Requests : VerdictHandled(r) \/ VerdictAnswer(r) \/ VerdictFails(r)

Recording == Reset \/ Pose \/ AlphaOutput \/ MountScene \/ UnmountScene

Next == Chat \/ Planning \/ Recording

Spec == Init /\ [][Next]_vars

-------------------------------------------------------------------------------
Messages ==
    [role : {"human", "wait", "agent", "alert", "system"}, of : Codes \cup Nat, count : Nat]

TypeOK ==
    /\ history \in Seq(Messages) /\ view \in Seq(Messages)
    /\ drawing \in Nat
    /\ folds \in [Codes -> [count : Nat, index : Nat, element : Nat,
                             age : {"now", "recent", "old"}]]
    /\ streams \in [Questions ->
          [phase : {"none", "open", "planning", "planned", "errored", "ended"},
           drawing : Nat, element : Nat, plan : Nat,
           torn : BOOLEAN, doubled : BOOLEAN, left : BOOLEAN]]
    /\ proposal \in Nat /\ made \in Nat
    /\ plan \in Nat /\ card \in Nat
    /\ page \in BOOLEAN /\ missed \in BOOLEAN
    /\ restore \in [step : {"none", "asked", "answered"}, id : Nat]
    /\ requests \in [Requests ->
          [verdict : {"none", "approve", "reject"}, id : Nat,
           step : {"none", "sent", "done", "gone"}, area : BOOLEAN]]
    /\ frozen \in BOOLEAN /\ trail \in BOOLEAN
    /\ flown \in {"none", "loaded", "live"}
    /\ scene \in [live : BOOLEAN, drawn : BOOLEAN]
    /\ acts \in Nat

(* ChatPanel.js:217: an alert that is folded is counted by the message of  *)
(* its code, in the store and on the screen, whatever was added, drawn     *)
(* anew or exchanged in between; the counter never lands on another        *)
(* message.                                                                *)
AlertIndexed ==
    \A c \in Codes :
        folds[c] # NoFold /\ folds[c].age # "old" =>
            /\ folds[c].index \in DOMAIN history
            /\ history[folds[c].index] = Message("alert", c, folds[c].count)
            /\ folds[c].element \in DOMAIN view
            /\ view[folds[c].element] = Message("alert", c, folds[c].count)

Answers(messages, q) == Cardinality({i \in DOMAIN messages : messages[i] = Message("agent", q, 1)})

(* A question whose stream has ended has one answer in the conversation,   *)
(* unless the connection broke after an error event or the task was        *)
(* exchanged; and one on the screen, with no placeholder left, unless the  *)
(* panel was drawn anew while the answer was coming.                       *)
AnsweredOnce ==
    \A q \in Questions :
        LET s == streams[q]
        IN  s.phase = "ended" /\ ~s.doubled /\ ~s.left =>
                /\ Answers(history, q) = 1
                /\ ~s.torn => Answers(view, q) = 1 /\ Message("wait", q, 1) \notin
                                                          {view[i] : i \in DOMAIN view}

(* Nothing of a proposal is under way.                                     *)
Settled ==
    /\ restore.step = "none"
    /\ \A r \in Requests : requests[r] = NoRequest
    /\ \A q \in Questions : ~Open(q)

(* On the planning page, with nothing under way, the proposal that waits   *)
(* for a verdict is on the card: whether its stream or the request of the  *)
(* page brings it, in either order, and even if it came while the page was *)
(* not mounted.  Five things may take it off, or keep it off, until the    *)
(* page is mounted again or the proposal comes again: its stream broke, a  *)
(* request failed, a verdict on an older proposal was answered late, the   *)
(* plan was reset, or an older proposal came after it, by another stream   *)
(* or as the answer to a request that A handled before the new one was     *)
(* made (BetaPage.js:252-266).                                             *)
ProposalShown ==
    page /\ Settled /\ ~missed /\ proposal # None =>
        plan = proposal /\ card = proposal

(* The reset holds: while recording is frozen nothing of the way comes     *)
(* back, neither in the store, but by the load of a task, nor in the       *)
(* buffer of the 3D view, whatever is mounted or unmounted; and a live     *)
(* view always draws the buffer.                                           *)
ResetHolds ==
    /\ frozen => flown # "live" /\ ~trail
    /\ scene.live => scene.drawn = trail

(* Every stored answer is on the screen.  It does not hold: the answer of  *)
(* a stream that was open when the panel was drawn anew goes to the        *)
(* container that is gone.                                                 *)
AnswersVisible == \A q \in Questions : Answers(history, q) <= Answers(view, q)

(* The waiting proposal is never taken off the card but by a verdict on    *)
(* it.  It does not hold: an answer to the verdict on the last proposal    *)
(* clears the next one.                                                    *)
NoProposalLost ==
    [][\A r \in Requests :
        VerdictAnswer(r) /\ card = proposal /\ proposal # None => card' = card]_vars

(* Nor by what the page asked for when it was mounted.  It does not hold:  *)
(* A answers with a proposal, a newer one is made and shown, and then the  *)
(* answer comes in.                                                        *)
NewestStays ==
    [][RestoreAnswer /\ card = proposal /\ proposal # None => card' = card]_vars
===============================================================================
