---------------------------- MODULE DialogueProofs ----------------------------
(***************************************************************************)
(* Theorems about Dialogue, for any codes and any number of questions,     *)
(* proposals and requests.                                                 *)
(*                                                                         *)
(* ResetHolds is inductive with the types of the scene.  ProposalShown     *)
(* rests on WaitingKnown: a proposal that waits while the page is mounted  *)
(* is on the card already, or something is under way that brings it; and   *)
(* on RestoreKnown: what the page asked A for is the proposal that waits,  *)
(* or that one is still to come.                                           *)
(* AlertIndexed rests on messages keeping their place: they are added at   *)
(* the end, and what takes the place of another takes a placeholder's.     *)
(* AnsweredOnce rests on where the messages of a question stand: from the  *)
(* question to its answer its placeholder is in the one place its stream   *)
(* remembers, while its container is the one shown, and is never stored.   *)
(***************************************************************************)
EXTENDS Dialogue, SequenceTheorems, FiniteSetTheorems, TLAPS

USE BoundsAssumption

-------------------------------------------------------------------------------
(* The flown way.                                                          *)

WayTypes ==
    /\ {frozen, trail} \subseteq BOOLEAN
    /\ scene \in [live : BOOLEAN, drawn : BOOLEAN]

FrozenEmpty == frozen => flown # "live" /\ ~trail

SceneDraws == scene.live => scene.drawn = trail

(* Every step keeps the types of the way.                                  *)
LEMMA NextWayTypes == WayTypes /\ [Next]_vars => WayTypes'
<1> SUFFICES ASSUME WayTypes, [Next]_vars PROVE WayTypes'
  OBVIOUS
<1> USE DEF WayTypes
<1>1. CASE Chat
  BY <1>1 DEF Chat, Ask, Done, ErrorEvent, Drop, ChatSend, SwitchTask, Alert, Ages, way
<1>2. CASE Planning
  <2>1. UNCHANGED way /\ (UNCHANGED frozen \/ frozen' = FALSE)
    BY <1>2 DEF Planning, Propose, SendPlan, PlanReceived, MountPage, UnmountPage,
                RestoreHandled, RestoreAnswer, RestoreFails, Click, VerdictHandled,
                VerdictAnswer, VerdictFails
  <2> QED
    BY <2>1 DEF way
<1>3. CASE Recording
  <2>1. CASE Reset
    BY <2>1 DEF Reset
  <2>2. CASE Pose
    BY <2>2 DEF Pose
  <2>3. CASE AlphaOutput
    BY <2>3 DEF AlphaOutput, way
  <2>4. CASE MountScene \/ UnmountScene
    <3>1. \A a, b \in BOOLEAN : [live |-> a, drawn |-> b] \in [live : BOOLEAN, drawn : BOOLEAN]
      OBVIOUS
    <3>2. trail \in BOOLEAN
      BY Zenon
    <3>3. scene' \in [live : BOOLEAN, drawn : BOOLEAN]
      BY <2>4, <3>1, <3>2, Zenon DEF MountScene, UnmountScene
    <3> QED
      BY <2>4, <3>3, Zenon DEF MountScene, UnmountScene
  <2> QED
    BY <1>3, <2>1, <2>2, <2>3, <2>4 DEF Recording
<1>4. CASE UNCHANGED vars
  BY <1>4 DEF vars, way
<1> QED
  BY <1>1, <1>2, <1>3, <1>4 DEF Next

(* Every step keeps the reset.                                             *)
LEMMA NextReset ==
    WayTypes /\ FrozenEmpty /\ SceneDraws /\ [Next]_vars => FrozenEmpty' /\ SceneDraws'
<1> SUFFICES ASSUME WayTypes, FrozenEmpty, SceneDraws, [Next]_vars
             PROVE  FrozenEmpty' /\ SceneDraws'
  OBVIOUS
<1> USE DEF WayTypes, FrozenEmpty, SceneDraws
<1>1. CASE Chat
  <2>1. UNCHANGED <<frozen, trail, scene>> /\ (UNCHANGED flown \/ flown' \in {"none", "loaded"})
    BY <1>1 DEF Chat, Ask, Done, ErrorEvent, Drop, ChatSend, SwitchTask, Alert, Ages, way
  <2> QED
    BY <2>1
<1>2. CASE Planning
  <2>1. UNCHANGED way /\ (UNCHANGED frozen \/ frozen' = FALSE)
    BY <1>2 DEF Planning, Propose, SendPlan, PlanReceived, MountPage, UnmountPage,
                RestoreHandled, RestoreAnswer, RestoreFails, Click, VerdictHandled,
                VerdictAnswer, VerdictFails
  <2> QED
    BY <2>1 DEF way
<1>3. CASE Recording
  <2>1. CASE Reset
    BY <2>1 DEF Reset
  <2>2. CASE Pose
    BY <2>2 DEF Pose
  <2>3. CASE AlphaOutput
    BY <2>3 DEF AlphaOutput, way
  <2>4. CASE MountScene \/ UnmountScene
    BY <2>4 DEF MountScene, UnmountScene
  <2> QED
    BY <1>3, <2>1, <2>2, <2>3, <2>4 DEF Recording
<1>4. CASE UNCHANGED vars
  BY <1>4 DEF vars, way
<1> QED
  BY <1>1, <1>2, <1>3, <1>4 DEF Next

(* A reset of the plan holds: while recording is frozen nothing of the way *)
(* comes back but by the load of a task, and a live view draws the buffer  *)
(* (BetaPage.js:209-241, app.js:349, Scene3D.js:551-572).                  *)
THEOREM ResetIsKept == Spec => []ResetHolds
<1>1. Init => WayTypes /\ FrozenEmpty /\ SceneDraws
  <2> SUFFICES ASSUME Init PROVE WayTypes /\ FrozenEmpty /\ SceneDraws
    OBVIOUS
  <2>1. {frozen, trail} \subseteq BOOLEAN
    BY Zenon DEF Init
  <2>2. scene \in [live : BOOLEAN, drawn : BOOLEAN]
    BY DEF Init
  <2> QED
    BY <2>1, <2>2 DEF Init, WayTypes, FrozenEmpty, SceneDraws
<1>2. WayTypes /\ FrozenEmpty /\ SceneDraws /\ [Next]_vars =>
          (WayTypes /\ FrozenEmpty /\ SceneDraws)'
  BY NextWayTypes, NextReset
<1>3. FrozenEmpty /\ SceneDraws => ResetHolds
  BY DEF FrozenEmpty, SceneDraws, ResetHolds
<1> QED
  BY <1>1, <1>2, <1>3, PTL DEF Spec

-------------------------------------------------------------------------------
(* Proposals.                                                              *)

(* Every question has a stream, and every stream a phase.                  *)
StreamShape ==
    DOMAIN streams = Questions /\ \A q \in Questions : "phase" \in DOMAIN streams[q]

Coming == \E q \in Questions : streams[q].phase \in {"open", "planning"}

(* The card shows the plan of the store, unless it is known to have missed *)
(* one.                                                                    *)
CardFollows == page /\ plan # None /\ ~missed => card = plan

WaitingKnown ==
    page /\ proposal # None /\ ~missed =>
        (plan = proposal /\ card = proposal) \/ Coming \/ restore.step # "none"

(* What A answered to the mounted page is still the proposal that waits,   *)
(* or that one is on the card or is coming.                                *)
RestoreKnown ==
    page /\ restore.step = "answered" /\ proposal # None /\ ~missed =>
        restore.id = proposal \/ (plan = proposal /\ card = proposal) \/ Coming

ProposalInv == StreamShape /\ CardFollows /\ WaitingKnown /\ RestoreKnown

(* Every step of the chat keeps the shape of the streams, and every stream *)
(* that is coming, or there is no proposal to come, or the card is known   *)
(* to have missed it.                                                      *)
LEMMA NextChatStreams ==
    StreamShape /\ Chat => StreamShape' /\ (Coming => Coming' \/ proposal' = None \/ missed')
<1> SUFFICES ASSUME StreamShape, Chat
             PROVE  StreamShape' /\ (Coming => Coming' \/ proposal' = None \/ missed')
  OBVIOUS
<1> USE DEF StreamShape, Coming, None
<1>1. CASE \E q \in Questions : Ask(q)
  <2> PICK q \in Questions : Ask(q)
    BY <1>1
  <2> DEFINE s == [NoStream EXCEPT !.phase = "open", !.drawing = drawing, !.element = Len(view) + 2]
  <2>1. "phase" \in DOMAIN s /\ s.phase = "open"
    BY DEF NoStream
  <2>2. streams' = [streams EXCEPT ![q] = s]
    BY DEF Ask
  <2> HIDE DEF s
  <2> QED
    BY <2>1, <2>2
<1>2. CASE \E q \in Questions : Done(q)
  <2> PICK q \in Questions : Done(q)
    BY <1>2
  <2>1. streams' = [streams EXCEPT ![q].phase = "ended"] /\ proposal' = proposal
    BY DEF Done, atA
  <2>2. streams[q].phase \in {"planned", "errored"} \/ proposal = None
    BY DEF Done
  <2> QED
    BY <2>1, <2>2
<1>3. CASE \E q \in Questions : ErrorEvent(q) \/ Drop(q)
  <2> PICK q \in Questions : ErrorEvent(q) \/ Drop(q)
    BY <1>3
  <2>1. proposal' = None \/ missed'
    BY DEF ErrorEvent, Drop, atA
  <2>2. StreamShape'
    BY DEF ErrorEvent, Drop
  <2> QED
    BY <2>1, <2>2
<1>4. CASE ChatSend
  BY <1>4 DEF ChatSend, Render
<1>5. CASE SwitchTask
  BY <1>5 DEF SwitchTask
<1>6. CASE \E c \in Codes : Alert(c) \/ Ages(c)
  BY <1>6 DEF Alert, Ages
<1> QED
  BY <1>1, <1>2, <1>3, <1>4, <1>5, <1>6 DEF Chat

(* Every step of the chat leaves the page, its plan and its card.          *)
LEMMA ChatLeavesPage ==
    Chat => /\ UNCHANGED <<plan, page, card, restore>>
            /\ missed => missed'
            /\ proposal' = proposal \/ proposal' = None
<1>1. (\E q \in Questions : Ask(q) \/ Done(q)) \/ ChatSend \/ SwitchTask
        \/ (\E c \in Codes : Alert(c) \/ Ages(c)) =>
          /\ UNCHANGED plans
          /\ proposal' = proposal \/ proposal' = None
  BY DEF Ask, Done, ChatSend, SwitchTask, Alert, Ages, atA
<1>2. \A q \in Questions : ErrorEvent(q) \/ Drop(q) =>
          /\ UNCHANGED <<plan, page, card, restore, atA>>
          /\ missed => missed'
  BY DEF ErrorEvent, Drop
<1> QED
  BY <1>1, <1>2 DEF Chat, plans, atA

(* Every step keeps what is known of the proposal that waits.              *)
LEMMA NextProposals == ProposalInv /\ [Next]_vars => ProposalInv'
<1> SUFFICES ASSUME ProposalInv, [Next]_vars PROVE ProposalInv'
  OBVIOUS
<1> USE DEF ProposalInv, CardFollows, WaitingKnown, RestoreKnown, None
<1>1. CASE Chat
  BY <1>1, NextChatStreams, ChatLeavesPage
<1>2. CASE Propose
  <2>1. Coming'
    BY <1>2 DEF Propose, Coming
  <2> QED
    BY <1>2, <2>1 DEF Propose, StreamShape, plans
<1>3. CASE \E q \in Questions : SendPlan(q)
  <2> PICK q \in Questions : SendPlan(q)
    BY <1>3
  <2>1. StreamShape' /\ streams'[q].phase = "planning"
    BY DEF SendPlan, StreamShape
  <2>2. Coming'
    BY <2>1 DEF Coming
  <2> QED
    BY <2>1, <2>2 DEF SendPlan, plans, atA
<1>4. CASE \E q \in Questions : PlanReceived(q)
  <2> PICK q \in Questions : PlanReceived(q)
    BY <1>4
  <2>1. StreamShape'
    BY DEF PlanReceived, StreamShape
  <2>2. UNCHANGED <<page, proposal>>
    BY DEF PlanReceived, atA
  <2>3. CASE page
    BY <2>1, <2>2, <2>3 DEF PlanReceived, Outdated
  <2>4. CASE ~page
    BY <2>1, <2>2, <2>4
  <2> QED
    BY <2>3, <2>4
<1>5. CASE MountPage
  <2>1. plan' = card' /\ restore'.step = "asked" /\ streams' = streams
    BY <1>5 DEF MountPage
  <2> QED
    BY <2>1 DEF StreamShape
<1>6. CASE UnmountPage
  BY <1>6 DEF UnmountPage, StreamShape
<1>7. CASE RestoreHandled
  <2>1. restore'.step = "answered" /\ restore'.id = proposal
    BY <1>7 DEF RestoreHandled
  <2> QED
    BY <1>7, <2>1 DEF RestoreHandled, atA, StreamShape
<1>8. CASE RestoreAnswer
  <2>1. CASE restore.id = None \/ restore.id = plan
    BY <1>8, <2>1 DEF RestoreAnswer, atA, StreamShape, Coming
  <2>2. CASE ~(restore.id = None \/ restore.id = plan)
    BY <1>8, <2>2 DEF RestoreAnswer, Outdated, atA, StreamShape
  <2> QED
    BY <2>1, <2>2
<1>9. CASE RestoreFails
  BY <1>9 DEF RestoreFails, StreamShape
<1>10. CASE \E verdict \in {"approve", "reject"} : Click(verdict)
  <2>1. UNCHANGED <<streams, atA, plan, page, card, restore, missed>>
    BY <1>10 DEF Click
  <2> QED
    BY <2>1 DEF atA, StreamShape, Coming
<1>11. CASE \E r \in Requests : VerdictHandled(r)
  <2>1. UNCHANGED <<streams, plan, page, card, restore, missed>>
    BY <1>11 DEF VerdictHandled
  <2>2. proposal' = proposal \/ proposal' = None
    BY <1>11 DEF VerdictHandled
  <2> QED
    BY <2>1, <2>2 DEF StreamShape, Coming
<1>12. CASE \E r \in Requests : VerdictAnswer(r)
  <2>1. streams' = streams /\ plan' = None /\ (missed' \/ proposal' = None)
    BY <1>12 DEF VerdictAnswer, atA
  <2> QED
    BY <2>1 DEF StreamShape
<1>13. CASE \E r \in Requests : VerdictFails(r)
  BY <1>13 DEF VerdictFails, StreamShape
<1>14. CASE Reset
  BY <1>14 DEF Reset, StreamShape
<1>15. CASE Pose \/ MountScene \/ UnmountScene
  BY <1>15 DEF Pose, MountScene, UnmountScene, plans, atA, StreamShape, Coming
<1>16. CASE AlphaOutput
  BY <1>16 DEF AlphaOutput, plans, atA, StreamShape, Coming
<1>17. CASE UNCHANGED vars
  BY <1>17 DEF vars, plans, atA, StreamShape, Coming
<1> QED
  BY <1>1, <1>2, <1>3, <1>4, <1>5, <1>6, <1>7, <1>8, <1>9, <1>10, <1>11, <1>12, <1>13, <1>14,
     <1>15, <1>16, <1>17 DEF Next, Planning, Recording

(* On the planning page, with nothing under way, the proposal that waits   *)
(* for a verdict is on the card, whether its stream or the request of the  *)
(* page brought it, in either order, and also if it came while the page    *)
(* was not mounted (BetaPage.js:243-274); but for the five things that     *)
(* ProposalShown names, an older proposal that comes after it among them.  *)
THEOREM WaitingIsShown == Spec => []ProposalShown
<1>1. Init => ProposalInv
  BY DEF Init, ProposalInv, StreamShape, CardFollows, WaitingKnown, RestoreKnown, NoStream, None
<1>2. ProposalInv /\ [Next]_vars => ProposalInv'
  BY NextProposals
<1>3. ProposalInv => ProposalShown
  <2> SUFFICES ASSUME ProposalInv, page, Settled, ~missed, proposal # None
               PROVE  plan = proposal /\ card = proposal
    BY DEF ProposalShown
  <2>1. restore.step = "none"
    BY DEF Settled
  <2>2. ~Coming
    BY DEF Settled, Coming, Open
  <2> QED
    BY <2>1, <2>2 DEF ProposalInv, WaitingKnown
<1> QED
  BY <1>1, <1>2, <1>3, PTL DEF Spec

-------------------------------------------------------------------------------
(* Alerts.                                                                 *)

Fold == [count : Nat, index : Nat, element : Nat, age : {"now", "recent", "old"}]

ChatTypes ==
    /\ history \in Seq(Messages) /\ view \in Seq(Messages)
    /\ folds \in [Codes -> Fold]

Stands(s, i, c, n) == i \in 1 .. Len(s) /\ s[i] = Message("alert", c, n)

FoldsStand ==
    \A c \in Codes :
        folds[c].age # "old" =>
            /\ Stands(history, folds[c].index, c, folds[c].count)
            /\ Stands(view, folds[c].element, c, folds[c].count)

(* What is added at the end moves nothing.                                 *)
LEMMA AppendMovesNothing ==
    ASSUME NEW s \in Seq(Messages), NEW m \in Messages
    PROVE  /\ Append(s, m) \in Seq(Messages)
           /\ Len(Append(s, m)) = Len(s) + 1 /\ Append(s, m)[Len(s) + 1] = m
           /\ \A i, c, n : Stands(s, i, c, n) => Stands(Append(s, m), i, c, n)
  BY AppendProperties DEF Stands

(* What is exchanged leaves the alert of another code, or the other        *)
(* messages, where they are.                                               *)
LEMMA ExchangeMovesNothing ==
    ASSUME NEW s \in Seq(Messages), NEW k, NEW m \in Messages
    PROVE  /\ [s EXCEPT ![k] = m] \in Seq(Messages)
           /\ Len([s EXCEPT ![k] = m]) = Len(s)
           /\ k \in 1 .. Len(s) => [s EXCEPT ![k] = m][k] = m
           /\ \A i, c, n : Stands(s, i, c, n) /\ i # k => Stands([s EXCEPT ![k] = m], i, c, n)
<1>1. CASE k \in 1 .. Len(s)
  BY <1>1, ExceptSeq DEF Stands
<1>2. CASE k \notin 1 .. Len(s)
  <2>1. DOMAIN s = 1 .. Len(s) /\ s = [i \in 1 .. Len(s) |-> s[i]]
    OBVIOUS
  <2>2. [s EXCEPT ![k] = m] = [i \in 1 .. Len(s) |-> s[i]]
    BY <1>2, <2>1
  <2>3. [s EXCEPT ![k] = m] = s
    BY <2>1, <2>2
  <2> QED
    BY <1>2, <2>3
<1> QED
  BY <1>1, <1>2

(* Messages are messages, and those of two codes differ.                   *)
LEMMA MessageFacts ==
    /\ \A role \in {"human", "wait", "agent", "alert", "system"}, of \in Codes \cup Nat, n \in Nat :
           Message(role, of, n) \in Messages
    /\ \A c, d, m, n : Message("alert", c, m) = Message("alert", d, n) => c = d /\ m = n
    /\ \A c, d, n : Message("wait", d, 1) # Message("alert", c, n)
    /\ \A c, n : Message("alert", c, n).role # "wait"
    /\ \A c, m, n : [Message("alert", c, m) EXCEPT !.count = n] = Message("alert", c, n)
  BY DEF Message, Messages

(* What the actions write are messages.                                    *)
LEMMA Written ==
    /\ \A q \in Questions, role \in {"human", "wait", "agent"} : Message(role, q, 1) \in Messages
    /\ \A c \in Codes, n \in Nat : Message("alert", c, n) \in Messages
    /\ Message("system", 0, 1) \in Messages
<1>1. \A q \in Questions, role \in {"human", "wait", "agent"} : Message(role, q, 1) \in Messages
  <2> TAKE q \in Questions, role \in {"human", "wait", "agent"}
  <2>1. q \in Codes \cup Nat
    BY BoundsAssumption DEF Questions
  <2> QED
    BY <2>1 DEF Message, Messages
<1>2. \A c \in Codes, n \in Nat : Message("alert", c, n) \in Messages
  BY DEF Message, Messages
<1>3. Message("system", 0, 1) \in Messages
  BY DEF Message, Messages
<1> QED
  BY <1>1, <1>2, <1>3

(* An answer takes the place of a placeholder or goes to the end.          *)
LEMMA ShownMovesNothing ==
    ASSUME view \in Seq(Messages), NEW q \in Questions
    PROVE  /\ Shown(q, q) \in Seq(Messages)
           /\ \A i, c, n : Stands(view, i, c, n) => Stands(Shown(q, q), i, c, n)
<1> DEFINE m == Message("agent", q, 1)
           k == streams[q].element
<1>1. m \in Messages
  BY Written
<1>2. CASE streams[q].drawing # drawing
  BY <1>2 DEF Shown
<1>3. CASE streams[q].drawing = drawing /\ view[k].role = "wait"
  <2>1. Shown(q, q) = [view EXCEPT ![k] = m]
    BY <1>3 DEF Shown
  <2>2. \A i, c, n : Stands(view, i, c, n) => i # k
    BY <1>3, MessageFacts DEF Stands
  <2> HIDE DEF m, k
  <2>3. /\ [view EXCEPT ![k] = m] \in Seq(Messages)
        /\ \A i, c, n : Stands(view, i, c, n) /\ i # k => Stands([view EXCEPT ![k] = m], i, c, n)
    BY <1>1, ExchangeMovesNothing
  <2> QED
    BY <2>1, <2>2, <2>3
<1>4. CASE streams[q].drawing = drawing /\ view[k].role # "wait"
  <2>1. Shown(q, q) = Append(view, m)
    BY <1>4 DEF Shown
  <2> HIDE DEF m
  <2> QED
    BY <1>1, <2>1, AppendMovesNothing
<1> QED
  BY <1>2, <1>3, <1>4

(* Every step keeps the folded alerts at their messages.                   *)
LEMMA NextFolds == ChatTypes /\ FoldsStand /\ [Next]_vars => ChatTypes' /\ FoldsStand'
<1> SUFFICES ASSUME ChatTypes, FoldsStand, [Next]_vars PROVE ChatTypes' /\ FoldsStand'
  OBVIOUS
<1> USE DEF ChatTypes, FoldsStand
<1>1. CASE \E q \in Questions : Ask(q)
  <2> PICK q \in Questions : Ask(q)
    BY <1>1
  <2> DEFINE h == Message("human", q, 1)
             w == Message("wait", q, 1)
  <2>1. h \in Messages /\ w \in Messages
    BY Written
  <2>2. history' = Append(history, h) /\ view' = view \o <<h, w>> /\ folds' = folds
    BY DEF Ask
  <2> HIDE DEF h, w
  <2>3. view \o <<h, w>> = Append(Append(view, h), w)
    BY <2>1
  <2>5. /\ view' \in Seq(Messages)
        /\ \A i, c, n : Stands(view, i, c, n) => Stands(view', i, c, n)
    <3> DEFINE a == Append(view, h)
    <3>1. a \in Seq(Messages) /\ \A i, c, n : Stands(view, i, c, n) => Stands(a, i, c, n)
      BY <2>1, AppendMovesNothing
    <3> HIDE DEF a
    <3>2. /\ Append(a, w) \in Seq(Messages)
          /\ \A i, c, n : Stands(a, i, c, n) => Stands(Append(a, w), i, c, n)
      BY <2>1, <3>1, AppendMovesNothing
    <3>3. view' = Append(a, w)
      BY <2>2, <2>3 DEF a
    <3> QED
      BY <3>1, <3>2, <3>3
  <2>6. /\ history' \in Seq(Messages)
        /\ \A i, c, n : Stands(history, i, c, n) => Stands(history', i, c, n)
    BY <2>1, <2>2, AppendMovesNothing
  <2> QED
    BY <2>2, <2>5, <2>6
<1>2. CASE \E q \in Questions : Done(q) \/ ErrorEvent(q) \/ Drop(q)
  <2> PICK q \in Questions : Done(q) \/ ErrorEvent(q) \/ Drop(q)
    BY <1>2
  <2>1. folds' = folds /\ (Answered(q) \/ UNCHANGED <<history, view>>)
    BY DEF Done, ErrorEvent, Drop
  <2>2. CASE Answered(q)
    <3>1. Message("agent", q, 1) \in Messages
      BY Written
    <3>2. /\ history' \in Seq(Messages)
          /\ \A i, c, n : Stands(history, i, c, n) => Stands(history', i, c, n)
      BY <2>2, <3>1, AppendMovesNothing DEF Answered
    <3>3. /\ view' \in Seq(Messages)
          /\ \A i, c, n : Stands(view, i, c, n) => Stands(view', i, c, n)
      BY <2>2, ShownMovesNothing DEF Answered
    <3> QED
      BY <2>1, <3>2, <3>3
  <2> QED
    BY <2>1, <2>2
<1>3. CASE ChatSend \/ SwitchTask
  <2>1. /\ folds' = [c \in Codes |-> NoFold]
        /\ view' = history \/ view' = <<>>
        /\ history' = history \/ history' = <<>>
    BY <1>3 DEF ChatSend, Render, SwitchTask
  <2>2. NoFold \in Fold /\ NoFold.age = "old" /\ <<>> \in Seq(Messages)
    BY DEF NoFold, Fold
  <2>3. ChatTypes'
    BY <2>1, <2>2
  <2>4. \A c \in Codes : folds'[c].age = "old"
    BY <2>1, <2>2
  <2> QED
    BY <2>3, <2>4
<1>4. CASE \E c \in Codes : Alert(c)
  <2> PICK c \in Codes : Alert(c)
    BY <1>4
  <2> DEFINE f == folds[c]
             n == f.count + 1
             u == Message("alert", c, n)
             m == Message("alert", c, 1)
  <2>1. f \in Fold /\ n \in Nat
    BY DEF Fold
  <2>m. u \in Messages /\ m \in Messages
    BY <2>1, Written
  <2>2. CASE f.age = "now" /\ UNCHANGED <<history, view, folds>>
    BY <2>2
  <2>3. CASE /\ f.age = "recent"
             /\ folds' = [folds EXCEPT ![c].count = @ + 1, ![c].age = "now"]
             /\ view' = [view EXCEPT ![f.element].count = n]
             /\ history' = IF f.index \in DOMAIN history
                           THEN [history EXCEPT ![f.index].count = n] ELSE history
    <3>1. Stands(history, f.index, c, f.count) /\ Stands(view, f.element, c, f.count)
      BY <2>3
    <3>2. history' = [history EXCEPT ![f.index] = u] /\ view' = [view EXCEPT ![f.element] = u]
      <4>1. /\ f.index \in DOMAIN history /\ history[f.index] = Message("alert", c, f.count)
            /\ view[f.element] = Message("alert", c, f.count)
        BY <3>1 DEF Stands
      <4>2. [Message("alert", c, f.count) EXCEPT !.count = n] = u
        BY MessageFacts
      <4> QED
        BY <2>3, <4>1, <4>2
    <3>3. \A d \in Codes \ {c} :
              folds[d].age # "old" =>
                  folds[d].index # f.index /\ folds[d].element # f.element
      BY <3>1, MessageFacts DEF Stands
    <3>4. /\ folds' \in [Codes -> Fold]
          /\ folds'[c].count = n /\ folds'[c].index = f.index /\ folds'[c].element = f.element
          /\ \A d \in Codes \ {c} : folds'[d] = folds[d]
      BY <2>3, <2>1 DEF Fold
    <3> HIDE DEF f, n, u
    <3>5. /\ history' \in Seq(Messages) /\ Stands(history', f.index, c, n)
          /\ \A i, d, k : Stands(history, i, d, k) /\ i # f.index => Stands(history', i, d, k)
      BY <2>m, <3>1, <3>2, ExchangeMovesNothing DEF Stands, u
    <3>6. /\ view' \in Seq(Messages) /\ Stands(view', f.element, c, n)
          /\ \A i, d, k : Stands(view, i, d, k) /\ i # f.element => Stands(view', i, d, k)
      BY <2>m, <3>1, <3>2, ExchangeMovesNothing DEF Stands, u
    <3> QED
      BY <3>3, <3>4, <3>5, <3>6
  <2>4. CASE /\ f.age = "old"
             /\ history' = Append(history, m)
             /\ view' = Append(view, m)
             /\ folds' = [folds EXCEPT ![c] = [count |-> 1, index |-> Len(history) + 1,
                                               element |-> Len(view) + 1, age |-> "now"]]
    <3>1. [count |-> 1, index |-> Len(history) + 1, element |-> Len(view) + 1, age |-> "now"]
              \in Fold
      BY DEF Fold
    <3>2. /\ folds' \in [Codes -> Fold]
          /\ folds'[c].count = 1 /\ folds'[c].index = Len(history) + 1
          /\ folds'[c].element = Len(view) + 1
          /\ \A d \in Codes \ {c} : folds'[d] = folds[d]
      BY <2>4, <3>1
    <3> HIDE DEF f, n, u
    <3>3. /\ history' \in Seq(Messages) /\ Stands(history', Len(history) + 1, c, 1)
          /\ \A i, d, k : Stands(history, i, d, k) => Stands(history', i, d, k)
      BY <2>m, <2>4, AppendMovesNothing DEF Stands
    <3>4. /\ view' \in Seq(Messages) /\ Stands(view', Len(view) + 1, c, 1)
          /\ \A i, d, k : Stands(view, i, d, k) => Stands(view', i, d, k)
      BY <2>m, <2>4, AppendMovesNothing DEF Stands
    <3> QED
      BY <3>2, <3>3, <3>4
  <2> QED
    BY <2>2, <2>3, <2>4 DEF Alert
<1>5. CASE \E c \in Codes : Ages(c)
  <2> PICK c \in Codes : Ages(c)
    BY <1>5
  <2>1. /\ UNCHANGED <<history, view>> /\ folds[c].age # "old"
        /\ folds' = [folds EXCEPT ![c].age = IF folds[c].age = "now" THEN "recent" ELSE "old"]
    BY DEF Ages
  <2>2. /\ folds' \in [Codes -> Fold]
        /\ \A d \in Codes : /\ folds'[d].count = folds[d].count
                            /\ folds'[d].index = folds[d].index
                            /\ folds'[d].element = folds[d].element
                            /\ folds'[d].age # "old" => folds[d].age # "old"
    BY <2>1 DEF Fold
  <2> QED
    BY <2>1, <2>2
<1>6. CASE AlphaOutput
  <2> DEFINE m == Message("system", 0, 1)
  <2>1. m \in Messages
    BY Written
  <2>2. history' = Append(history, m) /\ view' = Append(view, m) /\ folds' = folds
    BY <1>6 DEF AlphaOutput
  <2> HIDE DEF m
  <2>3. /\ history' \in Seq(Messages) /\ view' \in Seq(Messages)
        /\ \A i, c, n : Stands(history, i, c, n) => Stands(history', i, c, n)
        /\ \A i, c, n : Stands(view, i, c, n) => Stands(view', i, c, n)
    BY <2>1, <2>2, AppendMovesNothing
  <2> QED
    BY <2>2, <2>3
<1>7. CASE Planning
  <2>1. UNCHANGED <<history, view, folds>>
    BY <1>7 DEF Planning, Propose, SendPlan, PlanReceived, MountPage, UnmountPage, RestoreHandled,
                RestoreAnswer, RestoreFails, Click, VerdictHandled, VerdictAnswer, VerdictFails,
                chat
  <2> QED
    BY <2>1
<1>8. CASE Reset \/ Pose \/ MountScene \/ UnmountScene
  BY <1>8 DEF Reset, Pose, MountScene, UnmountScene, chat
<1>9. CASE UNCHANGED vars
  BY <1>9 DEF vars, chat
<1> QED
  BY <1>1, <1>2, <1>3, <1>4, <1>5, <1>6, <1>7, <1>8, <1>9 DEF Next, Chat, Recording

(* An alert that is folded is counted by the message of its code, in the   *)
(* store and on the screen, and the counter never lands on another message *)
(* (ChatPanel.js:168-260).                                                 *)
THEOREM AlertsKeepTheirMessage == Spec => []AlertIndexed
<1>1. Init => ChatTypes /\ FoldsStand
  <2> SUFFICES ASSUME Init PROVE ChatTypes /\ FoldsStand
    OBVIOUS
  <2>1. NoFold \in Fold /\ NoFold.age = "old" /\ <<>> \in Seq(Messages)
    BY DEF NoFold, Fold
  <2> QED
    BY <2>1 DEF Init, ChatTypes, FoldsStand
<1>2. ChatTypes /\ FoldsStand /\ [Next]_vars => (ChatTypes /\ FoldsStand)'
  BY NextFolds
<1>3. ChatTypes /\ FoldsStand => AlertIndexed
  BY DEF ChatTypes, FoldsStand, Stands, AlertIndexed
<1> QED
  BY <1>1, <1>2, <1>3, PTL DEF Spec

-------------------------------------------------------------------------------
(* Answers.                                                                *)

Stream ==
    [phase : {"none", "open", "planning", "planned", "errored", "ended"},
     drawing : Nat, element : Nat, plan : Nat,
     torn : BOOLEAN, doubled : BOOLEAN, left : BOOLEAN]

StreamTypes ==
    /\ streams \in [Questions -> Stream]
    /\ drawing \in Nat /\ proposal \in Nat /\ made \in Nat

(* Where a message stands in a conversation.                               *)
Places(s, m) == {i \in 1 .. Len(s) : s[i] = m}

Answer(q) == Message("agent", q, 1)
Placeholder(q) == Message("wait", q, 1)

Awaited(q) == streams[q].phase \in {"open", "planning", "planned"}
Given(q) == streams[q].phase \in {"errored", "ended"} /\ ~streams[q].doubled

(* A stream knows whether its container is the one shown.                  *)
DrawingKnown(q) ==
    /\ streams[q].left => streams[q].torn
    /\ Open(q) => /\ streams[q].drawing <= drawing
                  /\ streams[q].torn <=> streams[q].drawing # drawing

Unasked(q) ==
    streams[q].phase = "none" =>
        /\ Places(history, Answer(q)) = {}
        /\ Places(view, Answer(q)) = {} /\ Places(view, Placeholder(q)) = {}

PlaceKept(q) ==
    Awaited(q) =>
        /\ ~streams[q].left => Places(history, Answer(q)) = {}
        /\ ~streams[q].torn => /\ Places(view, Answer(q)) = {}
                               /\ Places(view, Placeholder(q)) = {streams[q].element}

AnswerStands(q) ==
    Given(q) =>
        /\ ~streams[q].left => \E i \in Nat : Places(history, Answer(q)) = {i}
        /\ ~streams[q].torn => /\ \E i \in Nat : Places(view, Answer(q)) = {i}
                               /\ Places(view, Placeholder(q)) = {}

ErrorStands(q) ==
    streams[q].phase = "errored" /\ ~streams[q].torn =>
        Places(view, Answer(q)) = {streams[q].element}

AnswerInv(q) ==
    DrawingKnown(q) /\ Unasked(q) /\ PlaceKept(q) /\ AnswerStands(q) /\ ErrorStands(q)

NoPlaceStored == \A q \in Questions : Places(history, Placeholder(q)) = {}

(* A message added at the end is in one place more, and no other is.       *)
LEMMA PlacesAppend ==
    ASSUME NEW s \in Seq(Messages), NEW m \in Messages
    PROVE  /\ \A x : x # m => Places(Append(s, m), x) = Places(s, x)
           /\ Places(s, m) = {} => Places(Append(s, m), m) = {Len(s) + 1}
<1> DEFINE t == Append(s, m)
<1>1. /\ Len(t) = Len(s) + 1 /\ t[Len(s) + 1] = m
      /\ \A i \in 1 .. Len(s) : t[i] = s[i]
  BY AppendProperties
<1>2. Len(s) \in Nat
  OBVIOUS
<1> HIDE DEF t
<1>3. 1 .. Len(t) = 1 .. Len(s) \cup {Len(s) + 1} /\ Len(s) + 1 \notin 1 .. Len(s)
  BY <1>1, <1>2
<1>4. \A x : x # m => Places(t, x) = Places(s, x)
  BY <1>1, <1>3 DEF Places
<1>5. Places(s, m) = {} => Places(t, m) = {Len(s) + 1}
  BY <1>1, <1>3 DEF Places
<1> QED
  BY <1>4, <1>5 DEF t

(* An exchange at one place.                                               *)
LEMMA OneExchanged ==
    ASSUME NEW s \in Seq(Messages), NEW k \in 1 .. Len(s), NEW m \in Messages, NEW t,
           t = [s EXCEPT ![k] = m]
    PROVE  /\ t \in Seq(Messages) /\ Len(t) = Len(s) /\ t[k] = m
           /\ \A i \in 1 .. Len(s) : i # k => t[i] = s[i]
  BY ExceptSeq

(* An exchange frees the place of the old message for the new one.         *)
LEMMA PlacesExchanged ==
    ASSUME NEW s \in Seq(Messages), NEW k \in 1 .. Len(s), NEW m, NEW t,
           Len(t) = Len(s), t[k] = m, \A i \in 1 .. Len(s) : i # k => t[i] = s[i]
    PROVE  /\ \A x : x # m /\ x # s[k] => Places(t, x) = Places(s, x)
           /\ m # s[k] /\ Places(s, s[k]) = {k} => Places(t, s[k]) = {}
           /\ Places(s, m) = {} => Places(t, m) = {k}
<1>1. \A x : x # m /\ x # s[k] => Places(t, x) = Places(s, x)
  BY DEF Places
<1>2. m # s[k] /\ Places(s, s[k]) = {k} => Places(t, s[k]) = {}
  BY DEF Places
<1>3. Places(s, m) = {} => Places(t, m) = {k}
  BY DEF Places
<1> QED
  BY <1>1, <1>2, <1>3

(* Answers and placeholders are messages of their own.                     *)
LEMMA AnswerFacts ==
    /\ \A q \in Questions : Answer(q) \in Messages /\ Placeholder(q) \in Messages
    /\ \A p, q : p # q => Answer(p) # Answer(q) /\ Placeholder(p) # Placeholder(q)
    /\ \A p, q : Answer(p) # Placeholder(q)
    /\ \A p, q, n, c : /\ Message("human", p, n) \notin {Answer(q), Placeholder(q)}
                       /\ Message("system", p, n) \notin {Answer(q), Placeholder(q)}
                       /\ Message("alert", c, n) \notin {Answer(q), Placeholder(q)}
    /\ \A q : Answer(q).role = "agent" /\ Placeholder(q).role = "wait"
<1>1. \A q \in Questions : Answer(q) \in Messages /\ Placeholder(q) \in Messages
  BY Written DEF Answer, Placeholder
<1> QED
  BY <1>1 DEF Answer, Placeholder, Message

(* The places of what belongs to a question are those of before.           *)
SamePlaces(q) ==
    /\ Places(history', Answer(q)) = Places(history, Answer(q))
    /\ Places(history', Placeholder(q)) = Places(history, Placeholder(q))
    /\ Places(view', Answer(q)) = Places(view, Answer(q))
    /\ Places(view', Placeholder(q)) = Places(view, Placeholder(q))

(* A step that leaves the stream and the messages of a question alone      *)
(* keeps its invariant.                                                    *)
LEMMA OthersAreKept ==
    ASSUME NEW q \in Questions, AnswerInv(q), SamePlaces(q), drawing' = drawing,
           streams'[q] = streams[q]
    PROVE  AnswerInv(q)'
  BY DEF AnswerInv, DrawingKnown, Unasked, PlaceKept, AnswerStands, ErrorStands, Awaited, Given,
         Open, SamePlaces

(* Alerts and the news of a plan touch no answer and no placeholder.       *)
LEMMA AlertsTouchNoAnswer ==
    ASSUME ChatTypes, FoldsStand, NEW q \in Questions,
           (\E c \in Codes : Alert(c)) \/ AlphaOutput
    PROVE  SamePlaces(q)
<1>1. CASE AlphaOutput
  <2> PICK m : m = Message("system", 0, 1)
    OBVIOUS
  <2>1. m \in Messages /\ m # Answer(q) /\ m # Placeholder(q)
    BY Written, AnswerFacts
  <2>2. history' = Append(history, m) /\ view' = Append(view, m)
    BY <1>1 DEF AlphaOutput
  <2> QED
    BY <2>1, <2>2, PlacesAppend DEF SamePlaces, ChatTypes
<1>2. CASE \E c \in Codes : Alert(c)
  <2> PICK c \in Codes : Alert(c)
    BY <1>2
  <2> PICK f : f = folds[c]
    OBVIOUS
  <2>1. f \in Fold /\ f.count + 1 \in Nat
    BY DEF Fold, ChatTypes
  <2>2. CASE f.age = "now" /\ UNCHANGED <<history, view, folds>>
    BY <2>2 DEF SamePlaces
  <2>3. CASE /\ f.age = "recent"
             /\ view' = [view EXCEPT ![f.element].count = f.count + 1]
             /\ history' = IF f.index \in DOMAIN history
                           THEN [history EXCEPT ![f.index].count = f.count + 1] ELSE history
    <3>u. PICK u : u = Message("alert", c, f.count + 1)
      OBVIOUS
    <3>o. PICK o : o = Message("alert", c, f.count)
      OBVIOUS
    <3>1. Stands(history, f.index, c, f.count) /\ Stands(view, f.element, c, f.count)
      BY <2>3 DEF FoldsStand
    <3>2. /\ f.index \in 1 .. Len(history) /\ history[f.index] = o
          /\ f.element \in 1 .. Len(view) /\ view[f.element] = o
      BY <3>o, <3>1 DEF Stands
    <3>3. history' = [history EXCEPT ![f.index] = u] /\ view' = [view EXCEPT ![f.element] = u]
      <4>1. [o EXCEPT !.count = f.count + 1] = u
        BY <3>u, <3>o, MessageFacts
      <4>2. f.index \in DOMAIN history
        BY <3>2 DEF ChatTypes
      <4> QED
        BY <2>3, <3>2, <4>1, <4>2
    <3>4. u \in Messages
      BY <3>u, <2>1, Written
    <3>5. u # Answer(q) /\ u # Placeholder(q) /\ o # Answer(q) /\ o # Placeholder(q)
      BY <3>u, <3>o, AnswerFacts
    <3>6. history \in Seq(Messages) /\ view \in Seq(Messages)
      BY DEF ChatTypes
    <3>7. \A x : x # u /\ x # o => Places(history', x) = Places(history, x)
      <4>k. PICK k : k = f.index
        OBVIOUS
      <4>1. k \in 1 .. Len(history) /\ history[k] = o
        BY <3>2, <4>k
      <4>2. /\ Len(history') = Len(history) /\ history'[k] = u
            /\ \A i \in 1 .. Len(history) : i # k => history'[i] = history[i]
        BY <3>3, <3>4, <3>6, <4>k, <4>1, OneExchanged
      <4> QED
        BY <3>6, <4>1, <4>2, PlacesExchanged
    <3>8. \A x : x # u /\ x # o => Places(view', x) = Places(view, x)
      <4>k. PICK k : k = f.element
        OBVIOUS
      <4>1. k \in 1 .. Len(view) /\ view[k] = o
        BY <3>2, <4>k
      <4>2. /\ Len(view') = Len(view) /\ view'[k] = u
            /\ \A i \in 1 .. Len(view) : i # k => view'[i] = view[i]
        BY <3>3, <3>4, <3>6, <4>k, <4>1, OneExchanged
      <4> QED
        BY <3>6, <4>1, <4>2, PlacesExchanged
    <3> QED
      BY <3>5, <3>7, <3>8 DEF SamePlaces
  <2>4. CASE /\ history' = Append(history, Message("alert", c, 1))
             /\ view' = Append(view, Message("alert", c, 1))
    <3> PICK m : m = Message("alert", c, 1)
      OBVIOUS
    <3>1. m \in Messages /\ m # Answer(q) /\ m # Placeholder(q)
      BY Written, AnswerFacts
    <3> QED
      BY <2>4, <3>1, PlacesAppend DEF SamePlaces, ChatTypes
  <2> QED
    BY <2>2, <2>3, <2>4 DEF Alert
<1> QED
  BY <1>1, <1>2

(* An answer is stored at the end, and shown at its placeholder, if that   *)
(* is in the container shown.                                              *)
LEMMA AnswerGoesToPlace ==
    ASSUME ChatTypes, StreamTypes, NEW p \in Questions, Open(p), AnswerInv(p), Answered(p)
    PROVE  /\ \A q \in Questions \ {p} : SamePlaces(q)
           /\ Places(history', Placeholder(p)) = Places(history, Placeholder(p))
           /\ Places(history, Answer(p)) = {} =>
                  \E i \in Nat : Places(history', Answer(p)) = {i}
           /\ Awaited(p) /\ ~streams[p].torn =>
                  /\ Places(view', Answer(p)) = {streams[p].element}
                  /\ Places(view', Placeholder(p)) = {}
<1>1. history \in Seq(Messages) /\ view \in Seq(Messages)
  BY DEF ChatTypes
<1>a. PICK a : a = Answer(p)
  OBVIOUS
<1>k. PICK k : k = streams[p].element
  OBVIOUS
<1>2. /\ a \in Messages
      /\ \A q \in Questions \ {p} : a # Answer(q) /\ a # Placeholder(q)
      /\ a # Placeholder(p) /\ a.role # "wait"
  BY <1>a, AnswerFacts
<1>3. /\ \A q \in Questions \ {p} :
             /\ Places(history', Answer(q)) = Places(history, Answer(q))
             /\ Places(history', Placeholder(q)) = Places(history, Placeholder(q))
      /\ Places(history', Placeholder(p)) = Places(history, Placeholder(p))
      /\ Places(history, Answer(p)) = {} =>
             \E i \in Nat : Places(history', Answer(p)) = {i}
  <2>1. history' = Append(history, a)
    BY <1>a DEF Answered, Answer
  <2>2. \A x : x # a => Places(history', x) = Places(history, x)
    BY <1>1, <1>2, <2>1, PlacesAppend
  <2>3. Places(history, a) = {} => Places(history', a) = {Len(history) + 1}
    BY <1>1, <1>2, <2>1, PlacesAppend
  <2>4. Len(history) + 1 \in Nat
    BY <1>1
  <2> QED
    BY <1>2, <1>a, <2>2, <2>3, <2>4
<1>4. view' = IF streams[p].drawing # drawing THEN view
              ELSE IF view[k].role = "wait" THEN [view EXCEPT ![k] = a] ELSE Append(view, a)
  BY <1>a, <1>k DEF Answered, Shown, Answer
<1>5. CASE streams[p].torn
  <2>1. view' = view
    BY <1>4, <1>5 DEF AnswerInv, DrawingKnown
  <2> QED
    BY <1>3, <1>5, <2>1 DEF SamePlaces
<1>6. CASE ~streams[p].torn /\ Awaited(p)
  <2>1. Places(view, Answer(p)) = {} /\ Places(view, Placeholder(p)) = {k}
    BY <1>6, <1>k DEF AnswerInv, PlaceKept
  <2>2. k \in 1 .. Len(view) /\ view[k] = Placeholder(p)
    BY <2>1 DEF Places
  <2>3. view' = [view EXCEPT ![k] = a]
    BY <1>4, <1>6, <2>2, AnswerFacts DEF AnswerInv, DrawingKnown
  <2>4. /\ Len(view') = Len(view) /\ view'[k] = a
        /\ \A i \in 1 .. Len(view) : i # k => view'[i] = view[i]
    BY <1>1, <1>2, <2>2, <2>3, OneExchanged
  <2>5. /\ \A x : x # a /\ x # view[k] => Places(view', x) = Places(view, x)
        /\ a # view[k] /\ Places(view, view[k]) = {k} => Places(view', view[k]) = {}
        /\ Places(view, a) = {} => Places(view', a) = {k}
    <3>1. k \in 1 .. Len(view)
      BY <2>2
    <3>2. \A x : x # a /\ x # view[k] => Places(view', x) = Places(view, x)
      BY <1>1, <3>1, <2>4, PlacesExchanged
    <3>3. a # view[k] /\ Places(view, view[k]) = {k} => Places(view', view[k]) = {}
      BY <3>1, <2>4 DEF Places
    <3>4. Places(view, a) = {} => Places(view', a) = {k}
      BY <3>1, <2>4 DEF Places
    <3> QED
      BY <3>2, <3>3, <3>4
  <2>6. Places(view', Answer(p)) = {k} /\ Places(view', Placeholder(p)) = {}
    BY <1>2, <1>a, <2>1, <2>2, <2>5
  <2>7. \A q \in Questions \ {p} : /\ Places(view', Answer(q)) = Places(view, Answer(q))
                                   /\ Places(view', Placeholder(q)) = Places(view, Placeholder(q))
    BY <1>2, <2>2, <2>5, AnswerFacts
  <2> QED
    BY <1>3, <1>k, <2>6, <2>7 DEF SamePlaces
<1>7. CASE ~streams[p].torn /\ ~Awaited(p)
  <2>1. streams[p].phase = "errored"
    BY <1>7 DEF Open, Awaited
  <2>2. Places(view, a) = {k}
    BY <1>7, <1>a, <1>k, <2>1 DEF AnswerInv, ErrorStands
  <2>3. view[k] = a
    BY <2>2 DEF Places
  <2>4. view' = Append(view, a)
    BY <1>2, <1>4, <1>7, <2>3 DEF AnswerInv, DrawingKnown
  <2>5. \A x : x # a => Places(view', x) = Places(view, x)
    BY <1>1, <1>2, <2>4, PlacesAppend
  <2> QED
    BY <1>2, <1>3, <1>7, <2>5 DEF SamePlaces
<1> QED
  BY <1>5, <1>6, <1>7

(* A question that is asked has its placeholder, and no answer yet.        *)
LEMMA AskKeepsAnswers ==
    ASSUME ChatTypes, StreamTypes, NEW p \in Questions, Ask(p),
           \A q \in Questions : AnswerInv(q), NoPlaceStored
    PROVE  StreamTypes' /\ (\A q \in Questions : AnswerInv(q)') /\ NoPlaceStored'
<1>1. history \in Seq(Messages) /\ view \in Seq(Messages) /\ Len(view) \in Nat
  BY DEF ChatTypes
<1>h. PICK h : h = Message("human", p, 1)
  OBVIOUS
<1>w. PICK w : w = Placeholder(p)
  OBVIOUS
<1>v. PICK v : v = Append(view, h)
  OBVIOUS
<1>2. /\ h \in Messages /\ w \in Messages
      /\ \A q \in Questions : h # Answer(q) /\ h # Placeholder(q) /\ w # Answer(q)
      /\ \A q \in Questions \ {p} : w # Placeholder(q)
  BY <1>h, <1>w, AnswerFacts, Written
<1>3. /\ streams' \in [Questions -> Stream]
      /\ \A q \in Questions \ {p} : streams'[q] = streams[q]
      /\ streams'[p].phase = "open" /\ streams'[p].drawing = drawing
      /\ streams'[p].element = Len(view) + 2
      /\ ~streams'[p].torn /\ ~streams'[p].doubled /\ ~streams'[p].left
  <2>1. PICK s : s = [NoStream EXCEPT !.phase = "open", !.drawing = drawing,
                                      !.element = Len(view) + 2]
    OBVIOUS
  <2>2. /\ s \in Stream
        /\ s.phase = "open" /\ s.drawing = drawing /\ s.element = Len(view) + 2
        /\ ~s.torn /\ ~s.doubled /\ ~s.left
    <3>1. s = [phase |-> "open", drawing |-> drawing, element |-> Len(view) + 2, plan |-> 0,
               torn |-> FALSE, doubled |-> FALSE, left |-> FALSE]
      BY <2>1 DEF NoStream, None
    <3>2. drawing \in Nat /\ Len(view) + 2 \in Nat
      BY <1>1 DEF StreamTypes
    <3> QED
      BY <3>1, <3>2 DEF Stream
  <2>3. streams' = [streams EXCEPT ![p] = s]
    BY <2>1 DEF Ask
  <2> QED
    BY <2>2, <2>3 DEF StreamTypes
<1>4. drawing' = drawing /\ UNCHANGED atA
  BY DEF Ask
<1>5. /\ \A q \in Questions : /\ Places(history', Answer(q)) = Places(history, Answer(q))
                              /\ Places(history', Placeholder(q)) = Places(history, Placeholder(q))
  <2>1. history' = Append(history, h)
    BY <1>h DEF Ask
  <2> QED
    BY <1>1, <1>2, <2>1, PlacesAppend
<1>6. view' = Append(v, w)
  <2>1. view' = view \o <<h, w>>
    BY <1>h, <1>w DEF Ask, Placeholder
  <2>2. view \o <<h, w>> = Append(Append(view, h), w)
    BY <1>1, <1>2
  <2> QED
    BY <1>v, <2>1, <2>2
<1>7. v \in Seq(Messages) /\ Len(v) = Len(view) + 1
  BY <1>1, <1>2, <1>v, AppendProperties
<1>8. \A x : x # h => Places(v, x) = Places(view, x)
  BY <1>1, <1>2, <1>v, PlacesAppend
<1>9. /\ \A x : x # w => Places(view', x) = Places(v, x)
      /\ Places(v, w) = {} => Places(view', w) = {Len(v) + 1}
  BY <1>2, <1>6, <1>7, PlacesAppend
<1>10. \A q \in Questions : Places(view', Answer(q)) = Places(view, Answer(q))
  BY <1>2, <1>8, <1>9
<1>11. \A q \in Questions \ {p} : Places(view', Placeholder(q)) = Places(view, Placeholder(q))
  BY <1>2, <1>8, <1>9
<1>12. streams[p].phase = "none"
  BY DEF Ask
<1>13. /\ Places(history, Answer(p)) = {}
       /\ Places(view, Answer(p)) = {} /\ Places(view, Placeholder(p)) = {}
  BY <1>12 DEF AnswerInv, Unasked
<1>14. Places(view', Placeholder(p)) = {Len(view) + 2}
  <2>1. Places(v, w) = {}
    BY <1>2, <1>8, <1>13, <1>w
  <2> QED
    BY <1>1, <1>7, <1>9, <1>w, <2>1
<1>15. AnswerInv(p)'
  <2>1. Places(history', Answer(p)) = {} /\ Places(view', Answer(p)) = {}
    BY <1>5, <1>10, <1>13
  <2>2. drawing' \in Nat
    BY <1>4 DEF StreamTypes
  <2> QED
    BY <1>3, <1>4, <1>14, <2>1, <2>2
    DEF AnswerInv, DrawingKnown, Unasked, PlaceKept, AnswerStands, ErrorStands, Awaited, Given
<1>16. \A q \in Questions \ {p} : AnswerInv(q)'
  BY <1>3, <1>4, <1>5, <1>10, <1>11, OthersAreKept DEF SamePlaces
<1>17. NoPlaceStored'
  BY <1>5 DEF NoPlaceStored
<1> QED
  BY <1>3, <1>4, <1>15, <1>16, <1>17 DEF StreamTypes, atA

(* The end of a stream answers a question that awaits it; after an error   *)
(* event it does so only when the connection breaks.                       *)
LEMMA EndOfStream ==
    ASSUME StreamTypes, NEW p \in Questions, Done(p) \/ ErrorEvent(p) \/ Drop(p)
    PROVE  /\ streams' \in [Questions -> Stream]
           /\ \A q \in Questions \ {p} : streams'[q] = streams[q]
           /\ streams'[p].drawing = streams[p].drawing
           /\ streams'[p].element = streams[p].element
           /\ streams'[p].torn = streams[p].torn /\ streams'[p].left = streams[p].left
           /\ streams'[p].phase \in {"errored", "ended"}
           /\ \/ Awaited(p) /\ Answered(p)
              \/ /\ streams[p].phase = "errored" /\ streams'[p].phase = "ended"
                 /\ Answered(p) /\ streams'[p].doubled
              \/ /\ streams[p].phase = "errored" /\ streams'[p].phase = "ended"
                 /\ UNCHANGED <<history, view>> /\ streams'[p].doubled = streams[p].doubled
<1>0. streams \in [Questions -> Stream] /\ streams[p] \in Stream
  BY DEF StreamTypes
<1>1. CASE Done(p)
  <2>1. /\ streams' = [streams EXCEPT ![p].phase = "ended"]
        /\ streams[p].phase \in {"open", "planned", "errored"}
        /\ IF streams[p].phase = "errored" THEN UNCHANGED <<history, view>> ELSE Answered(p)
    BY <1>1 DEF Done
  <2>2. /\ streams' \in [Questions -> Stream]
        /\ \A q \in Questions \ {p} : streams'[q] = streams[q]
        /\ streams'[p] = [streams[p] EXCEPT !.phase = "ended"]
    BY <1>0, <2>1 DEF Stream
  <2>3. /\ streams'[p].drawing = streams[p].drawing
        /\ streams'[p].element = streams[p].element
        /\ streams'[p].torn = streams[p].torn /\ streams'[p].left = streams[p].left
        /\ streams'[p].phase = "ended" /\ streams'[p].doubled = streams[p].doubled
    BY <1>0, <2>2 DEF Stream
  <2>4. CASE streams[p].phase = "errored"
    BY <2>1, <2>2, <2>3, <2>4
  <2>5. CASE streams[p].phase # "errored"
    BY <2>1, <2>2, <2>3, <2>5 DEF Awaited
  <2> QED
    BY <2>4, <2>5
<1>2. CASE ErrorEvent(p)
  <2>1. /\ streams' = [streams EXCEPT ![p].phase = "errored"]
        /\ streams[p].phase = "open" /\ Answered(p)
    BY <1>2 DEF ErrorEvent
  <2>2. /\ streams' \in [Questions -> Stream]
        /\ \A q \in Questions \ {p} : streams'[q] = streams[q]
        /\ streams'[p] = [streams[p] EXCEPT !.phase = "errored"]
    BY <1>0, <2>1 DEF Stream
  <2>3. /\ streams'[p].drawing = streams[p].drawing
        /\ streams'[p].element = streams[p].element
        /\ streams'[p].torn = streams[p].torn /\ streams'[p].left = streams[p].left
        /\ streams'[p].phase = "errored"
    BY <1>0, <2>2 DEF Stream
  <2> QED
    BY <2>1, <2>2, <2>3 DEF Awaited
<1>3. CASE Drop(p)
  <2>e. PICK e : e = (streams[p].phase = "errored")
    OBVIOUS
  <2>1. /\ streams' = [streams EXCEPT ![p].phase = "ended", ![p].doubled = e]
        /\ Open(p) /\ Answered(p)
    BY <1>3, <2>e DEF Drop
  <2>2. /\ streams' \in [Questions -> Stream]
        /\ \A q \in Questions \ {p} : streams'[q] = streams[q]
        /\ streams'[p] = [streams[p] EXCEPT !.phase = "ended", !.doubled = e]
    <3>1. e \in BOOLEAN
      BY <2>e
    <3> QED
      BY <1>0, <2>1, <3>1 DEF Stream
  <2>3. /\ streams'[p].drawing = streams[p].drawing
        /\ streams'[p].element = streams[p].element
        /\ streams'[p].torn = streams[p].torn /\ streams'[p].left = streams[p].left
        /\ streams'[p].phase = "ended" /\ streams'[p].doubled = e
    BY <1>0, <2>2 DEF Stream
  <2>4. CASE streams[p].phase = "errored"
    BY <2>e, <2>1, <2>2, <2>3, <2>4
  <2>5. CASE streams[p].phase # "errored"
    BY <2>1, <2>2, <2>3, <2>5 DEF Awaited, Open
  <2> QED
    BY <2>4, <2>5
<1> QED
  BY <1>1, <1>2, <1>3

(* A stream that ends or tells of an error gives one answer, or, after an  *)
(* error event, a second one only when the connection breaks.              *)
LEMMA EndKeepsAnswers ==
    ASSUME ChatTypes, StreamTypes, NEW p \in Questions, Done(p) \/ ErrorEvent(p) \/ Drop(p),
           \A q \in Questions : AnswerInv(q), NoPlaceStored
    PROVE  StreamTypes' /\ (\A q \in Questions : AnswerInv(q)') /\ NoPlaceStored'
<1>1. drawing' = drawing /\ UNCHANGED atA
  BY DEF Done, ErrorEvent, Drop
<1>2. /\ streams' \in [Questions -> Stream]
      /\ \A q \in Questions \ {p} : streams'[q] = streams[q]
      /\ streams'[p].drawing = streams[p].drawing
      /\ streams'[p].element = streams[p].element
      /\ streams'[p].torn = streams[p].torn /\ streams'[p].left = streams[p].left
      /\ streams'[p].phase \in {"errored", "ended"}
  BY EndOfStream
<1>3. StreamTypes'
  BY <1>1, <1>2 DEF StreamTypes, atA
<1>4. DrawingKnown(p) /\ (Open(p) => DrawingKnown(p)')
  BY <1>1, <1>2 DEF AnswerInv, DrawingKnown, Open
<1>5. streams[p].element \in Nat
  BY DEF StreamTypes, Stream
<1>6. CASE Awaited(p) /\ Answered(p)
  <2>1. Open(p)
    BY <1>6 DEF Awaited, Open
  <2>2. /\ \A q \in Questions \ {p} : SamePlaces(q)
        /\ Places(history', Placeholder(p)) = Places(history, Placeholder(p))
        /\ Places(history, Answer(p)) = {} => \E i \in Nat : Places(history', Answer(p)) = {i}
        /\ ~streams[p].torn => /\ Places(view', Answer(p)) = {streams[p].element}
                               /\ Places(view', Placeholder(p)) = {}
    BY <1>6, <2>1, AnswerGoesToPlace
  <2>3. \A q \in Questions \ {p} : AnswerInv(q)'
    BY <1>1, <1>2, <2>2, OthersAreKept
  <2>4. NoPlaceStored'
    BY <2>2 DEF NoPlaceStored, SamePlaces
  <2>5. ~streams[p].left => Places(history, Answer(p)) = {}
    BY <1>6 DEF AnswerInv, PlaceKept
  <2>6. AnswerInv(p)'
    BY <1>2, <1>4, <1>5, <2>1, <2>2, <2>5
    DEF AnswerInv, Unasked, PlaceKept, AnswerStands, ErrorStands, Awaited, Given
  <2> QED
    BY <1>3, <2>3, <2>4, <2>6
<1>7. CASE /\ streams[p].phase = "errored" /\ streams'[p].phase = "ended"
           /\ Answered(p) /\ streams'[p].doubled
  <2>1. Open(p)
    BY <1>7 DEF Open
  <2>2. /\ \A q \in Questions \ {p} : SamePlaces(q)
        /\ Places(history', Placeholder(p)) = Places(history, Placeholder(p))
    BY <1>7, <2>1, AnswerGoesToPlace
  <2>3. \A q \in Questions \ {p} : AnswerInv(q)'
    BY <1>1, <1>2, <2>2, OthersAreKept
  <2>4. NoPlaceStored'
    BY <2>2 DEF NoPlaceStored, SamePlaces
  <2>5. AnswerInv(p)'
    BY <1>4, <1>7, <2>1
    DEF AnswerInv, Unasked, PlaceKept, AnswerStands, ErrorStands, Awaited, Given
  <2> QED
    BY <1>3, <2>3, <2>4, <2>5
<1>8. CASE /\ streams[p].phase = "errored" /\ streams'[p].phase = "ended"
           /\ UNCHANGED <<history, view>> /\ streams'[p].doubled = streams[p].doubled
  <2>1. \A q \in Questions \ {p} : AnswerInv(q)'
    BY <1>1, <1>2, <1>8, OthersAreKept DEF SamePlaces
  <2>2. Open(p)
    BY <1>8 DEF Open
  <2>3. AnswerInv(p)'
    BY <1>2, <1>4, <1>8, <2>2
    DEF AnswerInv, Unasked, PlaceKept, AnswerStands, ErrorStands, Awaited, Given
  <2> QED
    BY <1>3, <1>8, <2>1, <2>3 DEF NoPlaceStored
<1> QED
  BY <1>6, <1>7, <1>8, EndOfStream

(* A panel drawn anew shows what is stored, and leaves the open streams    *)
(* their old container.                                                    *)
LEMMA RenderKeepsAnswers ==
    ASSUME ChatTypes, StreamTypes, ChatSend \/ SwitchTask,
           \A q \in Questions : AnswerInv(q), NoPlaceStored
    PROVE  StreamTypes' /\ (\A q \in Questions : AnswerInv(q)') /\ NoPlaceStored'
<1>0. drawing \in Nat /\ drawing' = drawing + 1 /\ proposal' \in Nat /\ made' \in Nat
  <2>1. drawing \in Nat /\ proposal \in Nat /\ made \in Nat
    BY DEF StreamTypes
  <2>2. drawing' = drawing + 1 /\ made' = made /\ proposal' \in {proposal, 0}
    BY DEF ChatSend, SwitchTask, Render, atA, None
  <2> QED
    BY <2>1, <2>2
<1>1. CASE ChatSend
  <2>1. /\ history' = history /\ view' = history
        /\ streams' = [q \in Questions |->
                         IF Open(q) THEN [streams[q] EXCEPT !.torn = TRUE] ELSE streams[q]]
    BY <1>1 DEF ChatSend, Render
  <2>2. \A q \in Questions :
            /\ streams'[q] \in Stream
            /\ Open(q) => streams'[q].torn
            /\ ~Open(q) => streams'[q].torn = streams[q].torn
            /\ streams'[q].phase = streams[q].phase /\ streams'[q].left = streams[q].left
            /\ streams'[q].doubled = streams[q].doubled
            /\ streams'[q].drawing = streams[q].drawing
    BY <2>1 DEF StreamTypes, Stream
  <2>3. StreamTypes'
    <3>1. streams' = [q \in Questions |-> streams'[q]]
      BY <2>1
    <3>2. streams' \in [Questions -> Stream]
      BY <2>2, <3>1
    <3> QED
      BY <1>0, <3>2 DEF StreamTypes
  <2>4. ASSUME NEW q \in Questions PROVE AnswerInv(q)'
    <3>1. Places(history, Placeholder(q)) = {}
      BY DEF NoPlaceStored
    <3>2. streams[q].drawing \in Nat
      BY DEF StreamTypes, Stream
    <3>3. DrawingKnown(q)'
      BY <1>0, <2>2, <3>2 DEF AnswerInv, DrawingKnown, Open
    <3>4. Unasked(q)'
      BY <2>1, <2>2, <3>1 DEF AnswerInv, Unasked
    <3>5. PlaceKept(q)'
      BY <2>1, <2>2 DEF AnswerInv, PlaceKept, Awaited, Open
    <3>6. AnswerStands(q)' /\ ErrorStands(q)'
      BY <2>1, <2>2, <3>1 DEF AnswerInv, DrawingKnown, AnswerStands, ErrorStands, Given, Open
    <3> QED
      BY <3>3, <3>4, <3>5, <3>6 DEF AnswerInv
  <2> QED
    BY <2>1, <2>3, <2>4 DEF NoPlaceStored
<1>2. CASE SwitchTask
  <2>1. /\ history' = <<>> /\ view' = <<>>
        /\ streams' = [q \in Questions |->
                         IF streams[q].phase = "none" THEN streams[q]
                         ELSE [streams[q] EXCEPT !.torn = TRUE, !.left = TRUE]]
    BY <1>2 DEF SwitchTask
  <2>2. \A q \in Questions :
            /\ streams'[q] \in Stream
            /\ streams'[q].phase = streams[q].phase
            /\ streams'[q].drawing = streams[q].drawing
            /\ streams[q].phase = "none" => streams'[q] = streams[q]
            /\ streams[q].phase # "none" => streams'[q].torn /\ streams'[q].left
    <3> TAKE q \in Questions
    <3>1. streams[q] \in Stream
      BY DEF StreamTypes
    <3>2. CASE streams[q].phase = "none"
      BY <2>1, <3>1, <3>2
    <3>3. CASE streams[q].phase # "none"
      BY <2>1, <3>1, <3>3 DEF Stream
    <3> QED
      BY <3>2, <3>3
  <2>3. StreamTypes'
    <3>1. streams' = [q \in Questions |-> streams'[q]]
      BY <2>1
    <3>2. streams' \in [Questions -> Stream]
      BY <2>2, <3>1
    <3> QED
      BY <1>0, <3>2 DEF StreamTypes
  <2>4. \A m : Places(history', m) = {} /\ Places(view', m) = {}
    <3>1. Len(history') = 0 /\ Len(view') = 0
      BY <2>1
    <3> QED
      BY <3>1 DEF Places
  <2>5. ASSUME NEW q \in Questions PROVE AnswerInv(q)'
    <3>1. streams[q].drawing \in Nat
      BY DEF StreamTypes, Stream
    <3>2. DrawingKnown(q)'
      BY <1>0, <2>2, <3>1 DEF AnswerInv, DrawingKnown, Open
    <3> QED
      BY <2>2, <2>4, <3>2
      DEF AnswerInv, Unasked, PlaceKept, AnswerStands, ErrorStands, Awaited, Given
  <2> QED
    BY <2>3, <2>4, <2>5 DEF NoPlaceStored
<1> QED
  BY <1>1, <1>2

(* The plan that comes with an answer goes on with a stream that waits.    *)
LEMMA PlansKeepAnswers ==
    ASSUME StreamTypes, NEW p \in Questions, SendPlan(p) \/ PlanReceived(p),
           \A q \in Questions : AnswerInv(q), NoPlaceStored
    PROVE  StreamTypes' /\ (\A q \in Questions : AnswerInv(q)') /\ NoPlaceStored'
<1>0. streams \in [Questions -> Stream] /\ streams[p] \in Stream /\ proposal \in Nat
  BY DEF StreamTypes
<1>1. UNCHANGED chat /\ UNCHANGED atA
  BY DEF SendPlan, PlanReceived, chat
<1>2. /\ streams' \in [Questions -> Stream]
      /\ \A q \in Questions \ {p} : streams'[q] = streams[q]
      /\ streams'[p].drawing = streams[p].drawing
      /\ streams'[p].element = streams[p].element
      /\ streams'[p].torn = streams[p].torn /\ streams'[p].left = streams[p].left
      /\ Awaited(p) /\ streams'[p].phase \in {"planning", "planned"}
  <2>1. CASE SendPlan(p)
    <3>1. /\ streams' = [streams EXCEPT ![p].phase = "planning", ![p].plan = proposal]
          /\ streams[p].phase = "open"
      BY <2>1 DEF SendPlan
    <3> QED
      BY <1>0, <3>1 DEF Stream, Awaited
  <2>2. CASE PlanReceived(p)
    <3>1. streams' = [streams EXCEPT ![p].phase = "planned"] /\ streams[p].phase = "planning"
      BY <2>2 DEF PlanReceived
    <3> QED
      BY <1>0, <3>1 DEF Stream, Awaited
  <2> QED
    BY <2>1, <2>2
<1>3. StreamTypes'
  BY <1>1, <1>2 DEF StreamTypes, atA, chat
<1>4. \A q \in Questions \ {p} : AnswerInv(q)'
  BY <1>1, <1>2, OthersAreKept DEF chat, SamePlaces
<1>5. AnswerInv(p)'
  BY <1>1, <1>2
  DEF chat, AnswerInv, DrawingKnown, Unasked, PlaceKept, AnswerStands, ErrorStands, Awaited,
      Given, Open
<1> QED
  BY <1>1, <1>3, <1>4, <1>5 DEF chat, NoPlaceStored

(* Every step keeps the answers.                                           *)
LEMMA NextAnswers ==
    ChatTypes /\ FoldsStand /\ StreamTypes /\ (\A q \in Questions : AnswerInv(q)) /\ NoPlaceStored
      /\ [Next]_vars => StreamTypes' /\ (\A q \in Questions : AnswerInv(q)') /\ NoPlaceStored'
<1> SUFFICES ASSUME ChatTypes, FoldsStand, StreamTypes, \A q \in Questions : AnswerInv(q),
                    NoPlaceStored, [Next]_vars
             PROVE  StreamTypes' /\ (\A q \in Questions : AnswerInv(q)') /\ NoPlaceStored'
  OBVIOUS
<1>1. ASSUME drawing' = drawing, streams' = streams, proposal' \in Nat, made' \in Nat,
             \A q \in Questions : SamePlaces(q)
      PROVE  StreamTypes' /\ (\A q \in Questions : AnswerInv(q)') /\ NoPlaceStored'
  <2>1. StreamTypes'
    BY <1>1 DEF StreamTypes
  <2>2. \A q \in Questions : AnswerInv(q)'
    BY <1>1, OthersAreKept
  <2>3. NoPlaceStored'
    BY <1>1 DEF NoPlaceStored, SamePlaces
  <2> QED
    BY <2>1, <2>2, <2>3
<1>2. UNCHANGED <<history, view>> => \A q \in Questions : SamePlaces(q)
  BY DEF SamePlaces
<1>3. CASE \E q \in Questions : Ask(q)
  BY <1>3, AskKeepsAnswers
<1>4. CASE \E q \in Questions : Done(q) \/ ErrorEvent(q) \/ Drop(q)
  BY <1>4, EndKeepsAnswers
<1>5. CASE ChatSend \/ SwitchTask
  BY <1>5, RenderKeepsAnswers
<1>6. CASE (\E c \in Codes : Alert(c)) \/ AlphaOutput
  <2>1. UNCHANGED <<drawing, streams, atA>>
    BY <1>6 DEF Alert, AlphaOutput
  <2>2. \A q \in Questions : SamePlaces(q)
    BY <1>6, AlertsTouchNoAnswer
  <2> QED
    BY <1>1, <2>1, <2>2 DEF StreamTypes, atA
<1>7. CASE \E q \in Questions : SendPlan(q) \/ PlanReceived(q)
  BY <1>7, PlansKeepAnswers
<1>8. CASE \E c \in Codes : Ages(c)
  <2>1. UNCHANGED <<history, view, drawing, streams, atA>>
    BY <1>8 DEF Ages
  <2> QED
    BY <1>1, <1>2, <2>1 DEF StreamTypes, atA
<1>9. CASE Propose \/ \E r \in Requests : VerdictHandled(r)
  <2>1. UNCHANGED <<chat, streams>>
    BY <1>9 DEF Propose, VerdictHandled
  <2>2. proposal' \in Nat /\ made' \in Nat
    BY <1>9 DEF Propose, VerdictHandled, StreamTypes, None
  <2> QED
    BY <1>1, <1>2, <2>1, <2>2 DEF chat
<1>10. CASE \/ MountPage \/ UnmountPage \/ RestoreHandled \/ RestoreAnswer \/ RestoreFails
            \/ \E verdict \in {"approve", "reject"} : Click(verdict)
            \/ \E r \in Requests : VerdictAnswer(r) \/ VerdictFails(r)
  <2>1. UNCHANGED <<chat, streams, atA>>
    BY <1>10 DEF MountPage, UnmountPage, RestoreHandled, RestoreAnswer, RestoreFails, Click,
                 VerdictAnswer, VerdictFails
  <2> QED
    BY <1>1, <1>2, <2>1 DEF chat, StreamTypes, atA
<1>11. CASE Reset \/ Pose \/ MountScene \/ UnmountScene \/ UNCHANGED vars
  <2>1. UNCHANGED <<chat, streams, atA>>
    BY <1>11 DEF Reset, Pose, MountScene, UnmountScene, vars
  <2> QED
    BY <1>1, <1>2, <2>1 DEF chat, StreamTypes, atA
<1> QED
  BY <1>3, <1>4, <1>5, <1>6, <1>7, <1>8, <1>9, <1>10, <1>11
  DEF Next, Chat, Planning, Recording

(* A question whose stream has ended has one answer in the conversation,   *)
(* and one on the screen with no placeholder left, but for the cases that  *)
(* AnsweredOnce names (ChatPanel.js:262-380, sse.js:20-96).                *)
THEOREM AnswersStand == Spec => []AnsweredOnce
<1> DEFINE AllAnswered == \A q \in Questions : AnswerInv(q)
<1>1. Init => ChatTypes /\ FoldsStand /\ StreamTypes /\ AllAnswered /\ NoPlaceStored
  <2> SUFFICES ASSUME Init
               PROVE  ChatTypes /\ FoldsStand /\ StreamTypes /\ AllAnswered /\ NoPlaceStored
    OBVIOUS
  <2>1. NoFold \in Fold /\ NoFold.age = "old" /\ <<>> \in Seq(Messages)
    BY DEF NoFold, Fold
  <2>2. ChatTypes /\ FoldsStand
    BY <2>1 DEF Init, ChatTypes, FoldsStand
  <2>3. NoStream \in Stream
    BY DEF NoStream, Stream, None
  <2>4. StreamTypes
    BY <2>3 DEF Init, StreamTypes, None
  <2>5. \A m : Places(history, m) = {} /\ Places(view, m) = {}
    BY DEF Init, Places
  <2>6. \A q \in Questions : streams[q].phase = "none" /\ ~streams[q].left
    BY DEF Init, NoStream
  <2>7. AllAnswered
    BY <2>5, <2>6 DEF AnswerInv, DrawingKnown, Unasked, PlaceKept, AnswerStands, ErrorStands,
                      Awaited, Given, Open
  <2> QED
    BY <2>2, <2>4, <2>5, <2>7 DEF NoPlaceStored
<1>2. ChatTypes /\ FoldsStand /\ StreamTypes /\ AllAnswered /\ NoPlaceStored /\ [Next]_vars =>
          (ChatTypes /\ FoldsStand /\ StreamTypes /\ AllAnswered /\ NoPlaceStored)'
  BY NextFolds, NextAnswers
<1>3. ChatTypes /\ AllAnswered => AnsweredOnce
  <2> SUFFICES ASSUME ChatTypes, AllAnswered, NEW q \in Questions,
                      streams[q].phase = "ended", ~streams[q].doubled, ~streams[q].left
               PROVE  /\ Answers(history, q) = 1
                      /\ ~streams[q].torn =>
                             /\ Answers(view, q) = 1
                             /\ Message("wait", q, 1) \notin {view[i] : i \in DOMAIN view}
    BY DEF AnsweredOnce
  <2>1. DOMAIN history = 1 .. Len(history) /\ DOMAIN view = 1 .. Len(view)
    BY DEF ChatTypes
  <2>2. AnswerStands(q) /\ Given(q)
    BY DEF AnswerInv, Given
  <2>3. PICK i \in Nat : Places(history, Answer(q)) = {i}
    BY <2>2 DEF AnswerStands
  <2>4. Answers(history, q) = 1
    BY <2>1, <2>3, FS_Singleton DEF Answers, Places, Answer
  <2>5. ASSUME ~streams[q].torn
        PROVE  /\ Answers(view, q) = 1
               /\ Message("wait", q, 1) \notin {view[j] : j \in DOMAIN view}
    <3>1. PICK j \in Nat : Places(view, Answer(q)) = {j}
      BY <2>2, <2>5 DEF AnswerStands
    <3>2. Places(view, Placeholder(q)) = {}
      BY <2>2, <2>5 DEF AnswerStands
    <3>3. Answers(view, q) = 1
      BY <2>1, <3>1, FS_Singleton DEF Answers, Places, Answer
    <3> QED
      BY <2>1, <3>2, <3>3 DEF Places, Placeholder
  <2> QED
    BY <2>4, <2>5
<1> QED
  BY <1>1, <1>2, <1>3, PTL DEF Spec
===============================================================================
