----------------------------- MODULE CommandProofs -----------------------------
(***************************************************************************)
(* Theorems about Command, for any number of instructions, of calls and    *)
(* events under way, and of losses of the link.                            *)
(*                                                                         *)
(* ConsentedOnce is not inductive: a proposal reaches B in a batch, so it  *)
(* takes that only approved proposals are in the queue or in the batch,    *)
(* that none is in both (or it would be sent twice), and that one that is  *)
(* pending or being drafted has not been answered.                         *)
(***************************************************************************)
EXTENDS Command, TLAPS

USE IntentsAssumption, BoundsAssumption

Calls == {"action", "abort", "hover"}
Reports == {"executing", "completed", "hovering", "reject"}

(* Sequences of calls and events stay so.                                  *)
LEMMA ChannelTypes ==
    /\ \A c \in Seq(Calls), x \in Calls : Append(c, x) \in Seq(Calls)
    /\ \A c \in Seq(Calls) : c # << >> => Tail(c) \in Seq(Calls) /\ Head(c) \in Calls
    /\ \A c \in Seq(Reports), x \in Reports : Append(c, x) \in Seq(Reports)
    /\ \A c \in Seq(Reports) : c # << >> => Tail(c) \in Seq(Reports) /\ Head(c) \in Reports
    /\ \A c \in Seq(Reports) : c \o <<"hovering">> \in Seq(Reports) /\ c \o << >> \in Seq(Reports)
  BY DEF Calls, Reports

(* What the operators on fates return is a fate.                           *)
LEMMA FateTypes ==
    ASSUME fate \in [Proposals -> Fates]
    PROVE  /\ \A ps : Closed(ps) \in [Proposals -> Fates]
           /\ \A ps : Left(ps) \in [Proposals -> Fates]
           /\ \A ps : Overtaken(ps) \in [Proposals -> Fates]
           /\ \A ps : Sending(ps) \in [Proposals -> Fates]
           /\ \A p \in Proposals : Granted(fate[p]) \in Fates
  BY DEF Closed, Left, Overtaken, Sending, Granted, Fates

(* The variables in three groups, as the steps disturb them.               *)
PropTypes ==
    /\ lastHuman \in Says \cup {None}
    /\ drafting \subseteq Proposals
    /\ pending \in Proposals \cup {None}
    /\ fate \in [Proposals -> Fates]

AlphaTypes ==
    /\ queue \subseteq Intents
    /\ pc \in {"sleep", "translating"}
    /\ batch \subseteq Intents
    /\ flight \in Statuses

LinkTypes ==
    /\ {aplan, aUp, bUp, stale, bplan, bfirst, mute, arrived} \subseteq BOOLEAN
    /\ chan \in Seq(Calls)
    /\ back \in Seq(Reports)
    /\ breaks \in 0 .. MaxBreaks
    /\ bstatus \in {"idle", "executing", "hovering"}

(* The type invariant is that of its three parts.                          *)
LEMMA TypeParts == TypeOK <=> PropTypes /\ AlphaTypes /\ LinkTypes
  BY DEF TypeOK, PropTypes, AlphaTypes, LinkTypes, Calls, Reports

(* A call that is sent or refused keeps the types of the link.             *)
LEMMA SendTypes ==
    ASSUME TypeOK, NEW call \in Calls, Send(call)
    PROVE  chan' \in Seq(Calls) /\ stale' \in BOOLEAN
<1>1. chan \in Seq(Calls) /\ aUp \in BOOLEAN
  BY TypeParts DEF LinkTypes
<1>2. chan' \in Seq(Calls)
  BY <1>1, ChannelTypes DEF Send
<1>3. stale' = ~aUp
  BY DEF Send
<1> QED
  BY <1>1, <1>2, <1>3

(* The first state has its type.                                           *)
LEMMA InitTypes == Init => TypeOK
<1> SUFFICES ASSUME Init PROVE TypeOK
  OBVIOUS
<1>1. PropTypes /\ AlphaTypes
  BY DEF Init, PropTypes, AlphaTypes, Fates, Statuses
<1>2. chan \in Seq(Calls) /\ back \in Seq(Reports)
  BY DEF Init
<1>3. 0 \in 0 .. MaxBreaks
  OBVIOUS
<1>4. {aplan, aUp, bUp, stale, bplan, bfirst, mute, arrived} \subseteq BOOLEAN
  BY Zenon DEF Init
<1>5. LinkTypes
  BY <1>2, <1>3, <1>4 DEF Init, LinkTypes
<1> QED
  BY <1>1, <1>5, TypeParts

(* Every step keeps the type invariant.                                    *)
LEMMA NextTypes == TypeOK /\ [Next]_vars => TypeOK'
<1> SUFFICES ASSUME TypeOK, [Next]_vars PROVE PropTypes' /\ AlphaTypes' /\ LinkTypes'
  BY TypeParts, PTL
<1>0. PropTypes /\ AlphaTypes /\ LinkTypes
  BY TypeParts
<1>1. ASSUME NEW h \in Says, Chat(h) PROVE PropTypes' /\ AlphaTypes' /\ LinkTypes'
  BY <1>0, <1>1 DEF Chat, PropTypes, AlphaTypes, LinkTypes, alphaVars, linkVars, bVars
<1>2. CASE Forward
  BY <1>0, <1>2 DEF Forward, PropTypes, AlphaTypes, LinkTypes, propVars, linkVars, bVars, Intents
<1>3. ASSUME NEW p \in Proposals, ProposeStart(p) PROVE PropTypes' /\ AlphaTypes' /\ LinkTypes'
  <2>1. PropTypes'
    BY <1>0, <1>3 DEF ProposeStart, PropTypes, Fates
  <2> QED
    BY <1>0, <1>3, <2>1 DEF ProposeStart, AlphaTypes, LinkTypes, alphaVars, linkVars, bVars
<1>4. ASSUME NEW p \in Proposals, ProposeFinish(p) PROVE PropTypes' /\ AlphaTypes' /\ LinkTypes'
  <2>1. PropTypes'
    BY <1>0, <1>4, FateTypes DEF ProposeFinish, PropTypes
  <2> QED
    BY <1>0, <1>4, <2>1 DEF ProposeFinish, AlphaTypes, LinkTypes, alphaVars, linkVars, bVars
<1>5. ASSUME NEW p \in Proposals, Approve(p) PROVE PropTypes' /\ AlphaTypes' /\ LinkTypes'
  <2>1. fate' \in [Proposals -> Fates]
    BY <1>0, <1>5, FateTypes DEF Approve, PropTypes
  <2>2. queue' \subseteq Intents
    BY <1>0, <1>5 DEF Approve, AlphaTypes, Intents
  <2> QED
    BY <1>0, <1>5, <2>1, <2>2 DEF Approve, PropTypes, AlphaTypes, LinkTypes, linkVars, bVars
<1>6. ASSUME NEW p \in Proposals, Reject(p) PROVE PropTypes' /\ AlphaTypes' /\ LinkTypes'
  <2>1. PropTypes'
    BY <1>0, <1>6, FateTypes DEF Reject, PropTypes
  <2> QED
    BY <1>0, <1>6, <2>1 DEF Reject, AlphaTypes, LinkTypes, alphaVars, linkVars, bVars
<1>7. CASE CreateTask \/ ActivateTask \/ DeleteTask
  <2>1. PropTypes'
    BY <1>0, <1>7, FateTypes DEF CreateTask, ActivateTask, DeleteTask, LeaveTask, PropTypes
  <2> QED
    BY <1>0, <1>7, <2>1 DEF CreateTask, ActivateTask, DeleteTask, LeaveTask, AlphaTypes, LinkTypes,
       alphaVars, linkVars, bVars
<1>8. CASE Abort
  <2>1. chan' \in Seq(Calls) /\ stale' \in BOOLEAN
    BY <1>8, SendTypes DEF Abort, Calls
  <2>2. PropTypes'
    BY <1>0, <1>8, FateTypes DEF Abort, PropTypes
  <2> QED
    BY <1>0, <1>8, <2>1, <2>2 DEF Abort, AlphaTypes, LinkTypes, linkVars, bVars, Statuses
<1>9. CASE TickTranslate
  BY <1>0, <1>9 DEF TickTranslate, PropTypes, AlphaTypes, LinkTypes, propVars, linkVars, bVars
<1>10. CASE TickHover
  <2>1. chan' \in Seq(Calls) /\ stale' \in BOOLEAN
    BY <1>10, SendTypes DEF TickHover, SendHover, Calls
  <2> QED
    BY <1>0, <1>10, <2>1 DEF TickHover, SendHover, PropTypes, AlphaTypes, LinkTypes, propVars,
       linkVars, bVars, Statuses
<1>11. CASE TranslateOk
  <2>1. chan' \in Seq(Calls) /\ stale' \in BOOLEAN
    BY <1>11, SendTypes DEF TranslateOk, Calls
  <2>2. PropTypes'
    BY <1>0, <1>11, FateTypes DEF TranslateOk, PropTypes
  <2> QED
    BY <1>0, <1>11, <2>1, <2>2 DEF TranslateOk, AlphaTypes, LinkTypes, linkVars, bVars, Statuses
<1>12. CASE TranslateFail
  <2>1. chan' \in Seq(Calls) /\ stale' \in BOOLEAN
    BY <1>12, SendTypes DEF TranslateFail, SendHover, Calls
  <2> QED
    BY <1>0, <1>12, <2>1 DEF TranslateFail, SendHover, PropTypes, AlphaTypes, LinkTypes, propVars,
       linkVars, bVars, Statuses
<1>13. CASE HandleStatus
  <2>1. back' \in Seq(Reports) /\ flight' \in Statuses
    BY <1>0, <1>13, ChannelTypes DEF HandleStatus, LinkTypes, Reports, Statuses
  <2> QED
    BY <1>0, <1>13, <2>1 DEF HandleStatus, PropTypes, AlphaTypes, LinkTypes, propVars, linkVars, bVars
<1>14. CASE HandleReject
  <2>1. chan' \in Seq(Calls) /\ stale' \in BOOLEAN
    BY <1>14, SendTypes DEF HandleReject, SendHover, Calls
  <2>2. back' \in Seq(Reports)
    BY <1>0, <1>14, ChannelTypes DEF HandleReject, LinkTypes
  <2> QED
    BY <1>0, <1>14, <2>1, <2>2 DEF HandleReject, SendHover, PropTypes, AlphaTypes, LinkTypes,
       propVars, linkVars, bVars, Statuses
<1>15. CASE BHandle
  <2>1. chan' \in Seq(Calls)
    BY <1>0, <1>15, ChannelTypes DEF BHandle, LinkTypes
  <2>2. back' \in Seq(Reports)
    BY <1>0, <1>15, ChannelTypes DEF BHandle, TakeUp, Stop, HoverNow, LinkTypes, Reports
  <2>3. {bplan', bfirst', mute', arrived'} \subseteq BOOLEAN /\ bstatus' \in {"idle", "executing", "hovering"}
    BY <1>0, <1>15 DEF BHandle, TakeUp, Stop, HoverNow, LinkTypes
  <2> QED
    BY <1>0, <1>15, <2>1, <2>2, <2>3 DEF BHandle, PropTypes, AlphaTypes, LinkTypes, propVars,
       alphaVars, linkVars
<1>16. CASE BArrives \/ BAdvance
  <2>1. back' \in Seq(Reports)
    BY <1>0, <1>16, ChannelTypes DEF BArrives, BAdvance, NextAction, NothingLeft, LinkTypes, Reports
  <2>2. {bfirst', mute', arrived'} \subseteq BOOLEAN /\ bstatus' \in {"idle", "executing", "hovering"}
    BY <1>0, <1>16 DEF BArrives, BAdvance, NextAction, NothingLeft, LinkTypes
  <2> QED
    BY <1>0, <1>16, <2>1, <2>2 DEF BArrives, BAdvance, PropTypes, AlphaTypes, LinkTypes, propVars,
       alphaVars, linkVars
<1>17. CASE BLoses \/ ALoses
  <2>1. breaks' \in 0 .. MaxBreaks
    BY <1>0, <1>17 DEF BLoses, ALoses, Breaks, LinkTypes
  <2>2. chan' \in Seq(Calls) /\ back' \in Seq(Reports)
    <3>1. << >> \in Seq(Calls) /\ << >> \in Seq(Reports)
      OBVIOUS
    <3>2. chan \in Seq(Calls) /\ back \in Seq(Reports)
      BY <1>0 DEF LinkTypes
    <3>3. CASE BLoses
      BY <3>1, <3>2, <3>3, ChannelTypes DEF BLoses, HoverNow
    <3>4. CASE ALoses
      BY <3>1, <3>2, <3>4 DEF ALoses
    <3> QED
      BY <1>17, <3>3, <3>4
  <2>3. PropTypes' /\ AlphaTypes'
    BY <1>0, <1>17 DEF BLoses, ALoses, PropTypes, AlphaTypes, propVars, alphaVars
  <2>4. CASE BLoses
    <3>1. {aUp', aplan', arrived'} \subseteq BOOLEAN
      BY <1>0, <2>4 DEF BLoses, LinkTypes, alphaVars
    <3> QED
      BY <2>1, <2>2, <2>3, <2>4, <3>1 DEF BLoses, HoverNow, LinkTypes
  <2>5. CASE ALoses
    BY <1>0, <2>1, <2>2, <2>3, <2>5 DEF ALoses, LinkTypes, alphaVars, bVars
  <2> QED
    BY <1>17, <2>4, <2>5
<1>18. CASE Reconnect
  <2>1. chan' \in Seq(Calls) /\ back' \in Seq(Reports)
    BY <1>18 DEF Reconnect
  <2>2. {aplan', aUp', bUp', stale', bplan', bfirst', mute', arrived'} \subseteq BOOLEAN
    BY <1>0, <1>18 DEF Reconnect, LinkTypes, alphaVars, bVars
  <2> QED
    BY <1>0, <1>18, <2>1, <2>2 DEF Reconnect, PropTypes, AlphaTypes, LinkTypes, propVars, alphaVars, bVars
<1>19. CASE UNCHANGED vars
  BY <1>0, <1>19 DEF vars, PropTypes, AlphaTypes, LinkTypes, propVars, alphaVars, linkVars, bVars
<1> QED
  BY <1>1, <1>2, <1>3, <1>4, <1>5, <1>6, <1>7, <1>8, <1>9, <1>10, <1>11, <1>12, <1>13, <1>14,
     <1>15, <1>16, <1>17, <1>18, <1>19 DEF Next, Human, Beta, Alpha, HandleEvent, Link

(* The state of A's command path, of the link and of B as A sees it keeps  *)
(* its type.                                                               *)
THEOREM TypeCorrect == Spec => []TypeOK
  BY InitTypes, NextTypes, PTL DEF Spec

-------------------------------------------------------------------------------
(* Where a proposal can be, by what has become of it.                      *)
Unanswered == {p \in Proposals : fate[p] \in {"open", "left"}}

Consent ==
    /\ ConsentedOnce
    /\ \A p \in Proposals : p \in queue \cup batch => fate[p] \in {"approved", "overtaken"}
    /\ \A p \in Proposals : p \notin queue \cap batch
    /\ pending \in Proposals => pending \in Unanswered
    /\ drafting \subseteq Unanswered \ {pending}

(* Steps of B and of the link, and those of A that send a hover or look at *)
(* an event, leave the proposals, the queue and the batch alone, or drop   *)
(* the batch.                                                              *)
LEMMA ConsentKept ==
    ASSUME Consent, UNCHANGED <<pending, drafting, fate, queue>>, batch' \in {batch, {}}
    PROVE  Consent'
  BY DEF Consent, ConsentedOnce, Unanswered

(* Every step keeps the invariant.                                         *)
LEMMA NextConsent == TypeOK /\ Consent /\ [Next]_vars => Consent'
<1> SUFFICES ASSUME TypeOK, Consent, [Next]_vars PROVE Consent'
  OBVIOUS
<1>0. PropTypes /\ AlphaTypes
  BY TypeParts
<1>1. ASSUME NEW h \in Says, Chat(h) PROVE Consent'
  BY <1>1, ConsentKept DEF Chat, alphaVars
<1>2. CASE Forward
  <2>1. \A p \in Proposals : p # lastHuman
    BY <1>0, <1>2 DEF Forward, PropTypes
  <2>2. \A p \in Proposals : p \in queue' <=> p \in queue
    BY <1>2, <2>1 DEF Forward
  <2> QED
    BY <1>2, <2>2 DEF Forward, propVars, Consent, ConsentedOnce, Unanswered
<1>3. ASSUME NEW p \in Proposals, ProposeStart(p) PROVE Consent'
  <2>1. fate' = [fate EXCEPT ![p] = "open"] /\ fate[p] = "new"
    BY <1>3 DEF ProposeStart
  <2>2. p \notin queue \cup batch /\ p # pending
    BY <2>1 DEF Consent, Unanswered
  <2> QED
    BY <1>0, <1>3, <2>1, <2>2 DEF ProposeStart, alphaVars, PropTypes, Consent, ConsentedOnce, Unanswered
<1>4. ASSUME NEW p \in Proposals, ProposeFinish(p) PROVE Consent'
  BY <1>0, <1>4 DEF ProposeFinish, alphaVars, PropTypes, Consent, ConsentedOnce, Unanswered, Closed
<1>5. ASSUME NEW p \in Proposals, Approve(p) PROVE Consent'
  <2>1. fate[p] \in {"open", "left"} /\ p \notin queue \cup batch /\ p \notin drafting
    BY <1>5 DEF Approve, Consent, Unanswered
  <2>2. pending' = None /\ None \notin Proposals
    BY <1>5 DEF Approve, Intents
  <2> QED
    BY <1>0, <1>5, <2>1, <2>2 DEF Approve, PropTypes, Consent, ConsentedOnce, Unanswered, Closed, Granted
<1>6. ASSUME NEW p \in Proposals, Reject(p) PROVE Consent'
  <2>1. pending' = None /\ None \notin Proposals
    BY <1>6 DEF Reject, Intents
  <2> QED
    BY <1>0, <1>6, <2>1 DEF Reject, alphaVars, PropTypes, Consent, ConsentedOnce, Unanswered, Closed
<1>7. CASE CreateTask \/ ActivateTask \/ DeleteTask
  <2>1. pending' = None /\ None \notin Proposals
    BY <1>7 DEF CreateTask, ActivateTask, DeleteTask, LeaveTask, Intents
  <2>2. UNCHANGED <<queue, batch, drafting>>
    BY <1>7 DEF CreateTask, ActivateTask, DeleteTask, LeaveTask, alphaVars
  <2>3. fate' = Left(drafting) \/ fate' = Closed({pending})
    BY <1>7 DEF CreateTask, ActivateTask, DeleteTask, LeaveTask
  <2>4. \A p \in Proposals :
            fate'[p] \in IF p \in drafting THEN {fate[p], "left"}
                         ELSE IF fate[p] \in {"open", "left"} THEN {fate[p], "closed"} ELSE {fate[p]}
    BY <1>0, <2>3 DEF Left, Closed, PropTypes, Consent, Unanswered
  <2> QED
    BY <1>0, <2>1, <2>2, <2>4 DEF PropTypes, Consent, ConsentedOnce, Unanswered
<1>8. CASE Abort
  BY <1>0, <1>8 DEF Abort, PropTypes, Consent, ConsentedOnce, Unanswered, Overtaken
<1>9. CASE TickTranslate
  BY <1>9 DEF TickTranslate, propVars, Consent, ConsentedOnce, Unanswered
<1>10. CASE TickHover
  BY <1>10, ConsentKept DEF TickHover, propVars
<1>11. CASE TranslateOk
  BY <1>0, <1>11 DEF TranslateOk, PropTypes, Consent, ConsentedOnce, Unanswered, Sending
<1>12. CASE TranslateFail
  BY <1>12, ConsentKept DEF TranslateFail, propVars
<1>13. CASE HandleEvent
  BY <1>13, ConsentKept DEF HandleEvent, HandleStatus, HandleReject, propVars
<1>14. CASE BHandle \/ BArrives \/ BAdvance
  BY <1>14, ConsentKept DEF BHandle, BArrives, BAdvance, propVars, alphaVars
<1>15. CASE Link
  BY <1>15, ConsentKept DEF Link, BLoses, ALoses, Reconnect, propVars, alphaVars
<1>16. CASE UNCHANGED vars
  BY <1>16, ConsentKept DEF vars, propVars, alphaVars
<1> QED
  BY <1>1, <1>2, <1>3, <1>4, <1>5, <1>6, <1>7, <1>8, <1>9, <1>10, <1>11, <1>12, <1>13, <1>14,
     <1>15, <1>16 DEF Next, Human, Beta, Alpha

(* At the start no proposal has been made.                                 *)
LEMMA InitConsent == Init => Consent
  BY DEF Init, Consent, ConsentedOnce, Unanswered, Intents

(* However proposals, approvals, rejects, switches of tasks, aborts,       *)
(* failing translations and losses of the link follow one another, a       *)
(* proposal reaches B at most once, and only with a consent given while it *)
(* could be given.                                                         *)
THEOREM ConsentedOnceHolds == Spec => []ConsentedOnce
<1>1. Consent => ConsentedOnce
  BY DEF Consent
<1> QED
  BY <1>1, InitTypes, NextTypes, InitConsent, NextConsent, PTL DEF Spec

-------------------------------------------------------------------------------
(* RevokedPlanStops is not inductive: with calls under way it is the last  *)
(* of them that stops B, and the losses of the link are covered because B  *)
(* gives its plan up when it notices one.                                  *)
LastCall == chan[Len(chan)]

WillStop == IF chan = << >> THEN ~bplan ELSE LastCall \in {"abort", "hover"}

Revoked ==
    /\ ~bUp => ~bplan
    /\ (Up /\ ~aplan) => WillStop

(* A call that is sent is the last one.                                    *)
LEMMA SentIsLast ==
    ASSUME TypeOK, NEW call \in Calls, Send(call), aUp
    PROVE  chan' # << >> /\ LastCall' = call
<1>1. chan \in Seq(Calls)
  BY TypeParts DEF LinkTypes
<1>2. chan' = Append(chan, call)
  BY DEF Send
<1> QED
  BY <1>1, <1>2 DEF LastCall

(* A call leaves another one under way, or is the last.                    *)
LEMMA CallTaken ==
    ASSUME chan \in Seq(Calls), chan # << >>, chan' = Tail(chan)
    PROVE  /\ chan' # << >> => LastCall' = LastCall
           /\ chan' = << >> => LastCall = Head(chan)
<1>1. chan' # << >> => LastCall' = LastCall
  BY DEF LastCall
<1>2. Len(Tail(chan)) = Len(chan) - 1 /\ Len(chan) \in Nat /\ Head(chan) = chan[1]
  OBVIOUS
<1>3. Len(<< >>) = 0
  OBVIOUS
<1>4. chan' = << >> => Len(Tail(chan)) = 0
  BY <1>3, Zenon
<1>5. chan' = << >> => Len(chan) = 1
  BY <1>2, <1>4
<1> QED
  BY <1>1, <1>2, <1>5 DEF LastCall

(* Every step keeps what is known of plans that were given up.             *)
LEMMA NextRevoked == TypeOK /\ Revoked /\ [Next]_vars => Revoked'
<1> SUFFICES ASSUME TypeOK, Revoked, [Next]_vars PROVE Revoked'
  OBVIOUS
<1>1. ASSUME UNCHANGED <<bplan, chan, aUp, bUp, aplan>> PROVE Revoked'
  BY <1>1 DEF Revoked, Up, WillStop, LastCall
<1>2. ASSUME NEW call \in {"abort", "hover"}, Send(call), UNCHANGED <<bVars, aUp, bUp>> PROVE Revoked'
  <2>1. Up => WillStop'
    BY <1>2, SentIsLast DEF Calls, Up, WillStop
  <2> QED
    BY <1>2, <2>1 DEF Revoked, Up, bVars
<1>3. CASE \E h \in Says : Chat(h)
  BY <1>1, <1>3 DEF Chat, alphaVars, linkVars, bVars
<1>4. CASE \E p \in Proposals : Approve(p) \/ Reject(p)
  BY <1>1, <1>4 DEF Approve, Reject, alphaVars, linkVars, bVars
<1>5. CASE CreateTask \/ ActivateTask \/ DeleteTask
  BY <1>1, <1>5 DEF CreateTask, ActivateTask, DeleteTask, LeaveTask, alphaVars, linkVars, bVars
<1>6. CASE Abort
  BY <1>2, <1>6 DEF Abort, linkVars
<1>7. CASE Beta
  BY <1>1, <1>7 DEF Beta, Forward, ProposeStart, ProposeFinish, alphaVars, linkVars, bVars
<1>8. CASE TickTranslate \/ HandleStatus
  BY <1>1, <1>8 DEF TickTranslate, HandleStatus, linkVars, bVars
<1>9. CASE TickHover \/ TranslateFail \/ HandleReject
  BY <1>2, <1>9 DEF TickHover, TranslateFail, HandleReject, SendHover, linkVars
<1>10. CASE TranslateOk
  BY <1>10 DEF TranslateOk, Revoked, Up, linkVars, bVars
<1>11. CASE BHandle
  <2>1. chan \in Seq(Calls) /\ chan # << >> /\ chan' = Tail(chan)
    BY <1>11, TypeParts DEF BHandle, LinkTypes
  <2>2. chan' # << >> => LastCall' = LastCall
    BY <2>1, CallTaken
  <2>3. chan' = << >> => LastCall = Head(chan)
    BY <2>1, CallTaken
  <2>4. Head(chan) \in {"abort", "hover"} => ~bplan'
    BY <1>11 DEF BHandle, Stop, HoverNow
  <2>5. UNCHANGED <<aUp, bUp, aplan>> /\ bUp
    BY <1>11 DEF BHandle, linkVars, alphaVars
  <2> QED
    BY <2>1, <2>2, <2>3, <2>4, <2>5 DEF Revoked, Up, WillStop, LastCall
<1>12. CASE BArrives \/ BAdvance
  BY <1>1, <1>12 DEF BArrives, BAdvance, linkVars, alphaVars
<1>13. CASE BLoses
  BY <1>13 DEF BLoses, HoverNow, Revoked, Up
<1>14. CASE ALoses
  BY <1>14 DEF ALoses, Revoked, Up, bVars
<1>15. CASE Reconnect
  BY <1>15 DEF Reconnect, Revoked, Up, WillStop, bVars
<1>16. CASE UNCHANGED vars
  BY <1>1, <1>16 DEF vars, linkVars, alphaVars, bVars
<1> QED
  BY <1>3, <1>4, <1>5, <1>6, <1>7, <1>8, <1>9, <1>10, <1>11, <1>12, <1>13, <1>14, <1>15, <1>16
     DEF Next, Human, Alpha, HandleEvent, Link

(* At the start nothing is under way.                                      *)
LEMMA InitRevoked == Init => Revoked
  BY DEF Init, Revoked, Up, WillStop

(* A plan that A has given up is stopped at B, once B has read every call, *)
(* whatever the order of the calls, the events and the losses of the link. *)
THEOREM RevokedPlanStopsHolds == Spec => []RevokedPlanStops
<1>1. Revoked => RevokedPlanStops
  BY DEF Revoked, RevokedPlanStops, WillStop
<1> QED
  BY <1>1, InitTypes, NextTypes, InitRevoked, NextRevoked, PTL DEF Spec

-------------------------------------------------------------------------------
(* QuietAgreement is not inductive: with events under way it is the last   *)
(* of them that has to agree with B, with calls under way the last of them *)
(* has to be one that B answers, and what A cannot send makes it stale.    *)
Shown == IF back = << >> THEN flight ELSE back[Len(back)]

WillAgree ==
    IF chan = << >>
    THEN ~mute => (Shown = "executing" <=> bstatus = "executing")
    ELSE LastCall # "abort"

Agreement ==
    /\ ~aUp => stale
    /\ (Up /\ aplan /\ ~stale) => WillAgree

(* A report is what is shown in the end.                                   *)
LEMMA ReportIsShown ==
    ASSUME back \in Seq(Reports), NEW e \in Reports, back' = Append(back, e)
    PROVE  Shown' = e
  BY DEF Shown

(* A status that A has read is what was shown in the end, or a later one   *)
(* is under way.                                                           *)
LEMMA ReadingShows ==
    ASSUME back \in Seq(Reports), back # << >>, back' = Tail(back), flight' = Head(back)
    PROVE  Shown' = Shown
<1>1. Len(Tail(back)) = Len(back) - 1 /\ Len(back) \in Nat /\ Head(back) = back[1]
  OBVIOUS
<1>2. CASE back' = << >>
  <2>1. Len(Tail(back)) = 0
    <3>1. Len(<< >>) = 0
      OBVIOUS
    <3> QED
      BY <1>2, <3>1, Zenon
  <2>2. Len(back) = 1
    BY <1>1, <2>1
  <2> QED
    BY <1>1, <1>2, <2>2 DEF Shown
<1>3. CASE back' # << >>
  BY <1>3 DEF Shown
<1> QED
  BY <1>2, <1>3

(* Every step keeps what A and B agree on.                                 *)
LEMMA NextAgreement == TypeOK /\ Agreement /\ [Next]_vars => Agreement'
<1> SUFFICES ASSUME TypeOK, Agreement, [Next]_vars PROVE Agreement'
  OBVIOUS
<1>0. chan \in Seq(Calls) /\ back \in Seq(Reports)
  BY TypeParts DEF LinkTypes
<1>1. ASSUME UNCHANGED <<bstatus, mute, chan, back, stale, aUp, bUp, aplan, flight>> PROVE Agreement'
  BY <1>1 DEF Agreement, Up, WillAgree, LastCall, Shown
<1>2. ASSUME NEW call \in Calls, Send(call), UNCHANGED <<aUp, bUp>>, aplan' => call # "abort"
      PROVE  Agreement'
  BY <1>2, SentIsLast DEF Send, Agreement, Up, WillAgree
<1>3. CASE \E h \in Says : Chat(h)
  BY <1>1, <1>3 DEF Chat, alphaVars, linkVars, bVars
<1>4. CASE \E p \in Proposals : Approve(p) \/ Reject(p)
  BY <1>1, <1>4 DEF Approve, Reject, alphaVars, linkVars, bVars
<1>5. CASE CreateTask \/ ActivateTask \/ DeleteTask
  BY <1>1, <1>5 DEF CreateTask, ActivateTask, DeleteTask, LeaveTask, alphaVars, linkVars, bVars
<1>6. CASE Abort
  BY <1>2, <1>6 DEF Abort, linkVars, Calls
<1>7. CASE Beta
  BY <1>1, <1>7 DEF Beta, Forward, ProposeStart, ProposeFinish, alphaVars, linkVars, bVars
<1>8. CASE TickTranslate
  BY <1>1, <1>8 DEF TickTranslate, linkVars, bVars
<1>9. CASE TickHover \/ TranslateFail
  BY <1>2, <1>9 DEF TickHover, TranslateFail, SendHover, linkVars, Calls
<1>10. CASE HandleReject
  BY <1>2, <1>10 DEF HandleReject, SendHover, linkVars, Calls
<1>11. CASE TranslateOk
  BY <1>2, <1>11 DEF TranslateOk, linkVars, Calls
<1>12. CASE HandleStatus
  <2>1. Shown' = Shown
    BY <1>0, <1>12, ReadingShows DEF HandleStatus
  <2> QED
    BY <1>12, <2>1 DEF HandleStatus, Agreement, Up, WillAgree, LastCall, linkVars, bVars
<1>13. CASE BHandle
  <2>1. chan' # << >> => LastCall' = LastCall
    BY <1>0, <1>13, CallTaken DEF BHandle
  <2>2. chan' = << >> => LastCall = Head(chan)
    BY <1>0, <1>13, CallTaken DEF BHandle
  <2>3. UNCHANGED <<aUp, bUp, aplan, stale>> /\ chan # << >>
    BY <1>13 DEF BHandle, linkVars, alphaVars
  <2>4. ASSUME Head(chan) # "abort", ~mute'
        PROVE  Shown' = "executing" <=> bstatus' = "executing"
    <3>1. CASE TakeUp
      BY <1>0, <2>4, <3>1, ReportIsShown DEF TakeUp, Reports
    <3>2. CASE HoverNow(<<"hovering">>)
      <4>1. back' = Append(back, "hovering")
        BY <1>0, <3>2 DEF HoverNow
      <4> QED
        BY <1>0, <3>2, <4>1, ReportIsShown DEF HoverNow, Reports
    <3> QED
      BY <1>13, <2>4, <3>1, <3>2 DEF BHandle
  <2> QED
    BY <2>1, <2>2, <2>3, <2>4 DEF Agreement, Up, WillAgree
<1>14. CASE BArrives
  BY <1>1, <1>14 DEF BArrives, linkVars, alphaVars
<1>17. CASE BAdvance
  <2>1. \/ UNCHANGED <<bstatus, mute, back>>
        \/ Shown' = "executing" <=> bstatus' = "executing"
    <3>1. CASE NextAction
      BY <1>0, <3>1, ReportIsShown DEF NextAction, Reports
    <3>2. CASE NothingLeft
      <4>1. bstatus' # "executing"
        BY <3>2 DEF NothingLeft
      <4> QED
        BY <1>0, <3>2, <4>1, ReportIsShown DEF NothingLeft, Reports
    <3> QED
      BY <1>17, <3>1, <3>2 DEF BAdvance
  <2> QED
    BY <1>17, <2>1 DEF BAdvance, Agreement, Up, WillAgree, LastCall, Shown, linkVars, alphaVars
<1>15. CASE Link
  BY <1>15 DEF Link, BLoses, ALoses, Reconnect, Agreement, Up
<1>16. CASE UNCHANGED vars
  BY <1>1, <1>16 DEF vars, linkVars, alphaVars, bVars
<1> QED
  BY <1>3, <1>4, <1>5, <1>6, <1>7, <1>8, <1>9, <1>10, <1>11, <1>12, <1>13, <1>14, <1>15, <1>16, <1>17
     DEF Next, Human, Alpha, HandleEvent

(* At the start neither of them has a plan.                                *)
LEMMA InitAgreement == Init => Agreement
  BY DEF Init, Agreement, Up

(* When every message has been read A shows a plan being flown exactly     *)
(* when B has one under way, for any number of calls and events that were  *)
(* under way at once, with the exceptions that QuietAgreement names.       *)
THEOREM QuietAgreementHolds == Spec => []QuietAgreement
<1>1. Agreement => QuietAgreement
  BY DEF Agreement, QuietAgreement, Quiet, WillAgree, Shown
<1> QED
  BY <1>1, InitTypes, NextTypes, InitAgreement, NextAgreement, PTL DEF Spec
===============================================================================
