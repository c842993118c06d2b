--------------------------- MODULE ConnectionProofs ---------------------------
(***************************************************************************)
(* Theorems about the two connections of backend A: that of the browser    *)
(* (Connection), for any number of requests, of replaced sockets and of    *)
(* pushes under way; and the link to B (Link), for any connections and any *)
(* number of faults, of frames under way and of handlers that are late.    *)
(*                                                                         *)
(* NeverStranded and StatusTells are inductive by themselves.  LinkShown   *)
(* rests on what the messages under way are worth while a socket is open:  *)
(* the last of the pushes tells the link as it is; when there is none, so  *)
(* does every answer that is not old; and a view that differs from the     *)
(* link has a request under way that will set it right.                    *)
(*                                                                         *)
(* UiTells rests on UpIsRead: as long as A takes B to be there, a handler  *)
(* reads, and its end will tell the browsers, for no connection of the     *)
(* backlog has a handler yet (BacklogNew).  HoverOnLoss rests on           *)
(* HoversBetween.                                                          *)
(***************************************************************************)
EXTENDS Connection, Link, SequenceTheorems, TLAPS

-------------------------------------------------------------------------------
(* The connection of the browser.                                          *)

USE MissLimitAssumption, MaxLingeringAssumption, MaxPushAssumption, FetchesAssumption

Fetch == [state : {"free", "asked"} \cup States, old : BOOLEAN]

(* The types in their parts: the flags, what else is neither a message nor *)
(* a request, and these.                                                   *)
FlagTypes == {net, hb, ever, timer, intruded, doubt} \subseteq BOOLEAN

PlainTypes ==
    /\ cur \in {"connecting", "open", "closing", "closed"}
    /\ lingering \in Nat /\ idle \in 0 .. MissLimit
    /\ status \in {"disconnected", "connecting", "connected"}
    /\ ipc \in States /\ view \in States \cup {"unknown"}

MessageTypes == pushes \in Seq(States) /\ fetch \in [Fetches -> Fetch]

Answered(f) == fetch[f].state \in States
Fresh(f) == fetch[f].state = "asked" \/ (Answered(f) /\ ~fetch[f].old)

(* No message is left from one socket to the next.                         *)
PushesOfSocket == cur \in {"connecting", "closed"} => pushes = <<>>

(* An answer that has not been given is not old.                           *)
OldAnswers == \A f \in Fetches : fetch[f].state = "asked" => ~fetch[f].old

LastPushTells == cur = "open" /\ pushes # <<>> => pushes[Len(pushes)] = ipc

FreshAnswersTell ==
    cur = "open" /\ pushes = <<>> =>
        \A f \in Fetches : Answered(f) /\ ~fetch[f].old => fetch[f].state = ipc

ViewTells ==
    cur = "open" /\ pushes = <<>> /\ ~doubt => view = ipc \/ \E f \in Fetches : Fresh(f)

LinkInv ==
    PushesOfSocket /\ OldAnswers /\ LastPushTells /\ FreshAnswersTell /\ ViewTells

-------------------------------------------------------------------------------
(* The parts are the whole.                                                *)
LEMMA TypeParts == TypeOK <=> FlagTypes /\ PlainTypes /\ MessageTypes
  BY Zenon DEF TypeOK, FlagTypes, PlainTypes, MessageTypes, Fetch

(* The initial state has its types.                                        *)
LEMMA InitTypes == Init => FlagTypes /\ PlainTypes /\ MessageTypes
<1> SUFFICES ASSUME Init PROVE FlagTypes /\ PlainTypes /\ MessageTypes
  OBVIOUS
<1>1. Asked \in Fetch /\ Free \in Fetch
  BY DEF Asked, Free, Fetch
<1>2. fetch \in [Fetches -> Fetch]
  BY <1>1 DEF Init
<1>3. pushes \in Seq(States)
  BY DEF Init
<1>4. FlagTypes
  BY Zenon DEF Init, FlagTypes
<1>5. PlainTypes
  BY DEF Init, PlainTypes
<1> QED
  BY <1>2, <1>3, <1>4, <1>5 DEF MessageTypes

(* A refresh and a push leave the requests with their types.               *)
LEMMA FetchTypes ==
    ASSUME fetch \in [Fetches -> Fetch]
    PROVE  /\ Outdate \in [Fetches -> Fetch]
           /\ \A f \in Fetches : Refresh(f) => fetch' \in [Fetches -> Fetch]
<1>1. Asked \in Fetch /\ \A x \in Fetch : [x EXCEPT !.old = TRUE] \in Fetch
  BY DEF Asked, Fetch
<1> QED
  BY <1>1 DEF Outdate, Refresh

(* Every step keeps the types.                                             *)
LEMMA NextFlags == FlagTypes /\ MessageTypes /\ [Next]_vars => FlagTypes'
<1> SUFFICES ASSUME FlagTypes, MessageTypes, [Next]_vars PROVE FlagTypes'
  OBVIOUS
<1> USE DEF FlagTypes
<1>1. CASE NetChanges \/ IpcChanges
  BY <1>1, Zenon DEF NetChanges, IpcChanges, sockVars, linkVars
<1>2. CASE OnOpen \/ OnMessage
  BY <1>2, Zenon DEF OnOpen, OnMessage, linkVars
<1>3. CASE OnClose \/ OnCloseReplaced
  BY <1>3, Zenon DEF OnClose, OnCloseReplaced, Closed, linkVars
<1>4. CASE Heartbeat
  BY <1>4, Zenon DEF Heartbeat, linkVars
<1>5. CASE ReconnectTimer \/ TabVisible
  BY <1>5, Zenon DEF ReconnectTimer, TabVisible
<1>6. CASE OnLinkStatus
  BY <1>6, Zenon DEF OnLinkStatus
<1>7. CASE Link
  <2> PICK f \in Fetches : Answer(f) \/ OnAnswer(f) \/ FetchFails(f)
    BY <1>7 DEF Link
  <2>1. fetch[f].old \in BOOLEAN
    BY DEF MessageTypes, Fetch
  <2> QED
    BY <2>1, Zenon DEF Answer, OnAnswer, FetchFails, sockVars
<1>8. CASE UNCHANGED vars
  BY <1>8, Zenon DEF vars, sockVars, linkVars
<1> QED
  BY <1>1, <1>2, <1>3, <1>4, <1>5, <1>6, <1>7, <1>8 DEF Next, Socket

(* Every step keeps the types of the plain variables.                      *)
LEMMA NextPlain == PlainTypes /\ MessageTypes /\ [Next]_vars => PlainTypes'
<1> SUFFICES ASSUME PlainTypes, MessageTypes, [Next]_vars PROVE PlainTypes'
  OBVIOUS
<1> USE DEF PlainTypes
<1>1. CASE NetChanges
  BY <1>1 DEF NetChanges, linkVars
<1>2. CASE IpcChanges
  BY <1>2 DEF IpcChanges, sockVars
<1>3. CASE OnOpen
  BY <1>3 DEF OnOpen
<1>4. CASE OnMessage
  BY <1>4 DEF OnMessage, linkVars
<1>5. CASE OnClose
  BY <1>5 DEF OnClose, Closed
<1>6. CASE OnCloseReplaced
  BY <1>6 DEF OnCloseReplaced, Closed, linkVars
<1>7. CASE Heartbeat
  BY <1>7 DEF Heartbeat, linkVars
<1>8. CASE ReconnectTimer
  BY <1>8 DEF ReconnectTimer, Connect
<1>9. CASE TabVisible
  BY <1>9 DEF TabVisible, Connect
<1>10. CASE OnLinkStatus
  <2>1. Head(pushes) \in States
    BY <1>10 DEF OnLinkStatus, MessageTypes
  <2> QED
    BY <1>10, <2>1 DEF OnLinkStatus
<1>11. CASE Link
  BY <1>11 DEF Link, Answer, OnAnswer, FetchFails, sockVars
<1>12. CASE UNCHANGED vars
  BY <1>12 DEF vars, sockVars, linkVars
<1> QED
  BY <1>1, <1>2, <1>3, <1>4, <1>5, <1>6, <1>7, <1>8, <1>9, <1>10, <1>11, <1>12
  DEF Next, Socket

(* Every step keeps the types of sockets and messages.                     *)
LEMMA NextMessages == PlainTypes /\ MessageTypes /\ [Next]_vars => MessageTypes'
<1> SUFFICES ASSUME PlainTypes, MessageTypes, [Next]_vars PROVE MessageTypes'
  OBVIOUS
<1> USE DEF MessageTypes
<1>1. CASE NetChanges \/ OnMessage \/ OnCloseReplaced \/ Heartbeat
  BY <1>1 DEF NetChanges, OnMessage, OnCloseReplaced, Heartbeat, linkVars
<1>2. CASE IpcChanges
  <2>1. pushes' \in Seq(States)
    BY <1>2 DEF IpcChanges
  <2> QED
    BY <1>2, <2>1 DEF IpcChanges
<1>3. CASE OnOpen
  BY <1>3, FetchTypes DEF OnOpen
<1>4. CASE OnClose
  BY <1>4 DEF OnClose
<1>5. CASE ReconnectTimer \/ TabVisible
  <2>1. pushes' = pushes \/ pushes' = <<>>
    BY <1>5 DEF ReconnectTimer, TabVisible, Connect
  <2>2. fetch' = fetch
    BY <1>5 DEF ReconnectTimer, TabVisible
  <2>3. <<>> \in Seq(States)
    OBVIOUS
  <2> QED
    BY <2>1, <2>2, <2>3
<1>6. CASE OnLinkStatus
  BY <1>6, FetchTypes DEF OnLinkStatus
<1>7. CASE Link
  <2> PICK f \in Fetches : Answer(f) \/ OnAnswer(f) \/ FetchFails(f)
    BY <1>7 DEF Link
  <2>1. Free \in Fetch /\ ipc \in States
    BY DEF Free, Fetch, PlainTypes
  <2>2. [fetch[f] EXCEPT !.state = ipc] \in Fetch
    BY <2>1 DEF Fetch
  <2>3. CASE Answer(f)
    BY <2>2, <2>3 DEF Answer
  <2>4. CASE OnAnswer(f)
    BY <2>1, <2>4, FetchTypes DEF OnAnswer
  <2>5. CASE FetchFails(f)
    BY <2>1, <2>5 DEF FetchFails
  <2> QED
    BY <2>3, <2>4, <2>5
<1>8. CASE UNCHANGED vars
  BY <1>8 DEF vars, linkVars
<1> QED
  BY <1>1, <1>2, <1>3, <1>4, <1>5, <1>6, <1>7, <1>8 DEF Next, Socket

(* Every variable keeps its type, whatever sockets and requests do.        *)
THEOREM TypeCorrect == Spec => []TypeOK
<1>1. Init => FlagTypes /\ PlainTypes /\ MessageTypes
  BY InitTypes
<1>2. FlagTypes /\ PlainTypes /\ MessageTypes /\ [Next]_vars =>
          (FlagTypes /\ PlainTypes /\ MessageTypes)'
  BY NextFlags, NextPlain, NextMessages
<1>3. FlagTypes /\ PlainTypes /\ MessageTypes => TypeOK
  BY TypeParts
<1> QED
  BY <1>1, <1>2, <1>3, PTL DEF Spec

-------------------------------------------------------------------------------
(* Every step keeps the timer, the heartbeat and the indicator right.      *)
LEMMA NextWatched ==
    TypeOK /\ NeverStranded /\ StatusTells /\ [Next]_vars => NeverStranded' /\ StatusTells'
<1> SUFFICES ASSUME TypeOK, NeverStranded, StatusTells, [Next]_vars
             PROVE  NeverStranded' /\ StatusTells'
  OBVIOUS
<1> USE DEF NeverStranded, StatusTells
<1>1. CASE NetChanges \/ IpcChanges \/ OnMessage \/ OnLinkStatus
  BY <1>1 DEF NetChanges, IpcChanges, OnMessage, OnLinkStatus, sockVars, linkVars
<1>2. CASE OnOpen
  BY <1>2 DEF OnOpen
<1>3. CASE OnClose \/ OnCloseReplaced
  BY <1>3 DEF OnClose, OnCloseReplaced, Closed, TypeOK
<1>4. CASE Heartbeat
  BY <1>4 DEF Heartbeat
<1>5. CASE ReconnectTimer \/ TabVisible
  BY <1>5 DEF ReconnectTimer, TabVisible, Connect
<1>6. CASE Link
  BY <1>6 DEF Link, Answer, OnAnswer, FetchFails, sockVars
<1>7. CASE UNCHANGED vars
  BY <1>7 DEF vars, sockVars
<1> QED
  BY <1>1, <1>2, <1>3, <1>4, <1>5, <1>6, <1>7 DEF Next, Socket

(* The page is never left without a connection for good: every closed      *)
(* socket has the timer that replaces it, every open one that no replaced  *)
(* socket closed under has its heartbeat (ws.js:80-95, 227-250).           *)
THEOREM Watched == Spec => []NeverStranded
<1>1. Init => NeverStranded /\ StatusTells
  BY DEF Init, NeverStranded, StatusTells
<1>2. TypeOK /\ NeverStranded /\ StatusTells /\ [Next]_vars => (NeverStranded /\ StatusTells)'
  BY NextWatched
<1> QED
  BY <1>1, <1>2, TypeCorrect, PTL DEF Spec

(* The indicator says connected only while there is a socket, and says it  *)
(* for every open socket that no replaced one closed under (app.js:452).   *)
THEOREM IndicatorTells == Spec => []StatusTells
<1>1. Init => NeverStranded /\ StatusTells
  BY DEF Init, NeverStranded, StatusTells
<1>2. TypeOK /\ NeverStranded /\ StatusTells /\ [Next]_vars => (NeverStranded /\ StatusTells)'
  BY NextWatched
<1> QED
  BY <1>1, <1>2, TypeCorrect, PTL DEF Spec

-------------------------------------------------------------------------------
(* Every step keeps the messages under way worth what LinkInv says.        *)
LEMMA NextLink == TypeOK /\ LinkInv /\ [Next]_vars => LinkInv'
<1> SUFFICES ASSUME TypeOK, LinkInv, [Next]_vars PROVE LinkInv'
  OBVIOUS
<1> USE DEF LinkInv, PushesOfSocket, OldAnswers, LastPushTells, FreshAnswersTell, ViewTells,
            Answered, Fresh
<1>f. fetch \in [Fetches -> Fetch] /\ pushes \in Seq(States)
  BY DEF TypeOK, Fetch
<1>o. /\ Outdate \in [Fetches -> Fetch]
      /\ \A f \in Fetches : Outdate[f].state = fetch[f].state
      /\ \A f \in Fetches : fetch[f].state \in States => Outdate[f].old
      /\ \A f \in Fetches : fetch[f].state \notin States => Outdate[f] = fetch[f]
  BY <1>f DEF Outdate, Fetch, States
<1>1. CASE NetChanges \/ OnMessage \/ Heartbeat
  BY <1>1 DEF NetChanges, OnMessage, Heartbeat, linkVars
<1>2. CASE IpcChanges
  <2>1. CASE cur = "open"
    <3>1. pushes' # <<>> /\ pushes'[Len(pushes')] = ipc'
      BY <1>2, <2>1, <1>f, AppendProperties DEF IpcChanges
    <3> QED
      BY <1>2, <2>1, <3>1 DEF IpcChanges, sockVars
  <2>2. CASE cur # "open"
    BY <1>2, <2>2 DEF IpcChanges, sockVars
  <2> QED
    BY <2>1, <2>2
<1>3. CASE OnOpen
  <2> PICK f \in Fetches : fetch[f] = Free /\ Refresh(f)
    BY <1>3 DEF OnOpen
  <2>1. /\ fetch'[f] = Asked
        /\ \A g \in Fetches : fetch'[g].state \in States => fetch'[g].old
        /\ \A g \in Fetches : fetch'[g].state = "asked" => ~fetch'[g].old
    BY <1>f DEF Refresh, Asked, Fetch, States
  <2> QED
    BY <1>3, <2>1 DEF OnOpen, Asked, States
<1>4. CASE OnClose
  BY <1>4 DEF OnClose
<1>5. CASE OnCloseReplaced
  BY <1>5 DEF OnCloseReplaced, linkVars
<1>6. CASE ReconnectTimer \/ TabVisible
  BY <1>6 DEF ReconnectTimer, TabVisible, Connect, TypeOK
<1>7. CASE OnLinkStatus
  <2>1. /\ pushes' # <<>> => pushes'[Len(pushes')] = pushes[Len(pushes)]
        /\ pushes' = <<>> => Head(pushes) = pushes[Len(pushes)]
    <3>1. pushes # <<>> /\ pushes' = Tail(pushes)
      BY <1>7 DEF OnLinkStatus
    <3>2. /\ Head(pushes) = pushes[1] /\ Len(pushes') = Len(pushes) - 1 /\ Len(pushes) \in Nat \ {0}
          /\ \A i \in 1 .. Len(pushes) - 1 : pushes'[i] = pushes[i + 1]
      BY <3>1, <1>f, HeadTailProperties
    <3>3. pushes' = <<>> <=> Len(pushes) = 1
      <4>1. pushes' \in Seq(States)
        BY <3>1, <1>f, HeadTailProperties
      <4>2. pushes' = <<>> <=> Len(pushes') = 0
        BY <4>1
      <4> QED
        BY <3>2, <4>2
    <3> QED
      BY <3>2, <3>3
  <2>2. pushes[Len(pushes)] = ipc /\ ipc' = ipc /\ cur' = cur /\ cur = "open"
    BY <1>7 DEF OnLinkStatus
  <2>3. OldAnswers' /\ FreshAnswersTell'
    BY <1>7, <1>o, <2>2 DEF OnLinkStatus, States
  <2> QED
    BY <1>7, <2>1, <2>2, <2>3 DEF OnLinkStatus
<1>8. CASE Link
  <2> PICK f \in Fetches : Answer(f) \/ OnAnswer(f) \/ FetchFails(f)
    BY <1>8 DEF Link
  <2>1. CASE Answer(f)
    <3>1. /\ fetch'[f].state = ipc /\ ipc \in States /\ ~fetch'[f].old
          /\ \A g \in Fetches \ {f} : fetch'[g] = fetch[g]
      BY <2>1, <1>f DEF Answer, Fetch, TypeOK
    <3>2. UNCHANGED <<cur, ipc, pushes, view, doubt>>
      BY <2>1 DEF Answer, sockVars
    <3> QED
      BY <3>1, <3>2 DEF States
  <2>2. CASE OnAnswer(f)
    <3>1. /\ fetch'[f] = Free
          /\ \A g \in Fetches \ {f} : fetch'[g] = Outdate[g]
      BY <2>2, <1>o DEF OnAnswer
    <3>2. UNCHANGED <<cur, ipc, pushes>>
      BY <2>2 DEF OnAnswer, sockVars
    <3>3. OldAnswers' /\ FreshAnswersTell'
      BY <3>1, <3>2, <1>o DEF Free, States
    <3>4. ViewTells'
      BY <2>2, <3>2 DEF OnAnswer
    <3> QED
      BY <3>2, <3>3, <3>4
  <2>3. CASE FetchFails(f)
    <3>1. /\ fetch'[f] = Free
          /\ \A g \in Fetches \ {f} : fetch'[g] = fetch[g]
      BY <2>3, <1>f DEF FetchFails
    <3>2. UNCHANGED <<cur, ipc, pushes, view>> /\ doubt'
      BY <2>3 DEF FetchFails, sockVars
    <3> QED
      BY <3>1, <3>2 DEF Free, States
  <2> QED
    BY <2>1, <2>2, <2>3
<1>9. CASE UNCHANGED vars
  BY <1>9 DEF vars, sockVars, linkVars
<1> QED
  BY <1>1, <1>2, <1>3, <1>4, <1>5, <1>6, <1>7, <1>8, <1>9 DEF Next, Socket

(* Once nothing is under way the panel shows the link A-B as it is, unless *)
(* the last answer was overtaken by a push or the last request failed      *)
(* (app.js:436-447, 462-484).                                              *)
THEOREM LinkIsShown == Spec => []LinkShown
<1>1. Init => LinkInv
  BY DEF Init, LinkInv, PushesOfSocket, OldAnswers, LastPushTells, FreshAnswersTell, ViewTells,
         Asked, Free
<1>2. TypeOK /\ LinkInv /\ [Next]_vars => LinkInv'
  BY NextLink
<1>3. LinkInv => LinkShown
  BY DEF LinkInv, ViewTells, Fresh, Answered, LinkShown, Free, States
<1> QED
  BY <1>1, <1>2, <1>3, TypeCorrect, PTL DEF Spec

-------------------------------------------------------------------------------
(* The link to B.                                                          *)

USE ConnsAssumption, BoundsAssumption

ConnTypes ==
    /\ backlog \in Seq(Conns)
    /\ task \in [Conns -> {"none", "reading", "closing"}]
    /\ open \subseteq Conns /\ writer \in Conns \cup {None}
    /\ sock \in Conns \cup {None}

IpcFlags ==
    /\ {running, aUp, late, bUp, handler, unheard} \subseteq BOOLEAN
    /\ ui \in {"up", "down"}
    /\ thread \in {"start", "preflight", "reading", "lost", "closing", "connecting"}
    /\ faults \in 0 .. MaxFaults /\ slow \in 0 .. MaxSlow

(* The frames of a connection under way, in both directions.               *)
FramesBounded ==
    /\ down \in [Conns -> Seq({"ping", "order"})] /\ up \in [Conns -> Nat]
    /\ \A c \in Conns : Len(down[c]) + up[c] <= MaxFrames

(* A connection stands in the backlog once, and has no handler yet.        *)
BacklogNew ==
    /\ \A i \in DOMAIN backlog : task[backlog[i]] = "none"
    /\ \A i, j \in DOMAIN backlog : backlog[i] = backlog[j] => i = j

(* A takes B to be there only while it reads from some connection.         *)
UpIsRead == aUp => \E c \in Conns : task[c] = "reading"

(* A thread that reads, or has just read, has a socket.                    *)
ReadsSocket == thread \in {"reading", "lost", "closing"} => sock \in Conns

OrderTypes == order \in Conns \cup {None}

LinkTypes == ConnTypes /\ IpcFlags /\ FramesBounded /\ ReadsSocket /\ OrderTypes

(* Between two connections B flies no order, unless the loss was unheard.  *)
HoversBetween == ~unheard /\ thread \notin {"reading", "lost"} => order = None
-------------------------------------------------------------------------------
(* Connects takes an unused connection, which is one of Conns.             *)
LEMMA ConnectsUnused ==
    ASSUME Connects
    PROVE  \E c \in Conns :
               /\ Unused(c) /\ sock' = c
               /\ backlog' = Append(backlog, c)
               /\ open' = open \cup {c}
               /\ down' = [down EXCEPT ![c] = <<>>]
               /\ up' = [up EXCEPT ![c] = 0]
<1> DEFINE c == CHOOSE d \in Conns : Unused(d)
<1>1. c \in Conns /\ Unused(c)
  BY DEF Connects
<1> QED
  BY <1>1, Zenon DEF Connects

(* Every step keeps the types of the connections.                          *)
LEMMA NextConnTypes == ConnTypes /\ [IpcNext]_ipcVars => ConnTypes'
<1> SUFFICES ASSUME ConnTypes, [IpcNext]_ipcVars PROVE ConnTypes'
  OBVIOUS
<1> USE DEF ConnTypes, atB, frames
<1>1. CASE Accept
  <2>1. Head(backlog) \in Conns /\ Tail(backlog) \in Seq(Conns)
    BY <1>1, HeadTailProperties DEF Accept
  <2> QED
    BY <1>1, <2>1 DEF Accept
<1>2. CASE \E c \in Conns : ReadPong(c)
  BY <1>2 DEF ReadPong
<1>3. CASE \E c \in Conns : HandlerEnds(c)
  BY <1>3 DEF HandlerEnds
<1>4. CASE \E c \in Conns : HandlerCloses(c)
  BY <1>4 DEF HandlerCloses
<1>5. CASE Ping \/ SendOrder \/ ReadFrame
  BY <1>5 DEF Ping, SendOrder, ReadFrame, atA
<1>6. CASE PongLate \/ Watchdog \/ AStarts
  BY <1>6 DEF PongLate, Watchdog, AStarts
<1>7. CASE AEnds
  BY <1>7 DEF AEnds
<1>8. CASE Start
  <2>1. CASE UNCHANGED <<sock, backlog, open, frames, bUp>>
    BY <1>8, <2>1 DEF Start
  <2>2. CASE Connects
    <3> PICK c \in Conns : /\ sock' = c /\ backlog' = Append(backlog, c)
                           /\ open' = open \cup {c}
      BY <2>2, ConnectsUnused
    <3> QED
      BY <1>8, AppendProperties DEF Start
  <2> QED
    BY <1>8, <2>1, <2>2 DEF Start
<1>9. CASE Reconnect
  <2> PICK c \in Conns : /\ sock' = c /\ backlog' = Append(backlog, c)
                         /\ open' = open \cup {c}
    BY <1>9, ConnectsUnused DEF Reconnect
  <2> QED
    BY <1>9, AppendProperties DEF Reconnect
<1>10. CASE PreflightEnds \/ SetHandler \/ ReadFails \/ Notify
  BY <1>10 DEF PreflightEnds, SetHandler, ReadFails, Notify, atA
<1>11. CASE Close \/ BEnds
  BY <1>11 DEF Close, BEnds, atA
<1>12. CASE UNCHANGED ipcVars
  BY <1>12 DEF ipcVars, atA
<1> QED
  BY <1>1, <1>2, <1>3, <1>4, <1>5, <1>6, <1>7, <1>8, <1>9, <1>10, <1>11, <1>12 DEF IpcNext, Handler

(* A thread that reads, or has just read, has a socket.                    *)
LEMMA NextReadsSocket == ConnTypes /\ ReadsSocket /\ [IpcNext]_ipcVars => ReadsSocket'
<1> SUFFICES ASSUME ConnTypes, ReadsSocket, [IpcNext]_ipcVars PROVE ReadsSocket'
  OBVIOUS
<1> USE DEF ReadsSocket
<1>1. CASE UNCHANGED <<sock, thread>>
  BY <1>1
<1>2. CASE Start \/ Close \/ BEnds
  BY <1>2 DEF Start, Close, BEnds
<1>3. CASE Reconnect
  BY <1>3, ConnectsUnused DEF Reconnect
<1>4. CASE PreflightEnds
  BY <1>4 DEF PreflightEnds, ConnTypes
<1>5. CASE ReadFails \/ Notify
  BY <1>5 DEF ReadFails, Notify
<1> QED
  BY <1>1, <1>2, <1>3, <1>4, <1>5
     DEF IpcNext, Handler, Accept, ReadPong, HandlerEnds, HandlerCloses, Ping, SendOrder,
         PongLate, Watchdog, AEnds, AStarts, SetHandler, ReadFrame, ipcVars, atB

(* Every step keeps what is under way, and its bound.                      *)
LEMMA NextFrames ==
    ConnTypes /\ ReadsSocket /\ FramesBounded /\ [IpcNext]_ipcVars => FramesBounded'
<1> SUFFICES ASSUME ConnTypes, ReadsSocket, FramesBounded, [IpcNext]_ipcVars PROVE FramesBounded'
  OBVIOUS
<1> USE DEF FramesBounded
<1>0. \A c \in Conns : Len(down[c]) \in Nat /\ up[c] \in Nat
  OBVIOUS
<1>1. CASE UNCHANGED <<down, up>>
  BY <1>1
<1>2. CASE \E c \in Conns : ReadPong(c)
  BY <1>0, <1>2 DEF ReadPong
<1>3. CASE \E c \in Conns : HandlerEnds(c)
  BY <1>0, <1>3 DEF HandlerEnds
<1>4. CASE Ping \/ SendOrder
  <2>1. PICK m \in {"ping", "order"} :
            /\ down' = [down EXCEPT ![writer] = Append(@, m)] /\ up' = up
            /\ Len(down[writer]) + up[writer] < MaxFrames
    BY <1>4 DEF Ping, SendOrder
  <2>2. writer \in Conns
    BY <1>4 DEF Ping, SendOrder, ConnTypes
  <2>3. /\ Append(down[writer], m) \in Seq({"ping", "order"})
        /\ Len(Append(down[writer], m)) = Len(down[writer]) + 1
    BY <2>2, AppendProperties
  <2> QED
    BY <1>0, <2>1, <2>2, <2>3
<1>5. CASE AEnds
  BY <1>0, <1>5 DEF AEnds
<1>6. CASE Start \/ Reconnect
  <2>1. CASE UNCHANGED frames
    BY <2>1 DEF frames
  <2>2. CASE Connects
    <3> PICK c \in Conns : down' = [down EXCEPT ![c] = <<>>] /\ up' = [up EXCEPT ![c] = 0]
      BY <2>2, ConnectsUnused
    <3> QED
      BY <1>0
  <2> QED
    BY <1>6, <2>1, <2>2 DEF Start, Reconnect
<1>7. CASE ReadFrame
  <2>1. sock \in Conns /\ down[sock] # <<>> /\ down' = [down EXCEPT ![sock] = Tail(@)]
    BY <1>7 DEF ReadFrame, ReadsSocket
  <2>2. Tail(down[sock]) \in Seq({"ping", "order"}) /\ Len(Tail(down[sock])) = Len(down[sock]) - 1
    BY <2>1, HeadTailProperties
  <2>3. up' = up \/ up' = [up EXCEPT ![sock] = @ + 1]
    BY <1>7 DEF ReadFrame
  <2> QED
    BY <1>0, <2>1, <2>2, <2>3
<1> QED
  BY <1>1, <1>2, <1>3, <1>4, <1>5, <1>6, <1>7
     DEF IpcNext, Handler, Accept, HandlerCloses, PongLate, Watchdog, AStarts, PreflightEnds,
         SetHandler, ReadFails, Notify, Close, BEnds, ipcVars, frames
(* Every step keeps the types of the flags and of the counters.            *)
LEMMA NextIpcFlags == IpcFlags /\ [IpcNext]_ipcVars => IpcFlags'
<1> SUFFICES ASSUME IpcFlags, [IpcNext]_ipcVars PROVE IpcFlags'
  OBVIOUS
<1> DEFINE Flags == {running, aUp, late, bUp, handler, unheard} \subseteq BOOLEAN
           Rest == /\ ui \in {"up", "down"}
                   /\ thread \in {"start", "preflight", "reading", "lost", "closing", "connecting"}
                   /\ faults \in 0 .. MaxFaults /\ slow \in 0 .. MaxSlow
<1>1. Flags'
  BY Zenon DEF IpcFlags, IpcNext, Handler, Accept, ReadPong, HandlerEnds, HandlerCloses, Ping,
     SendOrder, PongLate, Watchdog, AEnds, AStarts, Start, Connects, PreflightEnds, SetHandler,
     ReadFrame, ReadFails, Notify, Close, Reconnect, BEnds, ipcVars, atA, atB, bounds
<1>2. Rest'
  BY DEF IpcFlags, IpcNext, Handler, Accept, ReadPong, HandlerEnds, HandlerCloses, Ping, SendOrder,
     PongLate, Watchdog, AEnds, AStarts, Start, Connects, PreflightEnds, SetHandler,
     ReadFrame, ReadFails, Notify, Close, Reconnect, BEnds, Fault, ipcVars, atA, atB, bounds
<1> QED
  BY <1>1, <1>2 DEF IpcFlags
(* An order was brought by a connection.                                   *)
LEMMA NextOrder == ReadsSocket /\ OrderTypes /\ [IpcNext]_ipcVars => OrderTypes'
  BY DEF ReadsSocket, OrderTypes, IpcNext, Handler, Accept, ReadPong, HandlerEnds, HandlerCloses,
     Ping, SendOrder, PongLate, Watchdog, AEnds, AStarts, Start, PreflightEnds, SetHandler,
     ReadFrame, ReadFails, Notify, Close, Reconnect, BEnds, ipcVars, atB

(* Every step leaves the backlog a list of new connections.                *)
LEMMA NextBacklogNew == ConnTypes /\ BacklogNew /\ [IpcNext]_ipcVars => BacklogNew'
<1> SUFFICES ASSUME ConnTypes, BacklogNew, [IpcNext]_ipcVars PROVE BacklogNew'
  OBVIOUS
<1> USE DEF ConnTypes, BacklogNew
<1>1. CASE Accept
  <2>1. /\ backlog # <<>> /\ backlog' = Tail(backlog)
        /\ task' = [task EXCEPT ![backlog[1]] = "reading"]
    BY <1>1 DEF Accept
  <2>2. /\ Len(backlog') = Len(backlog) - 1
        /\ \A i \in 1 .. Len(backlog) - 1 : backlog'[i] = backlog[i + 1]
    BY <2>1, HeadTailProperties
  <2>3. DOMAIN backlog = 1 .. Len(backlog) /\ DOMAIN backlog' = 1 .. Len(backlog) - 1
    BY <2>1, <2>2, HeadTailProperties
  <2>4. \A i \in DOMAIN backlog' : i + 1 \in DOMAIN backlog /\ backlog'[i] = backlog[i + 1]
                                   /\ backlog[i + 1] # backlog[1]
    BY <2>1, <2>2, <2>3
  <2> QED
    BY <2>1, <2>3, <2>4
<1>2. CASE \E c \in Conns : HandlerEnds(c) \/ HandlerCloses(c)
  <2>1. PICK c \in Conns : HandlerEnds(c) \/ HandlerCloses(c)
    BY <1>2
  <2>2. task[c] # "none" /\ backlog' = backlog /\ \E t : task' = [task EXCEPT ![c] = t]
    BY <2>1, Zenon DEF HandlerEnds, HandlerCloses
  <2>3. \A i \in DOMAIN backlog : backlog[i] # c /\ backlog[i] \in Conns
    BY <2>2
  <2> QED
    BY <2>2, <2>3
<1>3. CASE AEnds
  BY <1>3 DEF AEnds
<1>4. CASE Start \/ Reconnect
  <2>1. task' = task
    BY <1>4 DEF Start, Reconnect
  <2>2. CASE backlog' = backlog
    BY <2>1, <2>2
  <2>3. CASE Connects
    <3>1. PICK c \in Conns : Unused(c) /\ backlog' = Append(backlog, c)
      BY <2>3, ConnectsUnused
    <3>2. task[c] = "none" /\ \A i \in DOMAIN backlog : backlog[i] # c
      BY <3>1 DEF Unused, Queued
    <3>3. /\ DOMAIN backlog = 1 .. Len(backlog) /\ DOMAIN backlog' = 1 .. Len(backlog) + 1
          /\ \A i \in 1 .. Len(backlog) : backlog'[i] = backlog[i]
          /\ backlog'[Len(backlog) + 1] = c
      BY <3>1, AppendProperties
    <3> QED
      BY <2>1, <3>2, <3>3
  <2> QED
    BY <1>4, <2>2, <2>3 DEF Start, Reconnect
<1>5. CASE UNCHANGED <<task, backlog>>
  BY <1>5
<1> QED
  BY <1>1, <1>2, <1>3, <1>4, <1>5
     DEF IpcNext, Handler, ReadPong, Ping, SendOrder, PongLate, Watchdog, AStarts, PreflightEnds,
         SetHandler, ReadFrame, ReadFails, Notify, Close, BEnds, ipcVars, atA
(* A handler that reads ends by its own step, which takes B to be gone, or *)
(* with the process of A.                                                  *)
LEMMA NextUpIsRead == ConnTypes /\ UpIsRead /\ [IpcNext]_ipcVars => UpIsRead'
<1> SUFFICES ASSUME ConnTypes, UpIsRead, [IpcNext]_ipcVars PROVE UpIsRead'
  OBVIOUS
<1> USE DEF ConnTypes, UpIsRead
<1>1. CASE Accept
  <2>1. Head(backlog) \in Conns
    BY <1>1, HeadTailProperties DEF Accept
  <2> QED
    BY <1>1, <2>1 DEF Accept
<1>2. CASE \E c \in Conns : ReadPong(c)
  BY <1>2 DEF ReadPong
<1>3. CASE (\E c \in Conns : HandlerEnds(c)) \/ Watchdog \/ AEnds
  BY <1>3 DEF HandlerEnds, Watchdog, AEnds
<1>4. CASE \E c \in Conns : HandlerCloses(c)
  BY <1>4 DEF HandlerCloses
<1>5. CASE UNCHANGED <<task, aUp>>
  BY <1>5
<1> QED
  BY <1>1, <1>2, <1>3, <1>4, <1>5
     DEF IpcNext, Handler, Ping, SendOrder, PongLate, AStarts, PreflightEnds, Start, Reconnect,
         SetHandler, ReadFrame, ReadFails, Notify, Close, BEnds, ipcVars, atA

(* Every step leaves the browsers told, or a handler to tell them.         *)
LEMMA NextTold ==
    ConnTypes /\ IpcFlags /\ BacklogNew /\ UpIsRead /\ UiTells /\ [IpcNext]_ipcVars => UiTells'
<1> SUFFICES ASSUME ConnTypes, IpcFlags, BacklogNew, UpIsRead, UiTells, [IpcNext]_ipcVars
             PROVE  UiTells'
  OBVIOUS
<1> USE DEF ConnTypes, UpIsRead, UiTells
<1>1. CASE Accept
  <2>1. PICK c \in Conns : /\ task[c] = "none" /\ writer' = c
                           /\ task' = [task EXCEPT ![c] = "reading"]
    <3>1. Head(backlog) \in Conns /\ Head(backlog) = backlog[1] /\ 1 \in DOMAIN backlog
      BY <1>1, HeadTailProperties DEF Accept
    <3> QED
      BY <1>1, <3>1 DEF Accept, BacklogNew
  <2>2. aUp' = aUp /\ ui' = ui
    BY <1>1 DEF Accept
  <2>3. \A d \in Conns : task[d] # "none" => d # c /\ task'[d] = task[d]
    BY <2>1
  <2> QED
    BY <2>1, <2>2, <2>3
<1>2. CASE \E c \in Conns : ReadPong(c)
  BY <1>2 DEF ReadPong
<1>3. CASE \E c \in Conns : HandlerEnds(c)
  BY <1>3 DEF HandlerEnds
<1>4. CASE \E c \in Conns : HandlerCloses(c)
  <2>1. PICK c \in Conns : HandlerCloses(c)
    BY <1>4
  <2>2. \A d \in Conns : task[d] = "reading" => task'[d] = "reading" /\ d # writer'
    BY <2>1 DEF HandlerCloses
  <2>3. aUp' = aUp /\ ui' = "down"
    BY <2>1 DEF HandlerCloses
  <2>4. CASE aUp
    BY <2>2, <2>4
  <2>5. CASE ~aUp
    <3>1. aUp' = FALSE
      BY <2>3, <2>5, Zenon DEF IpcFlags
    <3> QED
      BY <2>3, <3>1
  <2> QED
    BY <2>4, <2>5
<1>5. CASE Watchdog
  <2>1. \A d \in Conns : task[d] = "reading" => task'[d] = "reading" /\ d # writer'
    BY <1>5 DEF Watchdog
  <2> QED
    BY <1>5, <2>1 DEF Watchdog
<1>6. CASE AEnds
  BY <1>6 DEF AEnds
<1>7. CASE UNCHANGED <<task, writer, aUp, ui>>
  BY <1>7
<1> QED
  BY <1>1, <1>2, <1>3, <1>4, <1>5, <1>6, <1>7
     DEF IpcNext, Handler, Ping, SendOrder, PongLate, AStarts, PreflightEnds, Start, Reconnect,
         SetHandler, ReadFrame, ReadFails, Notify, Close, BEnds, ipcVars, atA

(* Every step leaves B hovering, or flying an order of the connection it   *)
(* has.                                                                    *)
LEMMA NextHover ==
    HoversBetween /\ HoverOnLoss /\ [IpcNext]_ipcVars => HoversBetween' /\ HoverOnLoss'
<1> SUFFICES ASSUME HoversBetween, HoverOnLoss, [IpcNext]_ipcVars
             PROVE  HoversBetween' /\ HoverOnLoss'
  OBVIOUS
<1> USE DEF HoversBetween, HoverOnLoss
<1>1. CASE UNCHANGED <<sock, thread, order, unheard>>
  BY <1>1
<1>2. CASE Start \/ Reconnect \/ PreflightEnds
  BY <1>2 DEF Start, Reconnect, PreflightEnds
<1>3. CASE ReadFrame
  BY <1>3 DEF ReadFrame
<1>4. CASE ReadFails
  BY <1>4 DEF ReadFails
<1>5. CASE Notify
  BY <1>5, Zenon DEF Notify
<1>6. CASE Close \/ BEnds
  BY <1>6 DEF Close, BEnds
<1> QED
  BY <1>1, <1>2, <1>3, <1>4, <1>5, <1>6
     DEF IpcNext, Handler, Accept, ReadPong, HandlerEnds, HandlerCloses, Ping, SendOrder,
         PongLate, Watchdog, AEnds, AStarts, SetHandler, ipcVars, atB

(* The state of the link keeps its type.                                   *)
THEOREM LinkTypeCorrect == IpcSpec => []IpcTypeOK
<1>1. IpcInit => LinkTypes
  <2> SUFFICES ASSUME IpcInit PROVE LinkTypes
    OBVIOUS
  <2>1. ConnTypes
    BY DEF IpcInit, ConnTypes
  <2>2. IpcFlags
    <3>1. {running, aUp, late, bUp, handler, unheard} \subseteq BOOLEAN
      BY Zenon DEF IpcInit
    <3> QED
      BY <3>1 DEF IpcInit, IpcFlags
  <2>3. FramesBounded
    BY DEF IpcInit, FramesBounded
  <2> QED
    BY <2>1, <2>2, <2>3 DEF IpcInit, LinkTypes, ReadsSocket, HoversBetween, OrderTypes
<1>2. LinkTypes /\ [IpcNext]_ipcVars => LinkTypes'
  BY NextConnTypes, NextIpcFlags, NextFrames, NextReadsSocket, NextOrder DEF LinkTypes
<1>3. LinkTypes => IpcTypeOK
  <2> SUFFICES ASSUME LinkTypes PROVE IpcTypeOK
    OBVIOUS
  <2>1. up \in [Conns -> 0 .. MaxFrames]
    <3>1. \A c \in Conns : Len(down[c]) \in Nat /\ up[c] \in 0 .. MaxFrames
      <4> TAKE c \in Conns
      <4>1. Len(down[c]) \in Nat /\ up[c] \in Nat /\ Len(down[c]) + up[c] <= MaxFrames
        BY DEF LinkTypes, FramesBounded
      <4> QED
        BY <4>1
    <3>2. up \in [Conns -> Nat]
      BY DEF LinkTypes, FramesBounded
    <3> QED
      BY <3>1, <3>2
  <2>2. {running, aUp, late, bUp, handler, unheard} \subseteq BOOLEAN
    BY DEF LinkTypes, IpcFlags
  <2>3. /\ running \in BOOLEAN /\ aUp \in BOOLEAN /\ late \in BOOLEAN
        /\ bUp \in BOOLEAN /\ handler \in BOOLEAN /\ unheard \in BOOLEAN
    BY <2>2, Zenon
  <2> QED
    BY <2>1, <2>3, Zenon DEF LinkTypes, ConnTypes, IpcFlags, FramesBounded, OrderTypes, IpcTypeOK
<1> QED
  BY <1>1, <1>2, <1>3, PTL DEF IpcSpec

(* What the browsers were told last is the state of the link, unless a     *)
(* handler is still to end (ipc/server.py:71-88, 169-189).                 *)
THEOREM UiIsTold == IpcSpec => []UiTells
<1>1. IpcInit => ConnTypes /\ IpcFlags /\ BacklogNew /\ UpIsRead /\ UiTells
  <2> SUFFICES ASSUME IpcInit PROVE ConnTypes /\ IpcFlags /\ BacklogNew /\ UpIsRead /\ UiTells
    OBVIOUS
  <2>1. {running, aUp, late, bUp, handler, unheard} \subseteq BOOLEAN
    BY Zenon DEF IpcInit
  <2> QED
    BY <2>1 DEF IpcInit, ConnTypes, IpcFlags, BacklogNew, UpIsRead, UiTells
<1>2. ConnTypes /\ IpcFlags /\ BacklogNew /\ UpIsRead /\ UiTells /\ [IpcNext]_ipcVars
        => (ConnTypes /\ IpcFlags /\ BacklogNew /\ UpIsRead /\ UiTells)'
  BY NextConnTypes, NextIpcFlags, NextBacklogNew, NextUpIsRead, NextTold
<1> QED
  BY <1>1, <1>2, PTL DEF IpcSpec

(* A loss of the connection makes B hover, unless it is met before the     *)
(* handler is set (run_b.py:108-117, ipc/client.py:80-129).                *)
THEOREM LossMakesHover == IpcSpec => []HoverOnLoss
<1>1. IpcInit => HoversBetween /\ HoverOnLoss
  BY DEF IpcInit, HoversBetween, HoverOnLoss
<1>2. HoversBetween /\ HoverOnLoss /\ [IpcNext]_ipcVars => (HoversBetween /\ HoverOnLoss)'
  BY NextHover
<1> QED
  BY <1>1, <1>2, PTL DEF IpcSpec
===============================================================================
