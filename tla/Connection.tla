------------------------------ MODULE Connection ------------------------------
(***************************************************************************)
(* The frontend's WebSocket (ws.js, the connection part of app.js and      *)
(* ConnectionOverlay): the socket that connects, is watched by a           *)
(* heartbeat, closes and is replaced, the status it leaves in the store,   *)
(* and the state of the link A-B, which the page is pushed when it changes *)
(* and asks for by REST whenever the socket opens.                         *)
(*                                                                         *)
(* A browser's socket outlives the variable that holds it: connect() in    *)
(* the CLOSING state (the tab became visible) replaces a socket whose      *)
(* close event is still to come, and its handler works on the shared       *)
(* fields of the manager.                                                  *)
(*                                                                         *)
(* Abstracted: the delay before a reconnection (1 s to 30 s with jitter)   *)
(* is a timer that fires some time; the heartbeat counts its own ticks     *)
(* since the last message instead of milliseconds; of the messages only    *)
(* link_status is told apart, and of link_status only the link A-B.        *)
(* disconnect() has no caller and a WebSocket constructor that throws      *)
(* (an illegal address) would throw every time: neither is modelled.       *)
(***************************************************************************)
EXTENDS Integers, Sequences

CONSTANTS
    MissLimit,     \* heartbeatMissLimit
    MaxLingering,  \* bound: replaced sockets that have not closed yet
    MaxPush,       \* bound: link_status messages under way
    Fetches        \* the REST requests that may be under way at a time

ASSUME MissLimitAssumption == MissLimit \in Nat \ {0}
ASSUME MaxLingeringAssumption == MaxLingering \in Nat
ASSUME MaxPushAssumption == MaxPush \in Nat
ASSUME FetchesAssumption == Fetches # {}

VARIABLES
    net,        \* whether the server is within reach
    cur,        \* readyState of this.ws
    lingering,  \* sockets replaced while CLOSING
    hb,         \* whether pingTimer is set
    ever,       \* _everReceived
    idle,       \* ticks of the heartbeat since lastMessageTs
    timer,      \* whether reconnectTimer is set
    status,     \* the store's connection.ws
    intruded,   \* history: a replaced socket has closed during this one
    ipc,        \* the state of the link A-B at A
    pushes,     \* link_status messages on their way to the page
    fetch,      \* the requests for /api/link-status
    view,       \* the store's connection.backendA and connection.backendB
    doubt       \* history: the view is older than what was known, or unknown

sockVars == <<net, cur, lingering, hb, ever, idle, timer, status, intruded>>
linkVars == <<ipc, pushes, fetch, view, doubt>>
vars == <<sockVars, linkVars>>

States == {"up", "down"}
Free == [state |-> "free", old |-> FALSE]
Asked == [state |-> "asked", old |-> FALSE]

Init ==
    /\ net \in BOOLEAN
    /\ cur = "connecting"
    /\ lingering = 0
    /\ hb = FALSE /\ ever = FALSE /\ idle = 0 /\ timer = FALSE
    /\ status = "disconnected"
    /\ intruded = FALSE
    /\ ipc \in States
    /\ pushes = <<>>
    /\ \E f \in Fetches : fetch = [x \in Fetches |-> IF x = f THEN Asked ELSE Free]
    /\ view = "unknown"
    /\ doubt = TRUE

-------------------------------------------------------------------------------
(* The surroundings: the network, and the link A-B, which the server       *)
(* pushes to the clients it has.                                           *)
NetChanges ==
    /\ net' = ~net
    /\ UNCHANGED <<cur, lingering, hb, ever, idle, timer, status, intruded, linkVars>>

IpcChanges ==
    /\ Len(pushes) < MaxPush
    /\ ipc' \in States \ {ipc}
    /\ pushes' = IF cur = "open" THEN Append(pushes, ipc') ELSE pushes
    /\ UNCHANGED <<sockVars, fetch, view, doubt>>

-------------------------------------------------------------------------------
(* Mistake: connect() takes a socket that is closed for one that works.    *)
ConnectsNever == UNCHANGED <<cur, lingering, pushes>>

(* connect(): nothing when the socket is open or opening; else another     *)
(* one, whatever the one before still does.                                *)
Connect ==
    IF cur \in {"open", "connecting"} THEN UNCHANGED <<cur, lingering, pushes>>
    ELSE /\ cur' = "connecting"
         /\ lingering' = lingering + (IF cur = "closing" THEN 1 ELSE 0)
         /\ pushes' = <<>>

(* A request is sent; what was answered before the socket opened is old.   *)
Refresh(f) ==
    fetch' = [x \in Fetches |->
                 IF x = f THEN Asked
                 ELSE IF fetch[x].state \in States THEN [fetch[x] EXCEPT !.old = TRUE]
                 ELSE fetch[x]]

(* Mistake: the link is not asked for when the socket opens.               *)
OpenWithoutRefresh ==
    /\ cur = "connecting" /\ net
    /\ cur' = "open"
    /\ hb' = TRUE /\ ever' = FALSE /\ idle' = 0
    /\ status' = "connected"
    /\ intruded' = FALSE
    /\ UNCHANGED <<net, lingering, timer, linkVars>>

(* onopen: the heartbeat starts afresh, the status is told, the link state *)
(* is asked for.  An armed reconnectTimer stays.                           *)
OnOpen ==
    /\ cur = "connecting" /\ net
    /\ cur' = "open"
    /\ hb' = TRUE /\ ever' = FALSE /\ idle' = 0
    /\ status' = "connected"
    /\ intruded' = FALSE
    /\ \E f \in Fetches : fetch[f] = Free /\ Refresh(f)
    /\ UNCHANGED <<net, lingering, timer, ipc, pushes, view, doubt>>

(* onmessage, of any other message than link_status.                       *)
OnMessage ==
    /\ cur = "open" /\ net
    /\ ever' = TRUE /\ idle' = 0
    /\ UNCHANGED <<net, cur, lingering, hb, timer, status, intruded, linkVars>>

(* Mistake: the close handler leaves the reconnection to somebody else.    *)
CloseWithoutTimer ==
    /\ hb' = FALSE
    /\ status' = "connecting"
    /\ UNCHANGED timer

(* Mistake: the close handler does not tell the store.                     *)
CloseUntold ==
    /\ hb' = FALSE
    /\ timer' = TRUE
    /\ UNCHANGED status

(* The close handler of any socket: the heartbeat stops, the status        *)
(* 'disconnected' is dispatched and, before the page is drawn, replaced by *)
(* the 'connecting' of _scheduleReconnect, whose timer is armed anew.      *)
Closed ==
    /\ hb' = FALSE
    /\ status' = "connecting"
    /\ timer' = TRUE

(* The current socket closes: it could not connect, the other end or the   *)
(* network ended it, or its own close() has been answered.                 *)
OnClose ==
    /\ \/ cur = "connecting" /\ ~net
       \/ cur \in {"open", "closing"}
    /\ cur' = "closed"
    /\ pushes' = <<>>
    /\ Closed
    /\ UNCHANGED <<net, lingering, ever, idle, intruded, ipc, fetch, view, doubt>>

(* A replaced socket closes; the handler does not ask whose it is.         *)
OnCloseReplaced ==
    /\ lingering > 0
    /\ lingering' = lingering - 1
    /\ intruded' = (intruded \/ cur = "open")
    /\ Closed
    /\ UNCHANGED <<net, cur, ever, idle, linkVars>>

(* Mistake: the heartbeat sends its ping and looks no further.             *)
PingOnly ==
    /\ hb /\ cur = "open"
    /\ idle' = IF idle < MissLimit THEN idle + 1 ELSE idle
    /\ UNCHANGED <<net, cur, lingering, hb, ever, timer, status, intruded, linkVars>>

(* A tick of the heartbeat: a socket that has received something and has   *)
(* been silent for longer than MissLimit intervals is closed.              *)
Heartbeat ==
    /\ hb /\ cur = "open"
    /\ IF ever /\ idle >= MissLimit
       THEN cur' = "closing" /\ idle' = idle
       ELSE cur' = cur /\ idle' = IF idle < MissLimit THEN idle + 1 ELSE idle
    /\ UNCHANGED <<net, lingering, hb, ever, timer, status, intruded, linkVars>>

ReconnectTimer ==
    /\ timer
    /\ timer' = FALSE
    /\ Connect
    /\ UNCHANGED <<net, hb, ever, idle, status, intruded, ipc, fetch, view, doubt>>

(* visibilitychange: a tab that becomes visible reconnects a socket that   *)
(* is closing or closed; the timer of the reconnection stays armed.        *)
TabVisible ==
    /\ cur \in {"closing", "closed"}
    /\ lingering < MaxLingering
    /\ Connect
    /\ UNCHANGED <<net, hb, ever, idle, timer, status, intruded, ipc, fetch, view, doubt>>

-------------------------------------------------------------------------------
(* Answers that have been given but not received are from now on old.      *)
Outdate == [x \in Fetches |->
               IF fetch[x].state \in States THEN [fetch[x] EXCEPT !.old = TRUE] ELSE fetch[x]]

(* A link_status message: the store's view follows it.                     *)
OnLinkStatus ==
    /\ cur = "open" /\ net /\ pushes # <<>>
    /\ view' = Head(pushes)
    /\ pushes' = Tail(pushes)
    /\ fetch' = Outdate
    /\ doubt' = FALSE
    /\ ever' = TRUE /\ idle' = 0
    /\ UNCHANGED <<net, cur, lingering, hb, timer, status, intruded, ipc>>

Answer(f) ==
    /\ fetch[f].state = "asked" /\ net
    /\ fetch' = [fetch EXCEPT ![f].state = ipc]
    /\ UNCHANGED <<sockVars, ipc, pushes, view, doubt>>

(* The answer arrives and is written to the store, whatever has been       *)
(* pushed since it was given.                                              *)
OnAnswer(f) ==
    /\ fetch[f].state \in States
    /\ view' = fetch[f].state
    /\ doubt' = fetch[f].old
    /\ fetch' = [Outdate EXCEPT ![f] = Free]
    /\ UNCHANGED <<sockVars, ipc, pushes>>

(* The request fails or times out; nobody is told.                         *)
FetchFails(f) ==
    /\ fetch[f] # Free
    /\ fetch' = [fetch EXCEPT ![f] = Free]
    /\ doubt' = TRUE
    /\ UNCHANGED <<sockVars, ipc, pushes, view>>

Socket == OnOpen \/ OnClose \/ OnCloseReplaced \/ ReconnectTimer
Link == \E f \in Fetches : Answer(f) \/ OnAnswer(f) \/ FetchFails(f)

Next ==
    \/ NetChanges
    \/ IpcChanges
    \/ Socket
    \/ OnMessage
    \/ OnLinkStatus
    \/ Heartbeat
    \/ TabVisible
    \/ Link

Spec == Init /\ [][Next]_vars

(* Timers fire, a connection attempt ends, a closing socket closes and a   *)
(* request ends (api.js gives it 10 s); the tab, the network and the       *)
(* server owe nothing.                                                     *)
FairSpec ==
    /\ Spec
    /\ WF_vars(ReconnectTimer)
    /\ WF_vars(Heartbeat)
    /\ WF_vars(cur # "open" /\ OnClose)
    /\ WF_vars(OnOpen)
    /\ WF_vars(Link)

-------------------------------------------------------------------------------
TypeOK ==
    /\ net \in BOOLEAN
    /\ cur \in {"connecting", "open", "closing", "closed"}
    /\ lingering \in Nat
    /\ hb \in BOOLEAN /\ ever \in BOOLEAN /\ timer \in BOOLEAN
    /\ idle \in 0 .. MissLimit
    /\ status \in {"disconnected", "connecting", "connected"}
    /\ intruded \in BOOLEAN
    /\ ipc \in States
    /\ pushes \in Seq(States)
    /\ fetch \in [Fetches -> [state : {"free", "asked"} \cup States, old : BOOLEAN]]
    /\ view \in States \cup {"unknown"}
    /\ doubt \in BOOLEAN

(* The page is never left without a connection for good: a closed socket   *)
(* has a timer that will replace it, and an open one, unless a replaced    *)
(* socket has closed during its life, has a heartbeat that watches it.     *)
NeverStranded ==
    /\ cur = "closed" => timer
    /\ cur = "open" /\ ~intruded => hb

(* The indicator: it says connected only while a socket is there, and does *)
(* so for every open socket no replaced one has closed under.              *)
StatusTells ==
    /\ status = "connected" => cur # "closed"
    /\ cur = "open" /\ ~intruded => status = "connected"

(* app.js:462-463 asks for the link on every connection because it is      *)
(* pushed only when it changes: once nothing is under way, the panel shows *)
(* the link as it is, unless the last answer was overtaken by a push or    *)
(* the last request failed.                                                *)
LinkShown ==
    (/\ cur = "open" /\ pushes = <<>> /\ ~doubt
     /\ \A f \in Fetches : fetch[f] = Free) => view = ipc

(* ws.js:252-255: a link that has gone dead under an open socket that has  *)
(* received something is noticed.                                          *)
DeadLinkNoticed ==
    (cur = "open" /\ ever /\ ~intruded /\ ~net) ~> (cur # "open" \/ intruded \/ net)

(* When the server stays within reach, the page is connected again and     *)
(* again, however often its sockets close.                                 *)
Reconnects == <>[]net => []<>(cur = "open")

(* ws.js:22-23 says that the connection is probed: every open socket has a *)
(* heartbeat.  It has not, once the socket it replaced has closed.         *)
OpenIsWatched == cur = "open" => hb
===============================================================================
