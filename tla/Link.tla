--------------------------------- MODULE Link ---------------------------------
(***************************************************************************)
(* The link between the two backends, over a Unix socket: A's server       *)
(* (ipc/server.py) with one handler per connection, its heartbeat and its  *)
(* watchdog; B's client (ipc/client.py), its receiving thread and its      *)
(* pongs (ipc/dispatch.py), in the order in which run_b.py starts them.    *)
(*                                                                         *)
(* A is one asyncio thread and a step of it lies between two awaits that   *)
(* suspend.  The handlers share one field _writer, which is that of the    *)
(* connection accepted last: a handler that ends late works on the         *)
(* connection of its successor.                                            *)
(*                                                                         *)
(* Abstracted: of the frames a ping, a pong and an order are told apart;   *)
(* the 5 s without data and the 5 s without a pong pass when nobody        *)
(* answers, or when one side stalls, which is a fault.  Both sides have    *)
(* one schema version, and no frame is too large.  Filling the socket      *)
(* until a sending times out takes longer than either 5 s: a sending fails *)
(* when the other side has closed.  Both shutdowns are left out.           *)
(***************************************************************************)
EXTENDS Integers, Sequences

CONSTANTS
    Conns,      \* the connections there may be at a time
    None,       \* no connection
    MaxFrames,   \* bound: frames of a connection under way
    MaxFaults,  \* bound: stalls and ends of a process
    MaxSlow     \* bound: handlers that notice their end late

ASSUME ConnsAssumption == None \notin Conns
ASSUME BoundsAssumption == MaxFrames \in Nat \ {0} /\ MaxFaults \in Nat /\ MaxSlow \in Nat

VARIABLES
    running,   \* A is listening
    backlog,   \* the connections that A has not accepted, in their order
    task,      \* per connection, where A's handler of it stands
    open,      \* the connections that A has not closed
    writer,    \* _writer
    aUp,       \* A's ipc_connected
    late,      \* no pong for 5 s
    ui,        \* what A has told the browsers last
    down,      \* the frames on their way to B, per connection
    up,        \* how many pongs are on their way to A, per connection
    sock,      \* _sock
    thread,    \* where B stands: its start, or its receiving thread
    bUp,       \* B's ipc_connected
    handler,   \* _on_disconnect is set
    order,     \* the connection that brought the order B flies, or None
    unheard,   \* history: a loss was met before the handler was set
    faults,    \* how many faults there were
    slow       \* how many handlers noticed their end late

atA == <<running, backlog, task, open, writer, aUp, late, ui>>
frames == <<down, up>>
atB == <<sock, thread, bUp, handler, order, unheard>>
bounds == <<faults, slow>>
ipcVars == <<atA, frames, atB, bounds>>

IpcInit ==
    /\ running \in BOOLEAN
    /\ backlog = <<>>
    /\ task = [c \in Conns |-> "none"] /\ open = {}
    /\ writer = None
    /\ aUp = FALSE /\ late = FALSE /\ ui = "down"
    /\ down = [c \in Conns |-> <<>>] /\ up = [c \in Conns |-> 0]
    /\ sock = None
    /\ thread = "start"
    /\ bUp = FALSE /\ handler = FALSE /\ order = None /\ unheard = FALSE
    /\ faults = 0 /\ slow = 0

Fault == faults < MaxFaults /\ faults' = faults + 1

Queued(c) == \E i \in DOMAIN backlog : backlog[i] = c

(* A slot for another connection: both sides are through with it.          *)
Unused(c) == c # sock /\ ~Queued(c) /\ task[c] = "none"

(* The connection is at its end for A's handler, which reads what there is *)
(* before it gets to know of it.                                           *)
Ended(c) == sock # c \/ c \notin open

(* Both sides work on one connection, and read from it.                    *)
Served == sock # None /\ writer = sock /\ sock \in open /\ task[sock] = "reading" /\ thread = "reading"

-------------------------------------------------------------------------------
(* A's server.                                                             *)

(* _handle_client: the connection is the one to write to from now on, and  *)
(* is up with its first pong.  A handler that should have ended by now is  *)
(* slow: it was busy with an event.                                        *)
Accept ==
    /\ running /\ backlog # <<>>
    /\ LET c == Head(backlog)
           overtaken == \E d \in Conns : task[d] = "reading" /\ Ended(d)
       IN  /\ task' = [task EXCEPT ![c] = "reading"]
           /\ writer' = c
           /\ overtaken => slow < MaxSlow
           /\ slow' = IF overtaken THEN slow + 1 ELSE slow
    /\ backlog' = Tail(backlog)
    /\ late' = FALSE
    /\ UNCHANGED <<running, open, aUp, ui, frames, atB, faults>>

(* Mistake: the browsers are told of a loss only.                          *)
ReadPongQuietly(c) ==
    /\ task[c] = "reading" /\ up[c] > 0
    /\ up' = [up EXCEPT ![c] = @ - 1]
    /\ late' = FALSE
    /\ aUp' = TRUE
    /\ UNCHANGED <<running, backlog, task, open, writer, ui, down, atB, bounds>>

(* _recv_loop: a pong, from whatever connection.                           *)
ReadPong(c) ==
    /\ task[c] = "reading" /\ up[c] > 0
    /\ up' = [up EXCEPT ![c] = @ - 1]
    /\ late' = FALSE
    /\ aUp' = TRUE
    /\ ui' = IF aUp THEN ui ELSE "up"
    /\ UNCHANGED <<running, backlog, task, open, writer, down, atB, bounds>>

(* The finally of a handler, up to its await: it closes the connection     *)
(* that is written to, its own or a newer one, if it is not closed yet.    *)
HandlerEnds(c) ==
    /\ task[c] = "reading" /\ Ended(c)
    /\ c \in open => up[c] = 0
    /\ aUp' = FALSE
    /\ up' = [up EXCEPT ![c] = 0]
    /\ down' = IF sock = c THEN down ELSE [down EXCEPT ![c] = <<>>]
    /\ IF writer \in open
       THEN /\ open' = open \ {writer, c}
            /\ task' = [task EXCEPT ![c] = "closing"]
            /\ UNCHANGED <<writer, ui>>
       ELSE /\ writer' = None
            /\ ui' = "down"
            /\ open' = open \ {c}
            /\ task' = [task EXCEPT ![c] = "none"]
    /\ UNCHANGED <<running, backlog, late, atB, bounds>>

(* Its rest, when what it closed is closed: _writer is forgotten, whoever  *)
(* has been accepted in between, and the browsers are told.                *)
HandlerCloses(c) ==
    /\ task[c] = "closing"
    /\ task' = [task EXCEPT ![c] = "none"]
    /\ writer' = None
    /\ ui' = "down"
    /\ UNCHANGED <<running, backlog, open, aUp, late, frames, atB, bounds>>

(* _ping_loop.                                                             *)
Ping ==
    /\ writer \in open
    /\ sock = writer
    /\ Len(down[writer]) + up[writer] < MaxFrames
    /\ down' = [down EXCEPT ![writer] = Append(@, "ping")]
    /\ UNCHANGED <<atA, up, atB, bounds>>

(* _send_and_wait: an order, to a writer that need not be up.              *)
SendOrder ==
    /\ writer \in open
    /\ sock = writer
    /\ Len(down[writer]) + up[writer] < MaxFrames
    /\ down' = [down EXCEPT ![writer] = Append(@, "order")]
    /\ UNCHANGED <<atA, up, atB, bounds>>

PongLate ==
    /\ aUp /\ ~late
    /\ IF Served THEN Fault ELSE UNCHANGED faults
    /\ late' = TRUE
    /\ UNCHANGED <<running, backlog, task, open, writer, aUp, ui, frames, atB, slow>>

(* _pong_watchdog: the handler of the connection will tell the browsers.   *)
Watchdog ==
    /\ aUp /\ late
    /\ aUp' = FALSE
    /\ open' = open \ {writer}
    /\ writer' = None
    /\ UNCHANGED <<running, backlog, task, late, ui, frames, atB, bounds>>

(* The process of A ends, and is started again.  A browser asks for the    *)
(* state of the link when it is connected again.                           *)
AEnds ==
    /\ running /\ Fault
    /\ running' = FALSE
    /\ backlog' = <<>>
    /\ task' = [c \in Conns |-> "none"] /\ open' = {}
    /\ writer' = None
    /\ aUp' = FALSE /\ late' = FALSE /\ ui' = "down"
    /\ up' = [c \in Conns |-> 0]
    /\ UNCHANGED <<down, atB, slow>>

AStarts ==
    /\ ~running
    /\ running' = TRUE
    /\ UNCHANGED <<backlog, task, open, writer, aUp, late, ui, frames, atB, bounds>>

-------------------------------------------------------------------------------
(* B's client.                                                             *)

(* connect(), by a connection whose name does not matter.                  *)
Connects ==
    LET c == CHOOSE d \in Conns : Unused(d) IN
    /\ running /\ \E d \in Conns : Unused(d)
    /\ sock' = c
    /\ backlog' = Append(backlog, c)
    /\ open' = open \cup {c}
    /\ down' = [down EXCEPT ![c] = <<>>]
    /\ up' = [up EXCEPT ![c] = 0]
    /\ bUp' = TRUE

(* run_b.py:44: one attempt; then the preflight, up to 90 s.               *)
Start ==
    /\ thread = "start"
    /\ thread' = "preflight"
    /\ \/ Connects
       \/ ~running /\ UNCHANGED <<sock, backlog, open, frames, bUp>>
    /\ UNCHANGED <<running, task, writer, aUp, late, ui, handler, order, unheard, bounds>>

(* run_b.py:108: the receiving thread.                                     *)
PreflightEnds ==
    /\ thread = "preflight"
    /\ thread' = IF sock = None THEN "connecting" ELSE "reading"
    /\ UNCHANGED <<atA, frames, sock, bUp, handler, order, unheard, bounds>>

(* run_b.py:117: after the start of the thread.                            *)
SetHandler ==
    /\ thread \notin {"start", "preflight"} /\ ~handler
    /\ handler' = TRUE
    /\ UNCHANGED <<atA, frames, sock, thread, bUp, order, unheard, bounds>>

(* A frame: an order is carried out, a ping answered; if A has closed, the *)
(* answer fails and B is marked down.                                      *)
ReadFrame ==
    /\ thread = "reading" /\ down[sock] # <<>>
    /\ down' = [down EXCEPT ![sock] = Tail(@)]
    /\ IF Head(down[sock]) = "order"
       THEN order' = sock /\ UNCHANGED <<up, bUp>>
       ELSE /\ IF sock \in open
               THEN up' = [up EXCEPT ![sock] = @ + 1] /\ UNCHANGED bUp
               ELSE bUp' = FALSE /\ UNCHANGED up
            /\ UNCHANGED order
    /\ UNCHANGED <<atA, sock, thread, handler, unheard, bounds>>

(* The end of the connection, or 5 s without data: of a connection that    *)
(* has been accepted and is not written to, or by a fault.                 *)
ReadFails ==
    /\ thread = "reading" /\ down[sock] = <<>>
    /\ IF sock \notin open \/ (task[sock] # "none" /\ writer # sock)
       THEN UNCHANGED faults ELSE Fault
    /\ bUp' = FALSE
    /\ thread' = "lost"
    /\ UNCHANGED <<atA, frames, sock, handler, order, unheard, slow>>

(* Mistake: B reconnects and goes on flying what it was told.              *)
NotifyNobody ==
    /\ thread = "lost"
    /\ thread' = "closing"
    /\ UNCHANGED <<atA, frames, sock, bUp, handler, order, unheard, bounds>>

(* _notify_disconnect: small_model hovers, if the handler is set.          *)
Notify ==
    /\ thread = "lost"
    /\ thread' = "closing"
    /\ order' = IF handler THEN None ELSE order
    /\ unheard' = (unheard \/ (~handler /\ order # None))
    /\ UNCHANGED <<atA, frames, sock, bUp, handler, bounds>>

(* Mistake: the socket that failed stays, and is read from again.          *)
KeepSocket ==
    /\ thread = "closing"
    /\ thread' = "reading"
    /\ UNCHANGED <<atA, frames, sock, bUp, handler, order, unheard, bounds>>

(* The socket is closed: A's handler of it comes to its end.               *)
Close ==
    /\ thread = "closing"
    /\ sock' = None
    /\ thread' = "connecting"
    /\ UNCHANGED <<atA, frames, bUp, handler, order, unheard, bounds>>

(* The loop over connect(), whose delays are not told apart.               *)
Reconnect ==
    /\ thread = "connecting"
    /\ thread' = "reading"
    /\ Connects
    /\ UNCHANGED <<running, task, writer, aUp, late, ui, handler, order, unheard, bounds>>

(* The process of B ends, and is started again.                            *)
BEnds ==
    /\ thread # "start" /\ Fault
    /\ sock' = None
    /\ thread' = "start"
    /\ bUp' = FALSE /\ handler' = FALSE /\ order' = None /\ unheard' = FALSE
    /\ UNCHANGED <<atA, frames, slow>>

-------------------------------------------------------------------------------
Handler(c) == ReadPong(c) \/ HandlerEnds(c) \/ HandlerCloses(c)

IpcNext ==
    \/ Accept
    \/ \E c \in Conns : Handler(c)
    \/ Ping \/ SendOrder \/ PongLate \/ Watchdog
    \/ AEnds \/ AStarts
    \/ Start \/ PreflightEnds \/ SetHandler
    \/ ReadFrame \/ ReadFails \/ Notify \/ Close \/ Reconnect
    \/ BEnds

IpcSpec == IpcInit /\ [][IpcNext]_ipcVars

(* Tasks and threads go on, both 5 s pass, and a process that has ended is *)
(* started again.  Nobody has to send orders.                              *)
IpcFairSpec ==
    /\ IpcSpec
    /\ WF_ipcVars(Accept)
    /\ \A c \in Conns : WF_ipcVars(Handler(c))
    /\ SF_ipcVars(Ping)
    /\ WF_ipcVars(~Served /\ PongLate) /\ WF_ipcVars(Watchdog)
    /\ WF_ipcVars(AStarts)
    /\ WF_ipcVars(Start) /\ WF_ipcVars(PreflightEnds) /\ WF_ipcVars(SetHandler)
    /\ WF_ipcVars(ReadFrame)
    /\ WF_ipcVars((sock \notin open \/ writer # sock) /\ faults' = faults /\ ReadFails)
    /\ WF_ipcVars(Notify) /\ WF_ipcVars(Close) /\ WF_ipcVars(Reconnect)

-------------------------------------------------------------------------------
IpcTypeOK ==
    /\ running \in BOOLEAN /\ backlog \in Seq(Conns)
    /\ task \in [Conns -> {"none", "reading", "closing"}]
    /\ open \subseteq Conns /\ writer \in Conns \cup {None}
    /\ aUp \in BOOLEAN /\ late \in BOOLEAN /\ ui \in {"up", "down"}
    /\ down \in [Conns -> Seq({"ping", "order"})] /\ up \in [Conns -> 0 .. MaxFrames]
    /\ sock \in Conns \cup {None}
    /\ thread \in {"start", "preflight", "reading", "lost", "closing", "connecting"}
    /\ bUp \in BOOLEAN /\ handler \in BOOLEAN /\ unheard \in BOOLEAN
    /\ order \in Conns \cup {None}
    /\ faults \in 0 .. MaxFaults /\ slow \in 0 .. MaxSlow

Linked == Served /\ aUp /\ bUp /\ ui = "up"

(* However handlers of old connections work on newer ones, timeouts fall   *)
(* and processes end: when that has happened for the last time, both sides *)
(* settle on one connection, know that they are linked, and have told it.  *)
LinkHeals == <>[]Linked

(* What the browsers were told last is the state of the link at A, unless  *)
(* a handler is ending, or has a connection nobody writes to, so that its  *)
(* end will correct it: not even the watchdog, which tells nobody, leaves  *)
(* the browsers with a wrong state for good.                               *)
UiTells ==
    aUp # (ui = "up") =>
        \E c \in Conns : task[c] = "closing" \/ (task[c] = "reading" /\ c # writer)

(* Interface freeze, section 6: a loss of the connection makes B hover.  B *)
(* never flies an order of a connection that is gone, unless it was lost   *)
(* in the moment between the start of the thread and run_b.py:117.         *)
HoverOnLoss == ~unheard => order \in {None, sock}
===============================================================================
