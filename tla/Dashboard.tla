------------------------------ MODULE Dashboard -------------------------------
(***************************************************************************)
(* The live data of the frontend: poses, alerts and the connection's       *)
(* status, the store they go through, and what shows them: the status bar, *)
(* redrawn at most once per frame (app.js, StatusBar), and the dashboard   *)
(* with its grid of panels (DashboardPage, DashboardGrid, DashboardPanel). *)
(*                                                                         *)
(* A panel that is mounted subscribes to the store and to the bus.  The    *)
(* grid is redrawn when a panel is added, removed or moved, and then every *)
(* panel is mounted once more into its new cell without being unmounted:   *)
(* the older subscriptions stay, and work for the panel as before.         *)
(*                                                                         *)
(* Abstracted: the pose is its number; of the panels a time series, the    *)
(* bars of the alerts and a plain card; alerts have one code; the drawing. *)
(***************************************************************************)
EXTENDS Store, FiniteSets

CONSTANTS
    PoseFields,   \* what a pose carries beside position and time, in order
    MaxPoints,    \* the 600 points of a time series
    MaxPose,      \* bound: poses
    MaxAlerts,    \* bound: alerts
    MaxHandlers   \* bound: subscriptions of the panels

ASSUME PoseFieldsAssumption == PoseFields \in Seq(STRING)
ASSUME MaxPointsAssumption == MaxPoints \in Nat \ {0}
ASSUME BoundsAssumption == MaxPose \in Nat /\ MaxAlerts \in Nat /\ MaxHandlers \in Nat

VARIABLES
    state,     \* the store, as far as it is displayed
    boardMounted, \* whether the dashboard is mounted
    panels,    \* the grid's map of panels, in its order
    kind,      \* the type of each panel
    handlers,  \* the subscriptions in their order: a panel, or Gone
    buf,       \* the ring buffer of the time series
    counts,    \* alertStore: the number counted
    bars,      \* the number the bars show
    value,     \* the pose the plain card shows
    banner,    \* what the banner of the dashboard says
    frame,     \* whether a redraw of the status bar is requested
    drawn,     \* the state the status bar was drawn from
    alerts,    \* history: alerts received
    missed,    \* history: alerts received while there was no panel
    leaked,    \* history: subscriptions overwritten by a later one
    retyped    \* history: the time series has been of another type

gridVars == <<boardMounted, panels, kind, handlers, buf, bars, value, leaked, retyped>>
barVars == <<frame, drawn>>
boardVars == <<state, gridVars, counts, banner, barVars, alerts, missed>>

Line == "line"
Bar == "bar"
Card == "card"
Gone == "gone"
Ids == {Line, Bar, Card}

Key(f) == <<"drone", f>>
Ws == <<"connection", "ws">>
Paths ==
    {Key("position"), Key("timestamp"), Key("connected"), Ws}
        \cup {Key(f) : f \in ToSet(PoseFields)}
Pose == state[Key("position")]
DefaultPanels == <<Line, Bar, Card>>

BannerFor(s) ==
    IF s[Ws] # "connected" THEN "no connection"
    ELSE IF s[Key("timestamp")] = 0 THEN "no data" ELSE "none"

BoardInit ==
    /\ state = [p \in Paths |-> IF p = Ws THEN "disconnected"
                                ELSE IF p = Key("connected") THEN "no" ELSE 0]
    /\ boardMounted = FALSE
    /\ panels = <<>> /\ kind = [p \in Ids |-> p]
    /\ handlers = <<>> /\ buf = <<>>
    /\ counts = 0 /\ bars = 0 /\ value = 0
    /\ banner = "none"
    /\ frame = FALSE /\ drawn = state
    /\ alerts = 0 /\ missed = 0 /\ leaked = 0 /\ retyped = FALSE

-------------------------------------------------------------------------------
Has(p) == p \in ToSet(panels)
HandlersOf(p) == Cardinality({i \in DOMAIN handlers : handlers[i] = p})

(* Mistake: what a full ring drops is what comes behind its first point.   *)
PushBehind(b, n, point) ==
    LET all == b \o [i \in 1 .. n |-> point]
    IN  IF Len(all) <= MaxPoints THEN all
        ELSE <<Head(all)>> \o SubSeq(all, Len(all) - MaxPoints + 2, Len(all))

(* n points are pushed; the ring keeps the last MaxPoints.                 *)
Push(b, n, point) ==
    LET all == b \o [i \in 1 .. n |-> point]
    IN  SubSeq(all, IF Len(all) > MaxPoints THEN Len(all) - MaxPoints + 1 ELSE 1, Len(all))

(* What a notification of the time series pushes: the pose of the store,   *)
(* if there has been one and the panel still shows a series.               *)
Pushed(n, s) ==
    IF Has(Line) /\ kind[Line] = Line /\ s[Key("timestamp")] # 0
    THEN Push(buf, n, s[Key("position")]) ELSE buf

(* What a card shows of the store.                                         *)
CardValue(s) == IF s[Key("timestamp")] = 0 THEN 0 ELSE s[Key("position")]

(* Mistake: a redraw that has been requested is requested once more, and   *)
(* none when there is none.                                                *)
RequestLost == frame' = frame

(* scheduleStatusBar: at most one redraw is under way.                     *)
RequestFrame == frame' = TRUE

Frame ==
    /\ frame
    /\ frame' = FALSE
    /\ drawn' = state
    /\ UNCHANGED <<state, gridVars, counts, banner, alerts, missed>>

(* A batch of sets: each of its paths notifies every subscription.         *)
Batch(sets) ==
    LET heard == Notified(<<"drone">>, state, sets)
        times == Cardinality(heard)
    IN  /\ state' = After(state, sets)
        /\ buf' = Pushed(times * HandlersOf(Line), state')
        /\ value' = IF Has(Card) /\ times * HandlersOf(Card) > 0 THEN CardValue(state') ELSE value
        /\ IF heard \cup Notified(Ws, state, sets) # {} THEN RequestFrame ELSE UNCHANGED frame
        /\ banner' = IF boardMounted THEN BannerFor(state') ELSE banner

PoseSets(n) ==
    <<[path |-> Key("position"), value |-> n]>>
    \o [i \in DOMAIN PoseFields |-> [path |-> Key(PoseFields[i]), value |-> n]]
    \o <<[path |-> Key("timestamp"), value |-> n], [path |-> Key("connected"), value |-> "yes"]>>

(* The pose handler: one batch.                                            *)
OnPose ==
    /\ state[Ws] = "connected"
    /\ Pose < MaxPose
    /\ Batch(PoseSets(Pose + 1))
    /\ UNCHANGED <<boardMounted, panels, kind, handlers, bars, leaked, retyped,
                   counts, drawn, alerts, missed>>

OnConnection(s) ==
    /\ s # state[Ws]
    /\ Batch(<<[path |-> Ws, value |-> s]>>)
    /\ UNCHANGED <<boardMounted, panels, kind, handlers, bars, leaked, retyped,
                   counts, drawn, alerts, missed>>

(* Mistake: an alert is counted and the bars are left as they are.         *)
BarsForgotten == bars

(* What the bars show after an alert: the count when their own handler     *)
(* runs, the last of them in the order of the subscriptions.               *)
BarsAfterAlert ==
    IF Has(Bar) /\ kind[Bar] = Bar
    THEN counts + SelectLastInSeq(handlers, LAMBDA h : h = Bar) ELSE bars

(* An alert: every subscription counts it, those of panels that are gone   *)
(* as well; without any, nobody does.                                      *)
OnAlert ==
    /\ state[Ws] = "connected"
    /\ alerts < MaxAlerts
    /\ alerts' = alerts + 1
    /\ missed' = IF panels = <<>> THEN missed + 1 ELSE missed
    /\ counts' = counts + Len(handlers)
    /\ bars' = BarsAfterAlert
    /\ UNCHANGED <<state, boardMounted, panels, kind, handlers, buf, value, leaked, retyped,
                   banner, barVars>>

-------------------------------------------------------------------------------
(* What panels show that are drawn: the bars the number counted, the card  *)
(* the store; 0 stands for bars and cards that are not on the screen.      *)
BarsDrawn(ps, k) == IF Bar \in ps /\ k[Bar] = Bar THEN counts ELSE 0
CardDrawn(ps) == IF Card \in ps THEN CardValue(state) ELSE 0

(* Panels are mounted in the order of the grid's map: each subscribes and  *)
(* is brought up to date at once.                                          *)
MountPanels(hs, ps, k, b) ==
    /\ handlers' = hs \o ps
    /\ buf' = IF Line \in ToSet(ps) /\ k[Line] = Line /\ state[Key("timestamp")] # 0
              THEN Push(b, 1, Pose) ELSE b
    /\ bars' = BarsDrawn(ToSet(ps), k)
    /\ value' = CardDrawn(ToSet(ps))

MountPage ==
    /\ ~boardMounted
    /\ Len(handlers) + Len(DefaultPanels) <= MaxHandlers
    /\ boardMounted' = TRUE
    /\ panels' = DefaultPanels
    /\ MountPanels(handlers, DefaultPanels, kind, <<>>)
    /\ banner' = BannerFor(state)
    /\ UNCHANGED <<state, kind, retyped, counts, barVars, alerts, missed, leaked>>

(* A panel is unmounted: its latest subscription ends, and the others, if  *)
(* it has been mounted more than once, have lost their panel.              *)
Unmounted(hs, p) == ReplaceAll(RemoveAt(hs, SelectLastInSeq(hs, LAMBDA h : h = p)), p, Gone)

(* Every panel is unmounted, so that of each the latest subscription ends  *)
(* and the others have lost their panel.                                   *)
UnmountPage ==
    /\ boardMounted
    /\ boardMounted' = FALSE
    /\ handlers' = [i \in 1 .. Len(handlers) - Len(panels) |-> Gone]
    /\ panels' = <<>> /\ kind' = [p \in Ids |-> p] /\ buf' = <<>>
    /\ bars' = 0 /\ value' = 0
    /\ retyped' = FALSE
    /\ UNCHANGED <<state, leaked, counts, banner, barVars, alerts, missed>>

(* The grid is drawn anew: every panel is mounted over itself.             *)
Redraw(hs, ps, k, b) ==
    /\ boardMounted
    /\ Len(hs) + Len(ps) <= MaxHandlers
    /\ panels' = ps
    /\ kind' = k
    /\ leaked' = leaked + Cardinality({p \in ToSet(ps) : p \in ToSet(hs)})
    /\ MountPanels(hs, ps, k, b)
    /\ UNCHANGED <<state, boardMounted, counts, banner, barVars, alerts, missed>>

(* A panel is taken off the grid, whichever it is.                         *)
RemovePanel(p) ==
    /\ Has(p)
    /\ Redraw(Unmounted(handlers, p), RemoveFirst(panels, p), [kind EXCEPT ![p] = p],
              IF p = Line THEN <<>> ELSE buf)
    /\ retyped' = (retyped /\ p # Line)

(* A dashboard_config for a panel that is not there, or the button: a new  *)
(* panel with an empty buffer.                                             *)
AddPanel(p, k) ==
    /\ ~Has(p)
    /\ Redraw(handlers, Append(panels, p), [kind EXCEPT ![p] = k],
              IF p = Line THEN <<>> ELSE buf)
    /\ retyped' = IF p = Line THEN k # Line ELSE retyped

(* A panel is dropped on another: its cell moves, its place in the map     *)
(* does not.                                                               *)
MovePanel ==
    /\ Len(panels) > 1
    /\ Redraw(handlers, panels, kind, buf)
    /\ UNCHANGED retyped

(* A dashboard_config for a panel that is there: it is drawn anew, as      *)
(* another type perhaps, and keeps its subscriptions.                      *)
UpdateSpec(p, k) ==
    /\ boardMounted /\ Has(p)
    /\ kind' = [kind EXCEPT ![p] = k]
    /\ bars' = IF p = Bar THEN BarsDrawn({p}, kind') ELSE bars
    /\ retyped' = (retyped \/ (p = Line /\ k # kind[p]))
    /\ UNCHANGED <<state, boardMounted, panels, handlers, buf, value, leaked, counts, banner,
                   barVars, alerts, missed>>

BoardNext ==
    \/ OnPose
    \/ \E s \in {"connected", "connecting"} : OnConnection(s)
    \/ OnAlert
    \/ Frame
    \/ MountPage
    \/ UnmountPage
    \/ \E p \in Ids : RemovePanel(p)
    \/ MovePanel
    \/ \E p \in Ids : \E k \in {p, Card} : AddPanel(p, k) \/ UpdateSpec(p, k)

BoardSpec == BoardInit /\ [][BoardNext]_boardVars

-------------------------------------------------------------------------------
(* Nothing that the status bar, the banner or the card shows is out of     *)
(* date, but for a redraw that is under way, though redraws are left out   *)
(* while one is, a batch notifies only the first change of a path, and     *)
(* panels are mounted over themselves.                                     *)
BarsFresh ==
    /\ ~frame => drawn = state
    /\ boardMounted => banner = BannerFor(state)
    /\ Has(Card) => value = CardValue(state)

(* The time series has no gap: from its first point to the pose of the     *)
(* store every pose is there and in order, however full the ring.          *)
SeriesComplete ==
    (Has(Line) /\ kind[Line] = Line /\ ~retyped /\ state[Key("timestamp")] # 0) =>
        /\ buf # <<>> /\ Len(buf) <= MaxPoints
        /\ Last(buf) = Pose
        /\ \A i \in 1 .. Len(buf) - 1 : buf[i + 1] - buf[i] \in {0, 1}

(* The bars are behind by less than one alert, and no alert is lost that   *)
(* came while any panel was on the screen, of whatever type (an alert that *)
(* comes while there is none is counted by nobody).                        *)
AlertsCounted ==
    /\ Has(Bar) /\ kind[Bar] = Bar => counts - bars < Len(handlers)
    /\ counts >= alerts - missed

(* DashboardPanel.js:9 says that alerts of a code are counted.  Each is    *)
(* counted once by every panel there is.                                   *)
CountedOnce == counts <= alerts

(* DashboardPanel.js:16 reckons with one point per pose.  There is one for *)
(* every path that the pose changes.                                       *)
PointPerPose ==
    (leaked = 0 /\ Has(Line)) => \A i \in 1 .. Len(buf) - 1 : buf[i] # buf[i + 1]
===============================================================================
