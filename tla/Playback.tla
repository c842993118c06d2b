------------------------------- MODULE Playback -------------------------------
(***************************************************************************)
(* The replay of a flown task on the history page: the engine              *)
(* (playback.js), its controls (TimelineControl), the page that loads the  *)
(* recorded telemetry (HistoryPage), and the views that show the frame     *)
(* (HistoryPanels, FieldMap2D and Scene3D in history mode).                *)
(*                                                                         *)
(* Engine, page and views talk through the store (dataset, index, time,    *)
(* playing) and through bus events.  The animation frame reads the store;  *)
(* only the bus event of the play button starts and stops it.              *)
(*                                                                         *)
(* Abstracted: a recorded point is its time and whether the drone moved    *)
(* before it; times are multiples of a unit; a view shows the time and the *)
(* frame it was last drawn with.  Without data that last, the slider goes  *)
(* to a length of its own (60, or that of the live track).                 *)
(***************************************************************************)
EXTENDS Integers, Sequences

CONSTANTS
    Sessions,    \* the recorded tasks
    Raw,         \* their telemetry: sequences of [t, moved]
    NoSession,   \* null
    MaxStep,     \* the 200 ms that one frame advances at most
    MaxLoads,    \* bound: loads of a session under way
    MaxInputs    \* bound: operations of the user

ASSUME SessionsAssumption == NoSession \notin Sessions
ASSUME RawAssumption ==
    \A s \in Sessions :
        /\ Raw[s] \in Seq([t : Nat, moved : BOOLEAN])
        /\ \A i, j \in DOMAIN Raw[s] : i < j => Raw[s][i].t < Raw[s][j].t
ASSUME ReplayBoundsAssumption == MaxStep \in Nat \ {0} /\ MaxLoads \in Nat /\ MaxInputs \in Nat

VARIABLES
    selected,  \* history.selectedSession
    dataset,   \* playback.dataset: the session it is of, and its points
    index,     \* playback.index
    time,      \* playbackTime
    playing,   \* playbackState
    speed,     \* playbackSpeed
    mounted,   \* the page and the engine are mounted
    raf,       \* an animation frame is requested
    fresh,     \* _lastTs is null: the next frame only takes the time
    detail,    \* the session the views have been mounted for
    visible,   \* whether the views stand in the page
    loads,     \* the loads under way, per session
    views,     \* what the views show
    behind,    \* history: the store changed with no tick since
    carried,   \* history: a dataset arrived while the loop ran
    inputs     \* how often the user has acted

store == <<selected, dataset, index, time, playing, speed>>
engine == <<raf, fresh>>
page == <<mounted, detail, visible, loads>>
replayVars == <<store, engine, page, views, behind, carried, inputs>>

NoData == [of |-> NoSession, points |-> <<>>]
Slider == 60
NoPoint == -1

(* The index of the point from which the drone moves: the replay begins    *)
(* there, or with the first point if it never does.                        *)
MotionStart(raw) ==
    IF \E i \in 2 .. Len(raw) : raw[i].moved
    THEN CHOOSE i \in 2 .. Len(raw) : raw[i].moved /\ \A j \in 2 .. i - 1 : ~raw[j].moved
    ELSE 1

(* The points of the replay: their times, from the first of them on.       *)
Points(raw) ==
    LET start == MotionStart(raw)
    IN  [i \in 1 .. Len(raw) - start + 1 |-> raw[start + i - 1].t - raw[start].t]

Duration(ds) == IF ds.points = <<>> THEN 0 ELSE ds.points[Len(ds.points)]

(* The window of the binary search: its first and its last index, counted  *)
(* from 0, and the answer so far.                                          *)
Windows(n) == (0 .. n) \X (-1 .. n - 1) \X (0 .. n)

(* Mistake: a point whose time has just come is passed over.               *)
NarrowedLate(points, t, w) ==
    LET mid == (w[1] + w[2]) \div 2
    IN  IF points[mid + 1] < t THEN <<mid + 1, w[2], mid>> ELSE <<w[1], mid - 1, w[3]>>

(* One round of the search.                                                *)
Narrowed(points, t, w) ==
    LET mid == (w[1] + w[2]) \div 2
    IN  IF points[mid + 1] <= t THEN <<mid + 1, w[2], mid>> ELSE <<w[1], mid - 1, w[3]>>

Search(points, t) ==
    LET find[w \in Windows(Len(points))] ==
            IF w[1] > w[2] THEN w[3] ELSE find[Narrowed(points, t, w)]
    IN  find

(* _findIndex: the last point that is not after t.                         *)
FindIndex(points, t) == Search(points, t)[<<0, Len(points) - 1, 0>>]

-------------------------------------------------------------------------------
(* What the views of the detail show.                                      *)
Last(points, i) == IF i < Len(points) THEN i ELSE Len(points) - 1

(* TimelineControl: the time, and the play or the pause sign.              *)
TimelineShows(t, state) == [time |-> t, playing |-> state]

(* FieldMap2D on a tick: the marker at the frame, and the way up to it.    *)
MapMoved(points, i) ==
    [marker |-> IF i < Len(points) THEN i ELSE NoPoint, flown |-> Last(points, i)]

(* FieldMap2D drawn anew: the marker, and the whole way.                   *)
MapDrawn(points, i) ==
    [marker |-> IF i < Len(points) THEN i ELSE NoPoint,
     flown |-> IF Len(points) > 1 THEN Len(points) - 1 ELSE NoPoint]

(* Scene3D: the way up to the frame, which goes with the dataset, and the  *)
(* drone, which stays where it is without one.                             *)
SceneTrail(points, i) == Last(points, i)
SceneDrone(points, i, at) == IF points = <<>> THEN at ELSE Last(points, i)

(* The views newly mounted, with no dataset.                               *)
Mounted(t, state) ==
    [timeline |-> TimelineShows(t, state), panels |-> t,
     map |-> MapDrawn(<<>>, 0), trail |-> SceneTrail(<<>>, 0), drone |-> NoPoint]

(* The views after the dataset has changed.                                *)
Redrawn(points) ==
    [timeline |-> TimelineShows(time, playing), panels |-> time,
     map |-> MapDrawn(points, index), trail |-> SceneTrail(points, index),
     drone |-> SceneDrone(points, index, views.drone)]

(* The views after a tick.                                                 *)
Ticked(t, i, state) ==
    [timeline |-> TimelineShows(t, state), panels |-> t,
     map |-> MapMoved(dataset.points, i), trail |-> SceneTrail(dataset.points, i),
     drone |-> SceneDrone(dataset.points, i, views.drone)]

ReplayInit ==
    /\ selected = NoSession /\ dataset = NoData
    /\ index = 0 /\ time = 0 /\ playing = "stopped" /\ speed = 1
    /\ mounted = FALSE /\ raf = FALSE /\ fresh = TRUE
    /\ detail = NoSession /\ visible = FALSE
    /\ loads = [s \in Sessions |-> 0]
    /\ views = Mounted(0, "stopped")
    /\ behind = FALSE /\ carried = FALSE
    /\ inputs = 0

Inputs == inputs < MaxInputs /\ inputs' = inputs + 1

-------------------------------------------------------------------------------
(* The engine.                                                             *)
Start == raf' = TRUE /\ fresh' = IF raf THEN fresh ELSE TRUE
Stop == raf' = FALSE /\ fresh' = TRUE

(* _emitTick: the index is found anew, and every view follows.             *)
Tick(t, state) ==
    /\ time' = t
    /\ index' = IF dataset.points = <<>> THEN 0 ELSE FindIndex(dataset.points, t)
    /\ views' = IF detail = NoSession THEN views ELSE Ticked(t, index', state)
    /\ behind' = FALSE

(* Mistake: the loop goes on at the end of the data.                       *)
FrameEndless ==
    /\ raf
    /\ \E passed \in 1 .. MaxStep :
        IF fresh
        THEN /\ fresh' = FALSE
             /\ UNCHANGED <<raf, index, time, playing, views, behind>>
        ELSE IF Duration(dataset) = 0
        THEN UNCHANGED <<raf, fresh, index, time, playing, views, behind>>
        ELSE IF time + passed * speed >= Duration(dataset)
        THEN /\ Tick(Duration(dataset), playing)
             /\ playing' = "stopped"
             /\ UNCHANGED engine
        ELSE /\ Tick(time + passed * speed, playing)
             /\ UNCHANGED <<raf, fresh, playing>>
    /\ UNCHANGED <<selected, dataset, speed, page, carried, inputs>>

(* A frame: it takes the time, or advances by what has passed since.  At   *)
(* the end the tick comes before the state changes.                        *)
Frame ==
    /\ raf
    /\ \E passed \in 1 .. MaxStep :
        IF fresh
        THEN /\ fresh' = FALSE
             /\ UNCHANGED <<raf, index, time, playing, views, behind>>
        ELSE IF Duration(dataset) = 0
        THEN UNCHANGED <<raf, fresh, index, time, playing, views, behind>>
        ELSE IF time + passed * speed >= Duration(dataset)
        THEN /\ Tick(Duration(dataset), playing)
             /\ playing' = "stopped"
             /\ Stop
        ELSE /\ Tick(time + passed * speed, playing)
             /\ UNCHANGED <<raf, fresh, playing>>
    /\ UNCHANGED <<selected, dataset, speed, page, carried, inputs>>

(* The play button.  It shows the state at once, and the time.             *)
PlayPause ==
    /\ visible /\ Inputs
    /\ playing' = IF playing = "playing" THEN "paused" ELSE "playing"
    /\ IF playing' = "playing" THEN Start ELSE Stop
    /\ carried' = FALSE
    /\ views' = [views EXCEPT !.timeline = TimelineShows(time, playing')]
    /\ UNCHANGED <<selected, dataset, index, time, speed, page, behind>>

(* The slider, which reaches to the end of the data or, without any that   *)
(* lasts, to 60.                                                           *)
Seek(t) ==
    /\ visible /\ Inputs
    /\ t <= IF Duration(dataset) > 0 THEN Duration(dataset) ELSE Slider
    /\ Tick(t, playing)
    /\ UNCHANGED <<selected, dataset, playing, speed, engine, page, carried>>

Clamp(t) == IF t < 0 THEN 0 ELSE IF t > Duration(dataset) THEN Duration(dataset) ELSE t

(* The step buttons move by the mean distance of two points.               *)
Step(dir) ==
    LET n == Len(dataset.points)
    IN  /\ visible /\ Inputs
        /\ n > 0
        /\ Tick(Clamp(time + dir * (IF n > 1 THEN Duration(dataset) \div n ELSE 1)), playing)
        /\ UNCHANGED <<selected, dataset, playing, speed, engine, page, carried>>

SetSpeed(s) ==
    /\ visible /\ Inputs
    /\ speed' = s
    /\ UNCHANGED <<selected, dataset, index, time, playing, engine, page, views, behind, carried>>

-------------------------------------------------------------------------------
(* The page.                                                               *)
(* Mistake: the engine does not take up a replay that was left playing.    *)
MountIdle ==
    /\ ~mounted /\ Inputs
    /\ mounted' = TRUE
    /\ UNCHANGED <<store, engine, detail, visible, loads, views, behind, carried>>

(* The page is opened: a replay that was left playing goes on, with no     *)
(* detail views.                                                           *)
Mount ==
    /\ ~mounted /\ Inputs
    /\ mounted' = TRUE
    /\ IF playing = "playing" THEN Start ELSE UNCHANGED engine
    /\ UNCHANGED <<store, detail, visible, loads, views, behind, carried>>

Unmount ==
    /\ mounted /\ Inputs
    /\ mounted' = FALSE
    /\ Stop
    /\ detail' = NoSession /\ visible' = FALSE
    /\ carried' = FALSE
    /\ UNCHANGED <<store, loads, views, behind>>

(* A card of the list is clicked: the dataset is dropped, its load begins, *)
(* and new views are mounted.  A replay that runs goes on running.         *)
Select(s) ==
    /\ mounted /\ Inputs
    /\ loads[s] < MaxLoads
    /\ selected' = s
    /\ dataset' = NoData
    /\ loads' = [loads EXCEPT ![s] = @ + 1]
    /\ detail' = s /\ visible' = TRUE
    /\ views' = Mounted(time, playing)
    /\ behind' = TRUE
    /\ UNCHANGED <<index, time, playing, speed, engine, mounted, carried>>

(* A card of the overview: the task is selected, nothing is loaded.        *)
SelectElsewhere(s) ==
    /\ ~mounted /\ Inputs
    /\ selected' = s
    /\ UNCHANGED <<dataset, index, time, playing, speed, engine, page, views, behind, carried>>

(* The other tab of the list: the page is drawn anew without the detail,   *)
(* whose views live on where nobody sees them.                             *)
SwitchTab ==
    /\ mounted /\ Inputs
    /\ visible' = FALSE
    /\ UNCHANGED <<store, engine, mounted, detail, loads, views, behind, carried>>

(* Mistake: the answer is not compared with the selection.                 *)
LoadedLate(s, points) ==
    /\ loads[s] > 0
    /\ loads' = [loads EXCEPT ![s] = @ - 1]
    /\ dataset' = [of |-> s, points |-> points]
    /\ index' = 0 /\ time' = 0 /\ playing' = "stopped"
    /\ views' = views
    /\ behind' = TRUE
    /\ carried' = raf
    /\ UNCHANGED <<selected, speed, engine, mounted, detail, visible, inputs>>

(* The data of a session has come.  It is dropped if another session is    *)
(* selected.  The views are drawn when the dataset is set, with the time,  *)
(* the frame and the state of before, which are reset after it.            *)
Loaded(s, points) ==
    /\ loads[s] > 0
    /\ loads' = [loads EXCEPT ![s] = @ - 1]
    /\ IF selected # s
       THEN UNCHANGED <<dataset, index, time, playing, views, behind, carried>>
       ELSE /\ dataset' = [of |-> s, points |-> points]
            /\ index' = 0 /\ time' = 0 /\ playing' = "stopped"
            /\ views' = IF detail = NoSession THEN views ELSE Redrawn(points)
            /\ behind' = TRUE
            /\ carried' = raf
    /\ UNCHANGED <<selected, speed, engine, mounted, detail, visible, inputs>>

-------------------------------------------------------------------------------
Controls ==
    \/ PlayPause
    \/ \E t \in {0, 2, Slider} : Seek(t)
    \/ \E dir \in {-1, 1} : Step(dir)
    \/ \E s \in {1, 2} : SetSpeed(s)
    \/ Mount
    \/ Unmount
    \/ \E s \in Sessions : Select(s) \/ SelectElsewhere(s)
    \/ SwitchTab

(* A telemetry request that fails counts as one without data.              *)
Load == \E s \in Sessions : \E points \in {Points(Raw[s]), <<>>} : Loaded(s, points)

ReplayNext == Frame \/ Controls \/ Load

ReplaySpec == ReplayInit /\ [][ReplayNext]_replayVars

(* Frames come as long as they are requested; fetch answers or fails.      *)
ReplayFairSpec == ReplaySpec /\ WF_replayVars(Frame) /\ WF_replayVars(Load)

-------------------------------------------------------------------------------
States == {"playing", "paused", "stopped"}
Indices == Nat \cup {NoPoint}
Views ==
    [timeline : [time : Nat, playing : States], panels : Nat,
     map : [marker : Indices, flown : Indices], trail : Indices, drone : Indices]

ReplayTypeOK ==
    /\ selected \in Sessions \cup {NoSession}
    /\ dataset \in [of : Sessions \cup {NoSession}, points : Seq(Nat)]
    /\ index \in Nat /\ time \in Nat
    /\ playing \in States /\ speed \in {1, 2}
    /\ mounted \in BOOLEAN /\ raf \in BOOLEAN /\ fresh \in BOOLEAN
    /\ detail \in Sessions \cup {NoSession} /\ visible \in BOOLEAN
    /\ loads \in [Sessions -> Nat]
    /\ views \in Views
    /\ behind \in BOOLEAN /\ carried \in BOOLEAN
    /\ inputs \in Nat

(* What the frame of a time is: the last point that is not after it.       *)
FrameAt(points, t) ==
    CHOOSE i \in 0 .. Len(points) - 1 :
        points[i + 1] <= t /\ \A j \in i + 2 .. Len(points) : points[j] > t

(* Whatever is seeked, stepped, played, left and selected, the frame of    *)
(* the store is that of its time, and the time lies within the data, if    *)
(* they last.  The views show both, unless the dataset has been exchanged  *)
(* and no tick has come since.                                             *)
FrameOfTime ==
    /\ dataset.points # <<>> =>
           /\ index = FrameAt(dataset.points, time)
           /\ Duration(dataset) > 0 => time <= Duration(dataset)
    /\ detail # NoSession /\ ~behind => views.timeline.time = time /\ views.panels = time
    /\ detail # NoSession /\ ~behind /\ dataset.points # <<>> =>
           views.map.marker = index /\ views.map.flown = index
           /\ views.trail = index /\ views.drone = index

(* HistoryPage.js:283: a slow answer never replaces what was selected      *)
(* after it; the views of a task show no other task's flight.              *)
OwnFlight == detail # NoSession => dataset.of \in {NoSession, detail}

(* The animation runs while the state says playing, and otherwise only     *)
(* when a dataset has arrived while it ran.                                *)
LoopAsSaid ==
    /\ mounted /\ playing = "playing" => raf
    /\ raf => mounted /\ (playing = "playing" \/ carried)

(* A replay of data that last comes to its end.                            *)
PlayEnds == raf /\ Duration(dataset) > 0 ~> ~raf \/ Duration(dataset) = 0

(* Nothing moves in the state "stopped".  It does not hold: a dataset that *)
(* arrives while the loop runs sets the state and leaves the loop running. *)
StoppedIsStill == [][playing = "stopped" /\ Frame => time' = time]_replayVars
===============================================================================
