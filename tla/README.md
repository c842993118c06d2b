# Verification of the test-flight control system

TLA+ specifications of the test-flight control system in `src/`, the TLC
configurations that check them on small instances, and proofs for every value
of the constants. Section 1 is the inventory of the system, section 2 says
which module models what, section 3 what each run shows and within which
bounds, section 4 what is proved, section 5 what was found, section 6 what is
not modelled, and section 7 how to change a module.

## 1. The system

A human talks to an LLM agent (*beta*) in a browser. Beta proposes manoeuvres;
what the human approves goes to a second LLM loop (*alpha*), which translates
it into a list of coded actions, a *plan*. Process **A** (`backend-A`, asyncio)
sends the plan over a Unix socket to process **B** (`backend-B`, threads, on
the drone), which computes goals, turns them into 20 Hz setpoints and drives
PX4 through MAVROS. `frontend` is a browser application with no framework: a
store, an event bus, a hash router, pages. `sim-drone` is a simulator.

```
 browser --HTTP/SSE/WS--> A: routes, beta --queue--> alpha --bridge--> ipc/server
                                                                          | frames
 PX4 <--MAVROS-- adapter <--setpoint-- publisher <--goal-- small_model <- ipc/client, dispatch
```

| Part | State | Operations | Talks to | Hard behaviour | Correct when |
|---|---|---|---|---|---|
| `small_model/component.py` (B) | plan, index, status, merged constraints, goal; one lock | `generate_goal`, `abort`, `hover`; arrival check and advance | the IPC and main threads call it, the publisher thread advances it, it calls the land handler and sends events | two-section arrival check; handlers run after the lock is released; a translation may raise half way | goal, plan, status and last report agree; nothing revoked is flown; landings are commanded |
| `small_model/stub.py`, `goal_gen.py` (B) | none | action code to goal, clamped | small_model | two clamps whose order matters, a check after them, overrides | a goal is inside the merged constraints |
| `rosbridge/publisher.py` (B) | ramp position and key, hold point | one tick, 20 Hz | reads the goal, calls the adapter | goal replaced between reading and use; stale ramp and hold point | setpoints never jump, reach the target, hover holds |
| `rosbridge/adapter.py` (B) | phase, mode and arming seen, loss timer, retries, `_emergency`, rearm cooldown | preflight, publish and check OFFBOARD, `emergency_land`, rearm worker, state callback | MAVROS services; called on four threads | guard and request in different critical sections; refused services; timeouts | a loss is mended or lands the drone; a landing is not overridden; the next takeoff is possible |
| `ipc/server.py` (A), `ipc/client.py`, `frames.py`, `dispatch.py` (B) | writer, heartbeat; socket, threads | accept, ping, watchdog; connect, receive, pong, reconnect | each other | handlers of old connections work on new ones, two timeouts of 5 s, start order | either side knows in the end; B hovers on a loss |
| `monitor/` (B) | throttles, trend windows | tick | state, events to A | throttle consumed by a failed send | an alert that lasts is reported |
| `lifecycle.py`, `main.py`, `run_b.py` (B) | threads, stop flag | start, shut down | everything | order of wiring, shutdown during a flight | no handler missing when a call comes in |
| `agents/alpha.py`, `alpha_llm.py` (A) | input queue, plan, flight status | `_tick`, translate, dispatch, hover | queue, bridge | translation takes seconds; abort meanwhile | nothing queued is lost; without a plan B hovers |
| `bus/bridge.py`, `state.py` (A) | the same fields | calls to B; status, reject, pose, alert events | ipc/server, web hub | events name no plan | A agrees with B |
| `tools/beta_tools.py`, `web/routes.py` (A) | pending proposal, last human message, session | propose, forward; approve, reject, create, activate, delete, abort | alpha's queue | pre-translation takes seconds; session switched meanwhile | consent is given once, for the task it was asked in |
| `web/ws.py`, `sse.py` (A) | clients and their queues | connect, broadcast, drop | browser | a slow client | one client does not block another |
| `db/repos.py` (A) | telemetry buffer, tables | buffer, flush, delete | SQLite | flush failing, session deleted | nothing buffered twice or lost |
| `ws.js`, `app.js` (connection) | socket, heartbeat, timer, link status | connect, reconnect, probe, refresh | A's hub and REST | close events of replaced sockets, REST answers racing pushes | a dead connection is noticed, the page reconnects, the link shown is the link last learned |
| `state.js`, `event-bus.js` | store, batch | set, batch, subscribe | everything in the browser | a batch names the first change of a path | a reader finds the last value |
| `router.js`, `AlphaPage`, `BetaPage`, `ViewModeSelector`, `ViewPanel` | hash, mounted page, shared view sources | navigate, mount, swap views, stream | store, bus | hash changes during an import | one page is mounted, the last hash is reached, views show their sources |
| `DashboardPage/Grid/Panel`, `StatusBar` | panels, subscriptions, ring buffers, counters | add, remove, move, redraw | store, bus | panels mounted over themselves; redraws left out while one is pending | nothing shown is out of date |
| `playback.js`, `TimelineControl`, `HistoryPage`, history views | dataset, index, time, animation frame | play, seek, step, load, select | store, bus | three writers; loads that answer late | frame, time and views agree; only the selected flight is shown |
| `TaskCard`, `TaskPanel`, `app.js` (tasks) | current task, title, conversation, flown way | create, activate, rename, delete, load, list | A's REST | three requests per load, operations overlapping | everything shown is of the task A writes to |
| `ChatPanel`, `sse.js`, `BetaPage`, `FlightPlanCard` | conversation, folds, card, frozen recording | ask, alert, propose, verdict, reset | A's SSE and REST | streams that end in four ways, cards mounted late | one answer for a question; the waiting proposal is on the card; a reset holds |

Processes and threads. A is one asyncio thread: it can be interleaved only
where it awaits something that really suspends. B has a main thread (start-up,
preflight, shutdown), the IPC thread, the publisher thread (20 Hz), the
monitor, rospy's callbacks and a short-lived rearm worker. The browser runs one
handler at a time; what interleaves are events, timers, animation frames and
the answers to requests. The hazards of each part, with their lines, are
listed in `PROJECT.json`.

## 2. Modules

| Module | Models | How |
|---|---|---|
| `Mission` | what B promises of an order | abstract specification: one order at a time, its actions taken up in turn, revoked orders never again |
| `SmallModel` | `component.py` | a step is one critical section of `component._lock`; implements `Mission` |
| `GoalGen` | `stub.py`, the merge of constraints | operators without state, in millimetres |
| `GoalPublisher` | `publisher.py` | a tick is two steps, reading the goal and using it |
| `Offboard` | `Phase2Adapter` and PX4 | a step lies between two lock sections or service calls |
| `Flight` | the order `run_b.py` composes them in | `Offboard` extended with an instance of `GoalPublisher` on one thread |
| `Command` | A's command path | a step lies between two awaits that suspend |
| `Link` | both ends of the IPC | a step of A lies between two awaits, B's is a blocking call |
| `Connection` | the browser's socket | a step is one event of the browser or one end of a request |
| `Pages` | router and views | `_onChange` is cut at its import |
| `Store` | `state.js` | what a batch leaves and whom it notifies, as operators |
| `Dashboard` | live panels and status bar | on top of `Store`; a batch with all its notifications is a step |
| `Playback` | replay | a step is one event or animation frame |
| `Tasks` | task operations | every request is asked, handled by A, and answered |
| `Dialogue` | chat, proposals, reset | the same, with A's one proposal |
| `MC*`, `*Proofs` | | instances for TLC; theorems |

State and code. Variables have the names of the fields where TLA+ allows, and
the VARIABLES of each module say which field each one is. The correspondence of
every definition to its lines is `map` in `PROJECT.json`. The definitions whose comment
begins with "Mistake:" are plausible wrong versions of the definition after
them; no specification uses them, and each is there because one of the
properties must fail with it in place. Variables marked *history* record, for
the properties, what the code does not keep.

*SmallModel.* Calls are numbered, and the number names the plan. An action is
reduced to how its translation ends (`fly`, `unknown`, `oob`, `land`,
`malformed`). `GenerateGoal`, `Abort` and `Hover` are what `handle` dispatches to (80-222),
`GenerateNextGoal` is `_generate_next_goal`, `CheckArrival`, `ArriveHovering`
and `ArriveAdvance` are the two sections of `check_arrival_and_advance`, with
`_advance_action` inside (`NextAction`, `CompletePlan`). `IpcCallLand` and
`PubCallLand` are the handlers run with the lock released. `malformed` is
the exception that is not a `GoalGenError`: plan, index and status have been
written, goal and event have not.

*GoalGen.* `Aim` has one case per action code; `Into`, `Rise` and `Above` are
the three orders in which the code applies boundary, floor and ceiling, and
`Admitted` is the final check with its millimetre of tolerance (`Tol`).
`MergeSafety` replaces defaults by overrides. Direction and heading are data:
a move carries the displacement its direction and value come to.

*GoalPublisher.* Positions are altitudes, since the hold point is tested on
that coordinate. The drone moves freely and need not follow its setpoint, and a
goal may have the key of one flown before. `flown`, `held` and `again` are
history: the goal flown last, the hover left last, and whether the one is
issued again after the other, so that the properties can say where a setpoint
goes then.

*Offboard.* The flight controller accepts or refuses any request and changes
mode by itself; `mavMode` and `mavArmed` lag behind it. `_check_offboard_lost`
is cut into `Engaged`, `GuardEmergency`, `TolerateLoss`, `RequestOffboard`,
`WaitOffboard` and `ReengageFailed`, at its lock sections and service calls.
The 1 s of tolerance and 5 s of cooldown run out at any moment. A worker that
arms again outlasts the cooldown if its services are slow, so there may be
several: `starting` and `arming` count them.

*Flight.* `GoalPublisher` and `Offboard` share the altitude. Publishing is one
call that ends in the watch, so a tick and the watch exclude one another; a
landing is commanded by a thread that has seen the goal cleared.

*Command.* An instruction is a model value. `fate` is history: `open`,
`left` (its task was switched away), `approved`, `overtaken` (an abort came
after the approval), `closed`, `wrong` (reached B without consent). B is
reduced to what `SmallModel` shows of it to A: a status, the events, a plan that
may be revived (`bfirst`), and a translation that raises and is never reported (`mute`).
The arrival check is two steps as in `SmallModel`: `BArrives` notes an arrival
(`arrived`), and `BAdvance` moves on whatever B has been told in between,
also without a plan (`NothingLeft`, which reports a completion).
Pushing to the queue is taken as atomic.

*Link.* A connection is a model value, free again when both sides have
forgotten it. `task` is where A's handler of it stands: `HandlerEnds` is the
loop that ends and says that B is gone, `HandlerCloses` the part of its
`finally` after the await, which acts on the shared `_writer`. The socket is a
Unix socket: no frame is lost, and a close is seen after the data before it.
The two 5 s are different. A's `PongLate` may happen whenever a pong is owed;
B's `ReadFails` by timeout is free only on a connection nobody writes to, and
otherwise needs a stall of A, which is a fault. A sending fails when the other
side has closed; one that times out is left out, because either 5 s is over
before the socket's buffer is full. `thread` also holds B's start as
`run_b.py` orders it: connect, preflight for up to 90 s, start of the loop,
disconnect handler.

*Connection.* `cur` is the socket the manager holds, `lingering` counts those
it has replaced and whose close events are still to come (`OnCloseReplaced`).
The heartbeat counts its own ticks since the last message. `fetch` holds the
requests for the link status with the state they were answered with, so that
an answer may be overtaken by a push.

*Pages.* `StartLoad` is `_onChange` up to its import, `Loaded` and `LoadFails`
what follows; the call from its `finally` comes before any other event
(`again`). `Mount` and `Unmount` are what pages do; the views of a mounted page
are what it read from the store then, changed by the events it listens to.

*Dashboard.* A path of the store is a sequence of keys, and a notification the
index of the set it is for; `PoseSets` and
`OnConnection` are the batches of `app.js`. `handlers` has one entry for every
subscription, so that a grid drawn again has more of them than panels. Any
panel can be removed and added again; alerts that come while there is no panel
for them (`missed`) are not counted by any.

*Playback.* `FindIndex`, `FrameAt` and `Duration` are the functions of
`playback.js` on times in units (a turn of the binary search is `Narrowed`, and
`Search` what it comes to from any window); `MapDrawn`, `SceneTrail` and `TimelineShows`
what a view shows of a frame. `Loaded` is the answer to a load with the check
of the selection in it.

*Tasks.* An operation is a record in `ops` with the step it has reached:
`Handle` is A's side, `Created`, `Activated` and the others the browser's, and
`LoadDetail`, `LoadTalk`, `LoadTrack` the three answers of a load, between
which poses come in. `name` counts the names a task has had; 0 is none, which
is how the chat begins a task (`Untold`) until its first plan names it (`Named`).
The load of a task without a name leaves the title alone.

*Dialogue.* A stream ends by `Done`, `ErrorEvent`, or `Drop`, the last also
after the second. `view` is the message container, and `drawing` its
generation: a stream or a fold may hold an element of an older one. `missed` is
history: what may keep the waiting proposal off the card until the page is
mounted again (`ProposalShown` lists the five ways; `Outdated` is the arrival of
an older proposal after a newer). `frozen`,
`flown`, `trail` and `scene` are the flown way in the store, in the shared buffer
of the 3D view and on the screen.

## 3. Runs

| Run | States | Shows |
|---|---|---|
| `small_model` | 49 thousand | goal, plan and constraints belong together; the component implements `Mission`; a plan that ends in a landing commands it, whichever thread comes to it. The instance also evaluates `GoalGen` at the corners of the configured field |
| `offboard` | 418 thousand | a landing is overridden at most once, the failures counted are those of the loss under way, a loss is resolved, a landing does not block the next takeoff |
| `goal_publisher` | 157 thousand | where a setpoint may be after the one before, where the hover after a goal holds the drone, the setpoint reaches a target that stays |
| `flight` | 4.3 million | a landed drone is armed only for a goal or for a hold point near the ground |
| `command` | 1.2 million | consent asked and used once, agreement of A and B at rest, revoked plans stop |
| `link` | 0.3 million | the link heals after the last fault, the browsers are not left with a wrong state, B hovers on a loss |
| `connection` | 164 thousand | the socket is never stranded, a dead one is noticed, the page reconnects, the link shown is the link last learned |
| `pages` | 38 thousand | one page at a time, the last hash is arrived at, views show the sources of the store |
| `dashboard` | 1.7 million | nothing shown is out of date, the series has no gap, no alert is lost while its panel is there |
| `playback` | 152 thousand | the frame is that of the time, the flight that of the task, the loop runs as the store says, a replay ends |
| `tasks` | 10.2 million | the browser ends in the task A writes to, under its title if it has one, and the list is A's |
| `dialogue` | 5.9 million | folded alerts count the right message, one answer for a question, the waiting proposal is on the card, a reset holds |

Every run is small enough for a few minutes. Several properties have an
exemption ("unless a switch overlapped another"): it is kept by a history
variable, and section 5 says what happens in the exempted case. These further
configurations end in a violation, each of one property that the program, a
comment or the design promises and does not keep: `MCSmallModelSkip`,
`MCOffboardOverride`, `MCOffboardAbort`, `MCGoalPublisherJump`,
`MCFlightRearm`, `MCCommandAbort`, `MCCommandProposal`, `MCConnectionWatch`,
`MCTasksTitle` (module and property by the name of the file).

Bounds, and why they are enough.

- `small_model`: every list of at most two actions of five kinds, and four
  of three actions that stop or raise in the middle, with `MaxCmds = 5` calls.
  One plan is replaced by another between any two sections with two calls;
  a third and fourth make the revived plan and the stale land handler meet an
  abort. Deadlock checking is off: after the last call and the last action nothing
  is left to do. `LandHandler = TRUE` is phase 2; the proofs cover both.
- `offboard`: three altitudes (on the ground, between the ground and
  home, above home). The code tests `>= 2` retries, so `MaxRetries = 2`. Two
  workers (`MaxWorkers`), so that one is started while another is under way. No
  bound limits the number of losses, landings or plans.
- `goal_publisher`: five altitudes with a ramp of two and a drop of one, so
  that a target is up to two steps of the ramp away, the last of them a short
  one, and the hold point is reset after some descents and not after others; two
  yaws, so that goals of one place and another key occur.
- `flight`: altitudes in quarter metres; home 0.5 m, ground below 0.25 m, drop
  0.75 m. One target, above home, suffices: the drone may be anywhere when a goal
  is cleared, so hold points take every altitude. One worker: what starts one
  does not depend on those under way.
- `command`: one thing said, two proposals (one pending and one drafted, one
  replacing the other), one call under way when alpha sends another, an abort
  on top of it (a second one behind it would change nothing at B), one event
  under way, one loss of the link noticed
  by the two sides in either order.
- `link`: three connections, so that the handlers of two old ones can end late
  beside a living one; one frame of a connection and direction under way; two
  faults (a stall or the end of either process); two handlers that notice their
  end late. The last budget is not only for size: a handler that is late again
  and again could end every new connection for ever. With two frames (1.8
  million states) the result is the same.
- `connection`: two missed heartbeats, one replaced socket whose close is still to
  come, two pushes and two requests under way, the fewest that can overtake one
  another both ways. The network and B come and go without bound.
- `pages`: three routes, two of them with views, and an unknown hash; two
  sequences, a stream of two entries (60 in the code: the third entry drops the
  first); one failed load. Navigation is unbounded.
- `dashboard`: three poses and two alerts, a ring of seven points, which holds
  points of two poses (a pose pushes three and more) and drops those of the
  first; at most six subscriptions, which are those of the three panels mounted
  twice over; one field in a pose. No batch of the run repeats a path, as no
  pose of A does; that a repeated one is told is proved (`ChangeIsTold`).
- `playback`: three flights: one that stands still first (the trim of the
  start drops points), one of a single point, one with neighbouring points; a
  frame advances at most two units; two loads of a task under way; eight acts
  of the user, enough to seek, play, leave, return, reselect and play again.
  Deadlock checking is off: the user may stop.
- `tasks`: one task that is there from the start, with a name or without, and
  room for another that an operation or the chat begins; one renaming, two
  operations and two list requests under way (only the card that was clicked is
  locked), one failure, two acts beside the requests that follow from them.
  Deadlock checking is off.
- `dialogue`: two questions, two proposals, two verdicts, three acts
  of the user, alerts or faults; one code of alerts. The planning page is not
  mounted again while the request of its last mounting is under way (the code
  would have two requests then; their answers are the same snapshot or newer).
  Deadlock checking is off.

Fairness. `SmallModel`: its threads loop, so every enabled step of
theirs is taken; a goal that stays is reached in the end, which is an
assumption on the vehicle. `Offboard`: the publisher loop, the worker, the
callbacks and the clock. Publishing has strong fairness because the same
thread also runs the watch, which the model lets a landing begin in between.
Nothing is assumed of the flight controller. Only `MCOffboardAbort` adds assumptions
(`PersistentSpec`): an operator who tries again and a controller that accepts
what it is asked over and over; the property fails even so. `GoalPublisher`: the
thread ticks. `Link`: tasks and threads go on, both 5 s pass (B's only when
nobody writes to its connection), and a process that has ended is started
again, as an operator does with `start_all.sh`; pinging is strong because
`MaxFrames` can disable it for a moment; nobody has to send orders.
`Connection`: timers fire, attempts end, a closing socket closes, a request
ends (`api.js` gives it 10 s); tab, network and server owe nothing. `Pages`:
the router handles its events and an import ends. `Playback`: animation frames
come while one is requested, and requests end. The runs of `Command`,
`Dashboard`, `Tasks` and `Dialogue` check safety only. Humans, agents and the
drone owe nothing anywhere.

## 4. Proofs

`tlapm` proves these, for every value of the constants that the named
assumptions of the modules allow. No other assumption is made.

- `SmallModelProofs`: the type invariant, the five safety invariants,
  `HoverHolds`, `OnlyFirstActionAtRisk`, and the refinement of `Mission`, for
  any set of plans of any length and any number of calls. No invariant is
  inductive alone. `IInv` adds that the merged constraints are the plan's
  (`SafetyOfPlan`), that hovering comes with no plan and its own goal
  (`HoverGoalKept`), that a late arrival whose goal has changed finds the plan at its first
  action (`LateArrivalAtFirst`), and that a plan idle there was stopped
  there (`StoppedAtFirst`). The refinement is a step lemma under `IInv`.
  About `GoalGen`, for all integers: `GoalsAreSafe` (with constraints that fit
  together every action but a turn is accepted, and its goal lies within the
  boundary and between floor and ceiling, from any position),
  `TurnRefusedOutside` and `FloorAboveBoundaryRefuses` (when the final check is
  reached). They rest on `ClampNearest`, that a clamp is the nearest point, and on
  the order of the two clamps.
- `GoalPublisherProofs`: the type invariant, `HoldsStill`, `NoJump` and
  `HoldAfterGoal`, for any goals and any size of step and drop.
  `FieldsMatchSource` says what the fields are worth after a setpoint of either
  kind, `FieldsMatchPast` how they agree with what was published before: the ramp
  is where the goal flown last was left, and after a goal there is a hold point
  exactly when it was issued again, namely that of the hover before.
- `FlightProofs`: of `Offboard`, the type invariant, `OverrideAtMostOnce` and
  `FailuresOfThisLoss`. `IInv` adds that a landing once
  overridden finds the publisher in front of its guard (`PastGuard`), and that
  re-engagements are for old losses (`EngagingIsOld`). Of the composition,
  `RearmNeedsReason`, which rests on `SetpointKnown`: the adapter decides on the
  setpoint published last, and a hold point was at most `Drop` above the drone
  when it was published. Its lemmas show that every step of the composition is
  one of either part or a stutter of it.
- `CommandProofs`: the type invariant, `ConsentedOnce`, `RevokedPlanStops` and
  `QuietAgreement`, for any number of instructions, of calls and events under
  way and of losses (but, as in the model, with one abort under way at a
  time). `Consent` says where a proposal can be in each state of its
  `fate`: on its way to B only when approved, in the queue or in the batch but
  not in both, pending or drafted only while unanswered. `Revoked` says that of the
  calls under way the last one stops B, and `Agreement` that the last call is
  one B answers and the last event agrees with B.
- `ConnectionProofs`: the type invariant, `NeverStranded`, `StatusTells` and
  `LinkShown`, for any number of replaced sockets, pushes and requests. The
  last rests on what is under way while a socket is open (`LinkInv`): the last
  push tells the link as it is; when there is none, so does every answer that
  is not old; and a view that differs from the link has a request under way
  that will set it right. Of `Link`: the types of both ends, `UiTells` and
  `HoverOnLoss`, for any connections and any number of frames, faults and late
  handlers. The first rests on `UpIsRead`: as long as A takes B to be there
  a handler reads, and its end tells the browsers, since no connection of the
  backlog has a handler yet (`BacklogNew`). The second rests on
  `HoversBetween`: between noticing a loss and the next attempt B's
  thread has made the drone hover.
- `PagesProofs`: of `Pages`, `OnePage` and `ViewsFollow`, for any routes, pages and
  sequences. `RouterInv` adds that no page is mounted while an
  import is awaited, and `SourcesMatchMode` that the sources of the store fit its mode,
  which every exchange of them keeps. Of `Dashboard`, `BarsFresh`,
  `SeriesComplete` and `AlertsCounted`, for whatever fields a pose carries, any
  length of the ring, and any number of poses, alerts and subscriptions. Two
  lemmas carry them: `ChangeIsTold`, that of the paths a batch changes each is
  told once at least, though only its first change is and though a set
  may take back another; and `PushKeeps`, that points pushed behind a series
  without a gap leave none. `Subscribed` says that every panel of the grid
  has a subscription, and `SeriesInv` that before the first pose the series is
  empty and afterwards ends in the latest pose.
- `DialogueProofs`: `ResetHolds`, `ProposalShown`, `AlertIndexed` and
  `AnsweredOnce`, for any number of questions, proposals, verdicts and acts.
  `ResetHolds` rests on `FrozenEmpty` and `SceneDraws`; `ProposalShown` on `WaitingKnown` and
  `CardFollows`, which say where a proposal that waits is known and that the card
  follows the plan, and on `RestoreKnown`, that what the page asked A for is the
  proposal that waits unless that is still to come; `AlertIndexed` on
  `FoldsStand`, that the message a fold remembers stands at its index, in the store and on the screen. `AnsweredOnce` rests on
  `AnswerInv`, where the messages of a question stand: before it is asked nowhere,
  then its placeholder in the one place its stream remembers while its
  container is the one shown, and in the end its answer in exactly one place.
  A placeholder is never stored (`NoPlaceStored`).
- `TaskProofs`: of `Playback`, the types, `OwnFlight`, `LoopAsSaid` and
  `FrameOfTime`, for every recording and any number of acts. The last contains
  the correctness of the binary search: in points whose times rise from 0, as those
  of a loaded recording do, it finds the last that is not after the time. Of
  `Tasks`, the types, `TaskShown` and `ListFresh`, for any number of tasks,
  operations and lists under way. `SwitchInv` says that an operation nothing
  overlapped is alone (`CleanAlone`) and what it has achieved at each of its
  steps (`CleanAchieves`); `ListInv` says the same of the rows and the mark of an
  open list.

Where a definition computes over data of any length, the proofs use the least-number
principle (`WFMin` of the library) instead of an induction: a smallest window that
the search gets wrong, the first set of a path that changes it. So every invariant
and every action property of the runs is proved.

Only model-checked: the liveness properties (fairness and ENABLED are beyond
the prover), which are `Arrives`, `LandingIsCommanded`, `LossResolved`,
`LandedAllowsTakeoff`, `SetpointReachesTarget`, `LinkHeals`, `DeadLinkNoticed`,
`Reconnects` and `PlayEnds`.

## 5. What was found

On the drone and in the backends. 1 to 7 have a configuration of their own that
ends in the violation (section 3).

1. `component.py:231` compares the position with the old goal and 239 advances
   the new plan: its first action is skipped. The proof of
   `OnlyFirstActionAtRisk` shows the damage ends there.
2. `adapter.py:572` requests OFFBOARD after its test of `_emergency` is out of
   date, against the comment at 537: a landing is overridden (at most once, proved).
3. `adapter.py:500` an abort whose AUTO.LAND was refused is never repeated.
4. `publisher.py:81` the key of the ramp outlives the ramp: against the comment at
   80-81 a goal issued again after a hover does not start at the drone, and the hover
   after it goes back to the old hold point (`NeverJumps`; `NoJump` and
   `HoldAfterGoal` say where the setpoint goes).
5. `publisher.py:121` a hold point below 0.7 m above the ground survives a
   landing and arms the drone.
6. `routes.py:293` an abort leaves alpha's queue and translation alone, which
   the design says it clears.
7. `beta_tools.py:293` a proposal whose pre-translation outlasts a switch of tasks
   is pending in the next.
8. `stub.py:128-129` calls the final check out of reach. It is reached by a
   turn of a drone outside the boundary (`TurnRefusedOutside`), and by a floor or
   ceiling that leaves the boundary (`FloorAboveBoundaryRefuses`): the boundary is
   applied first, floor and ceiling second. Overrides replace the defaults and
   need not be tighter; bounds that cross yield the lower one.
9. `server.py:76-86` the end of an old handler closes or forgets the writer of
   the new connection, which then gets no pings and ends by B's timeout:
   the link heals (`LinkHeals`), after a second loss. The watchdog (169-181) marks
   the link down and tells no browser; the end of the handler corrects it
   (`UiTells`).
10. `run_b.py:108-117` a loss between the start of the receiving thread and the
    setting of the handler makes nobody hover, against section 6 of the
    interface freeze; `HoverOnLoss` exempts this window. Calls sent during
    preflight wait in the socket and are carried out after it. `client.py:68`
    says that a sending that times out reconnects; the code only marks the link
    down, and the receiving thread finds the loss. `client.py:3` says 1 s where
    the code backs off to 30 s; `server.py:3` and 67 mention a first-pong window
    of 5 s that nothing enforces.

Further weaknesses there: the old goal is kept, and advanced past, after a
malformed first action (`GoalLeftOver`); `_emergency` stays set in OFFBOARD
after a landing was refused; A's plan and status stay as they were after a loss
of the link, so alpha sends no hover (`stale` in `Command`); a translation that
raises at B is reported to nobody (`mute`); an approved proposal that is too
long is claimed and dropped; alpha does not return to hovering after a plan was
completed (`alpha.py:143` tests the plan, which only an abort or a reject
clears); `forward_last_human_message` is a synchronous tool that takes an
`asyncio.Lock`; `alpha_actions`, from which the plan of a task is restored, is
written by nobody.

In the browser. Each is the case that a property of section 3 has to exempt, or a
definition that does not hold (named, where there is one).

- Connection: the close event of a replaced socket clears the heartbeat of the
  one that is open (`ws.js:22-23` promises one; `OpenIsWatched`,
  `MCConnectionWatch`). An answer of REST overtakes a push and shows the state of
  before. The overlay is never drawn: the proxy of `shared.js:89` has no
  `getRetryCount`, and `app.js:133` compares the whole connection value with a
  string. `OverviewPage` draws its status panel at its mount only, though
  `app.js:462-463` says otherwise; `StatusBar` does not subscribe to the
  environment, and `AlphaPage` draws its task card only at its mount.
- Pages: an unknown hash or a failed load leaves the router on a page that is
  unmounted. A swap of sources by the selector is not shown by views that are
  mounted, and two slots with one source leave two 3D views of which the second
  gets no points.
- Dashboard: panels drawn again keep their old subscriptions, so an alert is
  counted once for each (`CountedOnce`) and a pose gives one point for every
  path that changed (`PointPerPose`).
- Playback: a dataset that arrives while the loop runs leaves it running while
  the state says stopped; the button shows "pause" after the natural end; the
  group of the history plan is never added to the scene (`Scene3D.js:400-403`
  returns before 471); a change of tabs hides a replay that goes on; without data
  the slider is 60 s long.
- Tasks: of two overlapping switches A may end in one task and the browser in
  the other (`AlwaysAgreed`). A session that begins with a chat message is not
  told to the browser. It has no name until its first plan, and the load of a
  task without a name sets no title (`app.js:529`; `AlphaPage.js:93` shows the
  one of the store): the title of the task before stays (`TitleIsOwn`,
  `MCTasksTitle`). A renaming during a load leaves the old title. Overview and
  history are not refreshed by operations of the panel, nor is an open panel by a
  reload. The plan and the 3D trail of the old task stay after a switch. A new
  task after a reset keeps recording frozen.
- Dialogue: an answer that comes after the panel was drawn anew is in the store
  and not on the screen (`AnswersVisible`); an error event followed by a broken
  connection answers twice; a late verdict clears a newer proposal
  (`NoProposalLost`); the snapshot of the mount, if A took it before a newer
  proposal came with a stream, replaces that one (`BetaPage.js:257`;
  `NewestStays`); a failed verdict
  replaces the card and offers no second try; a reset leaves A's proposal waiting;
  a reply may land in the conversation of another task. Recording, once frozen, goes
  on only by an action sequence while the planning page is not mounted. The
  abort of `BottomBar` overwrites a newer status, and is refused while
  executing without a session.

## 6. Not modelled

- The monitor of B (throttles and trends over poses: its alerts are reports that
  only panels act on), the telemetry buffer and the repositories (buffering and
  SQL that no modelled part reads but the replay, as data), the hub's queues and
  its dropping of slow clients (`Connection` sees a push lost with its socket).
- Both shutdowns, and the start of B by `main.py` and `lifecycle.py`, which
  `run_backend_b.sh` uses: it sets the disconnect handler first and its preflight
  comes after the receiving thread, so the window of finding 10 is not there.
- The buses are function calls with their exceptions caught. B's shared state
  and ROS subscriber are values behind a lock, read as variables.
- Prompts, LLM output, names, formatting and drawing are data or rendering;
  the overview, the settings, voice input and the small components of the
  frontend keep no state another part depends on. The simulator is covered by
  vehicles that do what they like.
- Within the modelled parts: the stream and virtual-RC threads, phase 1's
  passthrough, alpha's `stop`, back-off and action log, and pose, telemetry and
  alert events at A; frames that are too large and the schema version; the speed
  and heading of a goal; the layout of the dashboard in local storage; the
  preview of a plan on the map.

What would add most from here: `SmallModel` composed with `Flight`, for a land
handler that meets a newer plan (`component.py:111-113`, 247-249; `Flight` has
4.3 million states already, so one of its dimensions would have to go);
`Command` taking its losses from `Link`; the hub's queues.

## 7. Changing a module

`tlc -config MCX.cfg MCX` checks an instance and `tlapm XProofs.tla` its
theorems. A definition whose code has changed is found by its lines in `map`;
its mistakes, above it, should change with it, and every property must still
fail with its mutant of `PROJECT.json` in place of the definition.
