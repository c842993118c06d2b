-------------------------------- MODULE Tasks --------------------------------
(***************************************************************************)
(* Switching between tasks in the browser: the operations of the task      *)
(* cards (TaskCard.js), the list of the task panel (TaskPanel.js), and the *)
(* loading of a task into the store (app.js).                              *)
(*                                                                         *)
(* Backend A holds the current task and writes what comes in to it; the    *)
(* browser follows: it asks A to switch, and loads the task afterwards in  *)
(* three requests.  Two operations may be under way at a time, for only    *)
(* the card that was clicked is locked.                                    *)
(*                                                                         *)
(* Abstracted: a task is its id and how often it was given a name, 0 for   *)
(* none; a title is a task and which of its names; a conversation and a    *)
(* point of a track are the task they belong to.  A                        *)
(* request that times out was handled or never will be.  The rows of the   *)
(* overview and of the history page call the same operations as the panel. *)
(* The plan of a task is not loaded: A never writes the column it is read  *)
(* from.  Recording is not frozen (see Dialogue).                          *)
(***************************************************************************)
EXTENDS Integers, FiniteSets

CONSTANTS
    TaskIds,   \* the ids A can give to tasks
    Kept,      \* the tasks A knows at first
    NoTask,    \* null
    MaxNames,  \* bound: how often a task is given a name
    MaxOps,    \* bound: operations under way
    MaxLists,  \* bound: requests of the list under way
    MaxFails,  \* bound: requests that fail
    MaxActs    \* bound: operations of the user

ASSUME TasksAssumption ==
    Kept \subseteq TaskIds /\ NoTask \notin TaskIds
ASSUME BoundsAssumption ==
    {MaxNames, MaxFails, MaxActs} \subseteq Nat /\ {MaxOps, MaxLists} \subseteq Nat \ {0}

VARIABLES
    record,   \* A: whether a task is yet to come, kept or deleted
    name,     \* A: which name a task has (task_description), 0 for none
    active,   \* A: AppState.session_id
    sessionId,\* flight.sessionId
    title,    \* flight.taskTitle: of which task, and which of its names
    talk,     \* chatHistory: the task whose conversation it is
    flown,    \* trajectory.flown: the tasks whose points are in it
    ops,      \* the operations under way
    panel,    \* the task panel is open
    list,     \* the list of the panel: its tasks, and which is marked current
    lists,    \* how many requests of the list are under way
    muddled,  \* history: an operation overlapped another or failed
    crossed,  \* history: the list missed a change, or two requests overlapped
    fails,    \* how many requests have failed
    acts      \* how often the user has acted

atA == <<record, name, active>>
shown == <<sessionId, title, talk, flown>>
lines == <<panel, list, lists, crossed>>
bounds == <<fails, acts>>
vars == <<atA, shown, ops, lines, muddled, bounds>>

Slots == 1 .. MaxOps
Idle == [kind |-> "idle", task |-> NoTask, step |-> "idle", clean |-> TRUE]
Op(kind, t, clean) == [kind |-> kind, task |-> t, step |-> "sent", clean |-> clean]

Quiet == \A i \in Slots : ops[i] = Idle
Put(i, op) == ops' = [ops EXCEPT ![i] = op]
Goto(i, step) == Put(i, [ops[i] EXCEPT !.step = step])

(* The rows that A lists: the kept tasks and their names.                  *)
Rows == {[task |-> t, name |-> name[t]] : t \in {u \in TaskIds : record[u] = "kept"}}

(* _refreshList: the request, and a redraw with the rows at hand.  It      *)
(* makes up for what the list has missed, unless another is under way.     *)
ListAsk(open, current) ==
    /\ lists < MaxLists
    /\ lists' = lists + 1
    /\ crossed' = (lists > 0 \/ \E i \in Slots : ops[i].kind = "boot")
    /\ list' = IF open THEN [list EXCEPT !.mark = current] ELSE list

Booting == [i \in Slots |-> IF i = 1 THEN Op("boot", NoTask, TRUE) ELSE Idle]

Init ==
    /\ record = [t \in TaskIds |-> IF t \in Kept THEN "kept" ELSE "new"]
    /\ name \in {f \in [TaskIds -> {0, 1}] : \A t \in TaskIds \ Kept : f[t] = 0}
    /\ active \in Kept \cup {NoTask}
    /\ sessionId = NoTask /\ title = [task |-> NoTask, name |-> 0] /\ talk = NoTask
    /\ flown = {}
    /\ ops = Booting
    /\ panel = FALSE /\ list = [rows |-> {}, mark |-> NoTask]
    /\ lists = 0
    /\ crossed = FALSE /\ muddled = FALSE
    /\ fails = 0 /\ acts = 0

Acts == acts < MaxActs /\ acts' = acts + 1 /\ UNCHANGED fails
Fails == fails < MaxFails /\ fails' = fails + 1 /\ UNCHANGED acts

-------------------------------------------------------------------------------
(* The user.                                                               *)

(* A click in the panel: the first request of an operation is sent.  What  *)
(* is under way besides is no longer undisturbed.                          *)
Begin(kind, t) ==
    /\ panel /\ Acts
    /\ \E i \in Slots :
        /\ ops[i] = Idle /\ \A j \in 1 .. i - 1 : ops[j] # Idle
        /\ ops' = [j \in Slots |->
                      IF j = i THEN Op(kind, t, Quiet)
                      ELSE IF ops[j] = Idle THEN Idle
                      ELSE [ops[j] EXCEPT !.clean = FALSE]]
    /\ muddled' = (muddled \/ ~Quiet)
    /\ UNCHANGED <<atA, shown, lines>>

InList(t) == \E row \in list.rows : row.task = t

Create == Begin("create", NoTask)
Activate(t) == InList(t) /\ t # list.mark /\ Begin("activate", t)
Delete(t) == InList(t) /\ Begin("delete", t)
Rename(t) == InList(t) /\ name[t] < MaxNames /\ Begin("rename", t)

OpenPanel ==
    /\ ~panel
    /\ panel' = TRUE
    /\ ListAsk(TRUE, sessionId)
    /\ UNCHANGED <<atA, shown, ops, muddled, bounds>>

ClosePanel ==
    /\ panel
    /\ panel' = FALSE
    /\ UNCHANGED <<atA, shown, ops, list, lists, crossed, muddled, bounds>>

(* The page is loaded again.  The store is empty, and A is asked for the   *)
(* current task.                                                           *)
Reload ==
    /\ Quiet /\ lists = 0
    /\ sessionId' = NoTask /\ title' = [task |-> NoTask, name |-> 0] /\ talk' = NoTask
    /\ flown' = {}
    /\ ops' = Booting
    /\ panel' = FALSE /\ list' = [rows |-> {}, mark |-> NoTask]
    /\ crossed' = FALSE /\ muddled' = FALSE
    /\ UNCHANGED <<atA, lists, bounds>>

-------------------------------------------------------------------------------
(* Backend A handles a request.                                            *)
Handle(i) ==
    LET op == ops[i]
        kept == op.task # NoTask /\ record[op.task] = "kept"
    IN  /\ op.step = "sent"
        /\ CASE op.kind = "boot" ->
                  /\ Put(i, [op EXCEPT !.task = active, !.step = "answered"])
                  /\ UNCHANGED atA
             [] op.kind = "create" ->
                  \E t \in TaskIds :
                      /\ record[t] = "new"
                      /\ record' = [record EXCEPT ![t] = "kept"] /\ active' = t
                      /\ name' = [name EXCEPT ![t] = 1]
                      /\ Put(i, [op EXCEPT !.task = t, !.step = "answered"])
             [] op.kind = "activate" /\ kept ->
                  /\ active' = op.task
                  /\ Goto(i, "answered")
                  /\ UNCHANGED <<record, name>>
             [] op.kind = "delete" /\ kept ->
                  /\ record' = [record EXCEPT ![op.task] = "gone"]
                  /\ active' = IF active = op.task THEN NoTask ELSE active
                  /\ Goto(i, IF active = op.task THEN "orphaned" ELSE "answered")
                  /\ UNCHANGED name
             [] op.kind = "rename" /\ kept ->
                  /\ name' = [name EXCEPT ![op.task] = @ + 1]
                  /\ Goto(i, "answered")
                  /\ UNCHANGED <<record, active>>
             [] OTHER -> Goto(i, "refused") /\ UNCHANGED atA
        /\ UNCHANGED <<shown, lines, muddled, bounds>>

(* A request is lost before A has it, or its answer is.                    *)
Lose(i) ==
    /\ ops[i].step \in {"sent", "answered", "orphaned"}
    /\ Fails
    /\ Goto(i, "refused")
    /\ UNCHANGED <<atA, shown, lines, muddled>>

(* What A does of its own and the browser is not told.                     *)
Unseen ==
    /\ ops' = [i \in Slots |-> IF ops[i] = Idle THEN Idle ELSE [ops[i] EXCEPT !.clean = FALSE]]
    /\ muddled' = TRUE /\ crossed' = TRUE
    /\ UNCHANGED <<shown, panel, list, lists, bounds>>

(* A message in the chat begins a task without a name when A has none, and *)
(* a plan one with a name.                                                 *)
Untold(t) ==
    /\ active = NoTask /\ record[t] = "new"
    /\ record' = [record EXCEPT ![t] = "kept"] /\ active' = t
    /\ \E n \in {0, 1} : name' = [name EXCEPT ![t] = n]
    /\ Unseen

(* The first plan of a task that the chat began names it.                  *)
Named(t) ==
    /\ active = t /\ record[t] = "kept" /\ name[t] = 0
    /\ name' = [name EXCEPT ![t] = 1]
    /\ Unseen
    /\ UNCHANGED <<record, active>>

-------------------------------------------------------------------------------
(* The answers.                                                            *)

(* A switch that nothing disturbed sets everything right.                  *)
Settle(op) == muddled' = ~op.clean

(* Mistake: the flown way of the last task stays.                          *)
CreatedKeepsTrack(i) ==
    LET op == ops[i]
    IN  /\ op.kind = "create" /\ op.step = "answered"
        /\ sessionId' = op.task /\ title' = [task |-> op.task, name |-> 1] /\ talk' = op.task
        /\ Put(i, Idle) /\ Settle(op)
        /\ ListAsk(panel, op.task)
        /\ UNCHANGED <<atA, flown, panel, bounds>>

(* resetUiForNewTask: everything of the last task is cleared, but for the  *)
(* buffer of the 3D view and the freeze.  Whoever created it refreshes.    *)
Created(i) ==
    LET op == ops[i]
    IN  /\ op.kind = "create" /\ op.step = "answered"
        /\ sessionId' = op.task /\ title' = [task |-> op.task, name |-> 1] /\ talk' = op.task
        /\ flown' = {}
        /\ Put(i, Idle) /\ Settle(op)
        /\ ListAsk(panel, op.task)
        /\ UNCHANGED <<atA, panel, bounds>>

(* deleteTaskRecord: a new task takes the place of the current one.        *)
Deleted(i) ==
    /\ ops[i].kind = "delete"
    /\ \/ /\ ops[i].step = "answered"
          /\ Put(i, Idle)
          /\ ListAsk(panel, sessionId)
       \/ /\ ops[i].step = "orphaned"
          /\ Put(i, Op("create", NoTask, ops[i].clean))
          /\ UNCHANGED <<list, lists, crossed>>
    /\ UNCHANGED <<atA, shown, panel, muddled, bounds>>

(* _saveRename: the title follows, if the task is the current one.         *)
Renamed(i) ==
    LET t == ops[i].task
    IN  /\ ops[i].kind = "rename" /\ ops[i].step = "answered"
        /\ title' = IF sessionId = t THEN [task |-> t, name |-> name[t]] ELSE title
        /\ Put(i, Idle)
        /\ ListAsk(panel, sessionId)
        /\ UNCHANGED <<atA, sessionId, talk, flown, panel, muddled, bounds>>

(* The answer to an activation: the load begins.                           *)
Activated(i) ==
    /\ ops[i].kind = "activate" /\ ops[i].step = "answered"
    /\ Goto(i, "detail")
    /\ UNCHANGED <<atA, shown, lines, muddled, bounds>>

(* restoreSessionState: the id is set before the load, and the panel is    *)
(* not refreshed.                                                          *)
Booted(i) ==
    /\ ops[i].kind = "boot" /\ ops[i].step = "answered"
    /\ IF ops[i].task = NoTask
       THEN Put(i, Idle) /\ UNCHANGED <<sessionId, crossed>>
       ELSE /\ sessionId' = ops[i].task
            /\ crossed' = (crossed \/ panel)
            /\ Goto(i, "detail")
    /\ UNCHANGED <<atA, title, talk, flown, panel, list, lists, muddled, bounds>>

(* An operation that fails tells the user, and nothing else.               *)
Refused(i) ==
    /\ ops[i].step = "refused"
    /\ Put(i, Idle)
    /\ muddled' = TRUE /\ crossed' = TRUE
    /\ UNCHANGED <<atA, shown, panel, list, lists, bounds>>

-------------------------------------------------------------------------------
(* loadTaskContext: the detail, the conversation and the track of a task.  *)
(* A request that fails is passed over, and a task without a name leaves   *)
(* the title as it is.                                                     *)
LoadDetail(i) ==
    LET t == ops[i].task
    IN  /\ ops[i].step = "detail"
        /\ \/ /\ record[t] = "kept"
              /\ title' = IF name[t] = 0 THEN title ELSE [task |-> t, name |-> name[t]]
              /\ Goto(i, "talk")
              /\ UNCHANGED <<muddled, bounds>>
           \/ /\ (record[t] = "kept" /\ Fails) \/ (record[t] # "kept" /\ UNCHANGED bounds)
              /\ Put(i, [ops[i] EXCEPT !.step = "talk", !.clean = FALSE])
              /\ muddled' = TRUE
              /\ UNCHANGED title
        /\ UNCHANGED <<atA, sessionId, talk, flown, lines>>

LoadTalk(i) ==
    /\ ops[i].step = "talk"
    /\ \/ /\ talk' = ops[i].task
          /\ Goto(i, "track")
          /\ UNCHANGED <<muddled, bounds>>
       \/ /\ Fails
          /\ Put(i, [ops[i] EXCEPT !.step = "track", !.clean = FALSE])
          /\ muddled' = TRUE
          /\ UNCHANGED talk
    /\ UNCHANGED <<atA, sessionId, title, flown, lines>>

(* Mistake: no list is refreshed after the restore.                        *)
RestoredUntold(i, clean) ==
    /\ Put(i, Idle)
    /\ muddled' = ~clean
    /\ sessionId' = ops[i].task
    /\ UNCHANGED <<list, lists, crossed>>

(* The end of a load: 'task-restore' sets the id and has the lists         *)
(* refreshed.                                                              *)
Restored(i, clean) ==
    /\ Put(i, Idle)
    /\ muddled' = ~clean
    /\ IF ops[i].kind = "activate"
       THEN sessionId' = ops[i].task /\ ListAsk(panel, ops[i].task)
       ELSE UNCHANGED <<sessionId, list, lists, crossed>>

LoadTrack(i) ==
    /\ ops[i].step = "track"
    /\ \/ /\ flown' = {ops[i].task}
          /\ Restored(i, ops[i].clean)
          /\ UNCHANGED bounds
       \/ /\ Fails
          /\ Restored(i, FALSE)
          /\ UNCHANGED flown
    /\ UNCHANGED <<atA, title, talk, panel>>

-------------------------------------------------------------------------------
(* The list.                                                               *)

(* An answer of the list.  The older of two may come last.                 *)
ListAnswer ==
    /\ lists > 0
    /\ lists' = lists - 1
    /\ \E rows \in IF crossed THEN {Rows, list.rows} ELSE {Rows} :
        list' = [rows |-> rows, mark |-> IF panel THEN sessionId ELSE list.mark]
    /\ UNCHANGED <<atA, shown, ops, panel, crossed, muddled, bounds>>

ListFails ==
    /\ lists > 0
    /\ lists' = lists - 1
    /\ list' = IF panel THEN [list EXCEPT !.mark = sessionId] ELSE list
    /\ crossed' = TRUE
    /\ Fails
    /\ UNCHANGED <<atA, shown, ops, panel, muddled>>

-------------------------------------------------------------------------------
(* A pose adds a point, of the task that A has.                            *)
Pose ==
    /\ flown' = flown \cup {active}
    /\ UNCHANGED <<atA, sessionId, title, talk, ops, lines, muddled, bounds>>

-------------------------------------------------------------------------------
User ==
    \/ Create
    \/ \E t \in TaskIds : Activate(t) \/ Delete(t) \/ Rename(t)
    \/ OpenPanel
    \/ ClosePanel
    \/ Reload

Answer ==
    \/ \E i \in Slots :
        \/ Created(i) \/ Deleted(i) \/ Renamed(i) \/ Activated(i) \/ Booted(i) \/ Refused(i)
        \/ LoadDetail(i) \/ LoadTalk(i) \/ LoadTrack(i)
    \/ ListAnswer
    \/ ListFails

BackendA ==
    \/ \E i \in Slots : Handle(i) \/ Lose(i)
    \/ \E t \in TaskIds : Untold(t) \/ Named(t)
    \/ Pose

Next == User \/ Answer \/ BackendA

Spec == Init /\ [][Next]_vars

-------------------------------------------------------------------------------
TypeOK ==
    /\ record \in [TaskIds -> {"new", "kept", "gone"}]
    /\ name \in [TaskIds -> Nat]
    /\ active \in TaskIds \cup {NoTask}
    /\ sessionId \in TaskIds \cup {NoTask}
    /\ title \in [task : TaskIds \cup {NoTask}, name : Nat]
    /\ talk \in TaskIds \cup {NoTask}
    /\ flown \subseteq TaskIds \cup {NoTask}
    /\ list \in [rows : SUBSET [task : TaskIds, name : Nat], mark : TaskIds \cup {NoTask}]
    /\ lists \in Nat
    /\ panel \in BOOLEAN /\ crossed \in BOOLEAN /\ muddled \in BOOLEAN
    /\ fails \in Nat /\ acts \in Nat

(* When nothing is under way, and no switch overlapped another or failed   *)
(* since, the browser is in the task that A writes to, and what it shows   *)
(* belongs to that task: conversation and flown way, and the title if the  *)
(* task has a name.                                                        *)
TaskShown ==
    Quiet /\ ~muddled =>
        /\ sessionId = active
        /\ sessionId # NoTask =>
               /\ name[sessionId] # 0 => title = [task |-> sessionId, name |-> name[sessionId]]
               /\ talk = sessionId
               /\ flown \subseteq {sessionId}

(* The open panel lists the tasks of A under their names, and marks the    *)
(* current one, once its requests are answered and unless two of them      *)
(* overlapped or it was not told of a change.                              *)
ListFresh ==
    panel /\ Quiet /\ lists = 0 /\ ~crossed => list = [rows |-> Rows, mark |-> sessionId]

(* The same without the allowance for overlapping switches.  It does not   *)
(* hold: two tasks are activated one after the other, and the browser ends *)
(* in the one whose load ends last, A in the one it was asked for last.    *)
AlwaysAgreed == Quiet => sessionId = active

(* The title is never that of another task.  It does not hold: a task that *)
(* the chat began has no name, and when it is activated the title of the   *)
(* task before stays.                                                      *)
TitleIsOwn == Quiet /\ ~muddled => title.task \in {NoTask, sessionId}
===============================================================================
