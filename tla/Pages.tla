-------------------------------- MODULE Pages ---------------------------------
(***************************************************************************)
(* The pages of the frontend: the hash router with its lazily loaded pages *)
(* (router.js), the views that the status and the planning page share      *)
(* (ViewModeSelector, ViewPanel, AlphaPage, BetaPage), and the stream of   *)
(* action sequences on the status page (AlphaPage).                        *)
(*                                                                         *)
(* _onChange is one step up to its await and one step from the load on;    *)
(* the rerun of its finally follows at once, before any other event.  A    *)
(* hash that is not registered is one value, Nowhere.                      *)
(*                                                                         *)
(* Abstracted: a page is its name and whether it is mounted; a view is     *)
(* what it shows; an action sequence is a plan's name.                     *)
(***************************************************************************)
EXTENDS Integers, Sequences, SequencesExt

CONSTANTS
    Routes,     \* the registered hashes
    Home,       \* '#/overview', where the router falls back to
    ViewPages,  \* the pages with views
    Alpha,      \* the page with the stream
    Nowhere,    \* a hash that is not registered
    Plans,      \* the action sequences there are
    MaxStream,  \* the 60 entries of the stream
    MaxFails    \* bound: how many loads of a page fail

ASSUME RoutesAssumption == Home \in Routes /\ ViewPages \subseteq Routes /\ Alpha \in ViewPages
ASSUME NowhereAssumption == Nowhere \notin Routes
ASSUME MaxStreamAssumption == MaxStream \in Nat \ {0}
ASSUME MaxFailsAssumption == MaxFails \in Nat

VARIABLES
    hash,         \* window.location.hash
    event,        \* whether a hashchange event is still to be handled
    again,        \* whether the finally is about to run _onChange again
    loading,      \* the page whose import is awaited
    currentHash,  \* the router's currentHash
    mounted,      \* the pages that are mounted
    pageCache,    \* the pages that have been loaded
    fails,        \* how many loads have failed
    dropped,      \* history: the current page was unmounted and none mounted
    viewMode,     \* the store's ui.viewMode
    viewSources,  \* the store's ui.viewSources
    viewPanels,   \* what the views of the mounted page show
    diverged,     \* history: a change of sources the views were not told of
    plan,         \* the store's trajectory.actionSequence
    stream,       \* the entries of the stream of the mounted status page
    outdated      \* history: the sequence changed without an entry

routeVars == <<hash, event, again, loading, currentHash, mounted, pageCache, fails, dropped>>
viewVars == <<viewMode, viewSources, viewPanels, diverged>>
streamVars == <<plan, stream, outdated>>
vars == <<routeVars, viewVars, streamVars>>

None == "none"
Sources == {"chart", "3d"}
Pane == Sources \cup {"velocity"}

Init ==
    /\ hash \in Routes \cup {Nowhere}
    /\ event = TRUE /\ again = FALSE
    /\ loading = None
    /\ currentHash = None
    /\ mounted = {} /\ pageCache = {}
    /\ fails = 0 /\ dropped = FALSE
    /\ viewMode = 1 /\ viewSources = <<"chart">> /\ viewPanels = <<>> /\ diverged = FALSE
    /\ plan = None /\ stream = <<>> /\ outdated = FALSE

-------------------------------------------------------------------------------
(* What a page sets up when it is mounted: the views of the store, and on  *)
(* the status page the current sequence as the first entry.                *)
SetupViews == [i \in 1 .. viewMode |-> viewSources[i]]

InitStream(p) == IF p = Alpha /\ plan # None THEN <<plan>> ELSE <<>>

Mount(p) ==
    /\ currentHash' = p
    /\ mounted' = mounted \cup {p}
    /\ dropped' = FALSE
    /\ viewPanels' = IF p \in ViewPages THEN SetupViews ELSE viewPanels
    /\ diverged' = IF p \in ViewPages THEN FALSE ELSE diverged
    /\ stream' = InitStream(p)
    /\ outdated' = FALSE
    /\ UNCHANGED <<viewMode, viewSources, plan>>

(* Mistake: the page before stays mounted while the next one is loaded.    *)
UnmountForgotten ==
    /\ dropped' = TRUE
    /\ UNCHANGED <<currentHash, mounted, viewVars, streamVars>>

Unmount ==
    /\ mounted' = mounted \ {currentHash}
    /\ viewPanels' = IF currentHash \in ViewPages THEN <<>> ELSE viewPanels
    /\ stream' = <<>> /\ outdated' = FALSE
    /\ dropped' = TRUE
    /\ UNCHANGED <<currentHash, viewMode, viewSources, diverged, plan>>

(* A link, a tab, the address bar, or router.navigate.                     *)
Navigate(h) ==
    /\ h # hash /\ ~again
    /\ hash' = h /\ event' = TRUE
    /\ UNCHANGED <<again, loading, currentHash, mounted, pageCache, fails, dropped,
                   viewVars, streamVars>>

(* A hashchange while a page is being loaded is dropped: the finally of    *)
(* that load compares the hash once more.                                  *)
ChangeDropped ==
    /\ event /\ loading # None
    /\ event' = FALSE
    /\ UNCHANGED <<hash, again, loading, currentHash, mounted, pageCache, fails, dropped,
                   viewVars, streamVars>>

Called == loading = None /\ IF again THEN event' = event ELSE event /\ event' = FALSE

SamePage ==
    /\ Called
    /\ hash = currentHash
    /\ again' = FALSE
    /\ UNCHANGED <<hash, loading, currentHash, mounted, pageCache, fails, dropped,
                   viewVars, streamVars>>

(* An unknown hash: the current page is unmounted and the hash is set to   *)
(* Home, which is "the same page" if that was the current one.             *)
UnknownRoute ==
    /\ loading = None
    /\ again \/ event
    /\ hash \notin Routes
    /\ Unmount
    /\ hash' = Home /\ event' = TRUE
    /\ again' = (Home # currentHash)
    /\ UNCHANGED <<loading, pageCache, fails>>

(* A page that has been loaded before.                                     *)
CachedPage ==
    /\ Called
    /\ hash \in pageCache \ {currentHash}
    /\ again' = FALSE
    /\ mounted' = (mounted \ {currentHash}) \cup {hash}
    /\ currentHash' = hash
    /\ dropped' = FALSE
    /\ viewPanels' = IF hash \in ViewPages THEN SetupViews ELSE <<>>
    /\ diverged' = IF hash \in ViewPages THEN FALSE ELSE diverged
    /\ stream' = InitStream(hash)
    /\ outdated' = FALSE
    /\ UNCHANGED <<hash, loading, pageCache, fails, viewMode, viewSources, plan>>

StartLoad ==
    /\ Called
    /\ hash \in Routes \ (pageCache \cup {currentHash})
    /\ again' = FALSE
    /\ loading' = hash
    /\ Unmount
    /\ UNCHANGED <<hash, pageCache, fails>>

(* Mistake: the hash is not compared again when the load is over.          *)
LoadedNoRerun ==
    /\ loading # None
    /\ pageCache' = pageCache \cup {loading}
    /\ Mount(loading)
    /\ loading' = None
    /\ again' = FALSE
    /\ UNCHANGED <<hash, event, fails>>

(* The page has been loaded: it is mounted, even if the hash has changed   *)
(* in between, and then the hash is looked at again.                       *)
Loaded ==
    /\ loading # None
    /\ pageCache' = pageCache \cup {loading}
    /\ Mount(loading)
    /\ loading' = None
    /\ again' = (hash # loading)
    /\ UNCHANGED <<hash, event, fails>>

(* The load fails: the page before stays unmounted and current, and as     *)
(* long as the hash names another page, that page is loaded at once again. *)
LoadFails ==
    /\ loading # None
    /\ fails < MaxFails
    /\ fails' = fails + 1
    /\ loading' = None
    /\ again' = (hash # currentHash)
    /\ UNCHANGED <<hash, event, currentHash, mounted, pageCache, dropped, viewVars, streamVars>>

Router == ChangeDropped \/ SamePage \/ UnknownRoute \/ CachedPage \/ StartLoad

-------------------------------------------------------------------------------
(* The views.  The selector stands in the page's document, which stays     *)
(* until the next page is mounted.                                         *)
OnView == currentHash \in ViewPages /\ ~again
Live == mounted \cap ViewPages # {}

(* The views are unmounted and set up anew; one view gets another content. *)
RefreshViews(sources) == IF Live THEN sources ELSE viewPanels
ShowIn(slot, pane) == [viewPanels EXCEPT ![slot] = pane]

(* Mistake: the views are not set up again.                                *)
SetModeSilently(m) ==
    /\ OnView
    /\ viewMode' = m
    /\ viewSources' = IF m > Len(viewSources) THEN Append(viewSources, "chart")
                      ELSE SubSeq(viewSources, 1, m)
    /\ UNCHANGED <<viewPanels, diverged, routeVars, streamVars>>

(* _setMode: sources are added or cut off, and every view is set up anew.  *)
SetMode(m) ==
    /\ OnView
    /\ viewMode' = m
    /\ viewSources' = IF m > Len(viewSources) THEN Append(viewSources, "chart")
                      ELSE SubSeq(viewSources, 1, m)
    /\ viewPanels' = RefreshViews(viewSources')
    /\ diverged' = FALSE
    /\ UNCHANGED <<routeVars, streamVars>>

(* The first slot that shows s already, or 0.                              *)
SlotOf(s) ==
    IF \E i \in 1 .. Len(viewSources) : viewSources[i] = s
    THEN CHOOSE i \in 1 .. Len(viewSources) :
             viewSources[i] = s /\ \A j \in 1 .. i - 1 : viewSources[j] # s
    ELSE 0

(* _setSource: another slot with that source takes over the one this slot  *)
(* had; only the view of this slot is told.                                *)
SetSource(slot, s) ==
    LET conflict == SlotOf(s) \notin {0, slot}
    IN  /\ OnView
        /\ slot \in 1 .. viewMode
        /\ viewSources' = IF conflict
                          THEN [viewSources EXCEPT ![SlotOf(s)] = viewSources[slot], ![slot] = s]
                          ELSE [viewSources EXCEPT ![slot] = s]
        /\ viewPanels' = IF Live THEN ShowIn(slot, s) ELSE viewPanels
        /\ diverged' = (diverged \/ conflict)
        /\ UNCHANGED <<viewMode, routeVars, streamVars>>

(* A view dropped on another: the sources change places in the store, and  *)
(* nobody listens to the event.                                            *)
SwapViewSources ==
    /\ OnView /\ Live /\ viewMode = 2
    /\ viewSources' = <<viewSources[2], viewSources[1]>>
    /\ diverged' = TRUE
    /\ UNCHANGED <<viewMode, viewPanels, routeVars, streamVars>>

(* A shortcut of the floating ball puts a chart into the first view and    *)
(* leaves the store as it is.                                              *)
ShortcutChart ==
    /\ ~again
    /\ viewPanels # <<>>
    /\ viewPanels' = ShowIn(1, "velocity")
    /\ diverged' = TRUE
    /\ UNCHANGED <<viewMode, viewSources, routeVars, streamVars>>

Views ==
    \/ \E m \in 1 .. 2 : SetMode(m)
    \/ \E slot \in 1 .. 2, s \in Sources : SetSource(slot, s)
    \/ SwapViewSources
    \/ ShortcutChart

-------------------------------------------------------------------------------
(* Mistake: every broadcast of the same sequence is one more entry.        *)
EntryAlways(s, p) == Append(s, p)

(* _appendAlphaEntry: a sequence like the last entry is left out, and the  *)
(* oldest entries go.                                                      *)
Entry(s, p) ==
    IF s # <<>> /\ Last(s) = p THEN s
    ELSE IF Len(s) = MaxStream THEN Append(Tail(s), p) ELSE Append(s, p)

(* alpha_output: the sequence reaches the store and then the stream.  The  *)
(* agent repeats it while the plan is flown.                               *)
AlphaOutput(p) ==
    /\ ~again
    /\ plan' = p
    /\ IF Alpha \in mounted THEN stream' = Entry(stream, p) /\ outdated' = FALSE
       ELSE UNCHANGED <<stream, outdated>>
    /\ UNCHANGED <<routeVars, viewVars>>

(* alpha_output of a plan that has no action left.                         *)
AlphaDone ==
    /\ ~again /\ plan # None
    /\ plan' = None
    /\ UNCHANGED <<stream, outdated, routeVars, viewVars>>

(* A task is restored, which sets the sequence: it becomes an entry only   *)
(* if there is none.                                                       *)
RestorePlan(p) ==
    /\ ~again
    /\ plan' = p
    /\ stream' = IF Alpha \in mounted /\ stream = <<>> THEN <<p>> ELSE stream
    /\ outdated' = (stream # <<>>)
    /\ UNCHANGED <<routeVars, viewVars>>

ClearStream ==
    /\ Alpha \in mounted /\ stream # <<>> /\ ~again
    /\ stream' = <<>>
    /\ UNCHANGED <<plan, outdated, routeVars, viewVars>>

Stream ==
    \/ \E p \in Plans : AlphaOutput(p) \/ RestorePlan(p)
    \/ AlphaDone
    \/ ClearStream

-------------------------------------------------------------------------------
Next ==
    \/ \E h \in Routes \cup {Nowhere} : Navigate(h)
    \/ Router
    \/ Loaded
    \/ LoadFails
    \/ Views
    \/ Stream

Spec == Init /\ [][Next]_vars

(* Events are handled and imports end; users and agents owe nothing.       *)
FairSpec == Spec /\ WF_vars(Router) /\ WF_vars(Loaded \/ LoadFails)

-------------------------------------------------------------------------------
TypeOK ==
    /\ hash \in Routes \cup {Nowhere}
    /\ event \in BOOLEAN /\ again \in BOOLEAN
    /\ loading \in Routes \cup {None}
    /\ currentHash \in Routes \cup {None}
    /\ mounted \subseteq Routes /\ pageCache \subseteq Routes
    /\ fails \in 0 .. MaxFails /\ dropped \in BOOLEAN
    /\ viewMode \in 1 .. 2
    /\ viewSources \in Seq(Sources) /\ Len(viewSources) = viewMode
    /\ viewPanels \in Seq(Pane)
    /\ diverged \in BOOLEAN /\ outdated \in BOOLEAN
    /\ plan \in Plans \cup {None}
    /\ stream \in Seq(Plans)

(* However quickly the hash changes while pages are loaded, at most one    *)
(* page is mounted, and it is the one the router takes for current.        *)
OnePage == mounted \subseteq {currentHash}

(* router.js:44-46: quick changes converge.  A hash that stays is the page *)
(* that is mounted in the end, unless the router has dropped that page     *)
(* over an unknown hash or a load that failed, and takes it for current.   *)
Arrives ==
    \A h \in Routes :
        <>[](hash = h) => <>[](mounted = {h} \/ (mounted = {} /\ dropped /\ currentHash = h))

(* The views show the sources of the store in its order, unless one of the *)
(* three changes has been made that the views, or the store, are not told. *)
ViewsFollow == Live /\ ~diverged => viewPanels = viewSources

(* AlphaPage.js:294: the repeated broadcasts of a plan are one entry; and  *)
(* the last entry is the sequence that stands in the store, unless a task  *)
(* was restored over it.                                                   *)
StreamTells ==
    /\ \A i \in 1 .. Len(stream) - 1 : stream[i] # stream[i + 1]
    /\ Alpha \in mounted /\ stream # <<>> /\ plan # None /\ ~outdated => Last(stream) = plan
===============================================================================
