----------------------------- MODULE PagesProofs ------------------------------
(***************************************************************************)
(* Theorems about what the browser shows: about Pages, for any pages, any  *)
(* contents of the stream and any number of failed loads, and about        *)
(* Dashboard, for any fields of a pose, any length of the ring and any     *)
(* number of subscriptions.                                                *)
(*                                                                         *)
(* OnePage rests on this: while a page is being loaded none is mounted,    *)
(* for the one before was unmounted when the load began, and every change  *)
(* of the hash in between is dropped.  ViewsFollow rests on the store      *)
(* having as many sources as there are views.  What the dashboard shows    *)
(* rests on every path that a batch changes being told once at least, and  *)
(* on every panel of the grid being subscribed.                            *)
(***************************************************************************)
EXTENDS Pages, Dashboard, SequenceTheorems, FiniteSetTheorems, WellFoundedInduction, TLAPS

USE RoutesAssumption, NowhereAssumption, MaxStreamAssumption, MaxFailsAssumption

RouterInv ==
    /\ OnePage
    /\ loading # None => mounted = {}

SourcesMatchMode ==
    /\ viewMode \in 1 .. 2
    /\ viewSources \in Seq(Sources) /\ Len(viewSources) = viewMode

-------------------------------------------------------------------------------
(* Every step keeps the invariant of the router.                           *)
LEMMA NextRouter == RouterInv /\ [Next]_vars => RouterInv'
<1> SUFFICES ASSUME RouterInv, [Next]_vars PROVE RouterInv'
  OBVIOUS
<1> USE DEF RouterInv, OnePage
<1>1. CASE \E h \in Routes \cup {Nowhere} : Navigate(h)
  BY <1>1 DEF Navigate
<1>2. CASE ChangeDropped \/ SamePage
  BY <1>2 DEF ChangeDropped, SamePage, Called
<1>3. CASE UnknownRoute
  BY <1>3 DEF UnknownRoute, Unmount
<1>4. CASE CachedPage
  BY <1>4 DEF CachedPage, Called
<1>5. CASE StartLoad
  BY <1>5 DEF StartLoad, Unmount
<1>6. CASE Loaded
  BY <1>6 DEF Loaded, Mount
<1>7. CASE LoadFails
  BY <1>7 DEF LoadFails
<1>8. CASE Views
  BY <1>8 DEF Views, SetMode, SetSource, SwapViewSources, ShortcutChart, routeVars
<1>9. CASE Stream
  BY <1>9 DEF Stream, AlphaOutput, AlphaDone, RestorePlan, ClearStream, routeVars
<1>10. CASE UNCHANGED vars
  BY <1>10 DEF vars, routeVars
<1> QED
  BY <1>1, <1>2, <1>3, <1>4, <1>5, <1>6, <1>7, <1>8, <1>9, <1>10 DEF Next, Router

(* However quickly the hash changes while pages are loaded, at most one    *)
(* page is mounted, and it is the router's current one (router.js:37-104). *)
THEOREM OnePageMounted == Spec => []OnePage
<1>1. Init => RouterInv
  BY DEF Init, RouterInv, OnePage
<1>2. RouterInv /\ [Next]_vars => RouterInv'
  BY NextRouter
<1>3. RouterInv => OnePage
  BY DEF RouterInv
<1> QED
  BY <1>1, <1>2, <1>3, PTL DEF Spec

-------------------------------------------------------------------------------
(* The views that a page sets up are the sources of the store.             *)
LEMMA ViewsSetUp == SourcesMatchMode => SetupViews = viewSources
<1> SUFFICES ASSUME SourcesMatchMode PROVE SetupViews = viewSources
  OBVIOUS
<1>1. viewSources = [i \in 1 .. viewMode |-> viewSources[i]]
  BY DEF SourcesMatchMode
<1> QED
  BY <1>1 DEF SetupViews

(* An element of a sequence is exchanged; one that is not there is not.    *)
LEMMA Exchanged ==
    ASSUME NEW S, NEW t \in Seq(S), NEW k, NEW v \in S
    PROVE  [t EXCEPT ![k] = v] \in Seq(S) /\ Len([t EXCEPT ![k] = v]) = Len(t)
<1>1. CASE k \in 1 .. Len(t)
  BY <1>1, ExceptSeq
<1>2. CASE k \notin 1 .. Len(t)
  <2>1. DOMAIN t = 1 .. Len(t) /\ t = [i \in 1 .. Len(t) |-> t[i]]
    OBVIOUS
  <2>2. [t EXCEPT ![k] = v] = [i \in 1 .. Len(t) |-> t[i]]
    BY <1>2, <2>1
  <2> QED
    BY <2>1, <2>2
<1> QED
  BY <1>1, <1>2

(* Every change of the mode or of a source keeps their numbers equal.      *)
LEMMA NextSources == SourcesMatchMode /\ [Next]_vars => SourcesMatchMode'
<1> SUFFICES ASSUME SourcesMatchMode, [Next]_vars PROVE SourcesMatchMode'
  OBVIOUS
<1> USE DEF SourcesMatchMode
<1>1. CASE \E m \in 1 .. 2 : SetMode(m)
  <2> PICK m \in 1 .. 2 : SetMode(m)
    BY <1>1
  <2>1. CASE m > Len(viewSources)
    <3>1. viewMode = 1 /\ m = 2 /\ viewSources' = Append(viewSources, "chart") /\ viewMode' = m
      BY <2>1 DEF SetMode
    <3>2. "chart" \in Sources
      BY DEF Sources
    <3>3. /\ Append(viewSources, "chart") \in Seq(Sources)
          /\ Len(Append(viewSources, "chart")) = Len(viewSources) + 1
      BY <3>2, AppendProperties
    <3> QED
      BY <3>1, <3>3
  <2>2. CASE ~(m > Len(viewSources))
    <3>1. viewSources' = SubSeq(viewSources, 1, m) /\ viewMode' = m
      BY <2>2 DEF SetMode
    <3>2. m \in 1 .. Len(viewSources)
      BY <2>2
    <3> QED
      BY <3>1, <3>2, SubSeqProperties
  <2> QED
    BY <2>1, <2>2
<1>2. CASE \E slot \in 1 .. 2, s \in Sources : SetSource(slot, s)
  <2> PICK slot \in 1 .. 2, s \in Sources : SetSource(slot, s)
    BY <1>2
  <2>1. viewMode' = viewMode /\ slot \in 1 .. Len(viewSources)
    BY DEF SetSource
  <2>2. viewSources[slot] \in Sources
    BY <2>1
  <2>3. CASE SlotOf(s) \notin {0, slot}
    <3>1. viewSources' = [viewSources EXCEPT ![SlotOf(s)] = viewSources[slot], ![slot] = s]
      BY <2>3 DEF SetSource
    <3> DEFINE t == [viewSources EXCEPT ![SlotOf(s)] = viewSources[slot]]
    <3>2. t \in Seq(Sources) /\ Len(t) = Len(viewSources)
      BY <2>2, Exchanged
    <3>3. viewSources' = [t EXCEPT ![slot] = s]
      BY <3>1
    <3> HIDE DEF t
    <3>4. [t EXCEPT ![slot] = s] \in Seq(Sources) /\ Len([t EXCEPT ![slot] = s]) = Len(t)
      BY <3>2, Exchanged
    <3> QED
      BY <2>1, <3>2, <3>3, <3>4
  <2>4. CASE SlotOf(s) \in {0, slot}
    BY <2>1, <2>4 DEF SetSource
  <2> QED
    BY <2>3, <2>4
<1>3. CASE SwapViewSources
  <2>1. viewSources[1] \in Sources /\ viewSources[2] \in Sources
    BY <1>3 DEF SwapViewSources
  <2> QED
    BY <1>3, <2>1 DEF SwapViewSources
<1>4. CASE ShortcutChart \/ Stream
  BY <1>4 DEF ShortcutChart, Stream, AlphaOutput, AlphaDone, RestorePlan, ClearStream, viewVars
<1>5. CASE Router \/ Loaded \/ LoadFails \/ \E h \in Routes \cup {Nowhere} : Navigate(h)
  BY <1>5 DEF Router, ChangeDropped, SamePage, UnknownRoute, CachedPage, StartLoad, Loaded,
              LoadFails, Navigate, Mount, Unmount, viewVars
<1>6. CASE UNCHANGED vars
  BY <1>6 DEF vars, viewVars
<1> QED
  BY <1>1, <1>2, <1>3, <1>4, <1>5, <1>6 DEF Next, Views

(* Every step keeps the views and the store in step.                       *)
LEMMA NextViews ==
    SourcesMatchMode /\ SourcesMatchMode' /\ RouterInv /\ ViewsFollow /\ [Next]_vars => ViewsFollow'
<1> SUFFICES ASSUME SourcesMatchMode, SourcesMatchMode', RouterInv, ViewsFollow, [Next]_vars
             PROVE  ViewsFollow'
  OBVIOUS
<1> USE DEF ViewsFollow, Live
<1>s. SetupViews = viewSources
  BY ViewsSetUp
<1>1. CASE \E m \in 1 .. 2 : SetMode(m)
  BY <1>1 DEF SetMode, RefreshViews, routeVars
<1>2. CASE \E slot \in 1 .. 2, s \in Sources : SetSource(slot, s)
  <2> PICK slot \in 1 .. 2, s \in Sources : SetSource(slot, s)
    BY <1>2
  <2>1. CASE SlotOf(s) \notin {0, slot}
    BY <2>1 DEF SetSource
  <2>2. CASE SlotOf(s) \in {0, slot} /\ Live /\ ~diverged
    BY <2>2 DEF SetSource, ShowIn
  <2>3. CASE SlotOf(s) \in {0, slot} /\ ~(Live /\ ~diverged)
    BY <2>3 DEF SetSource, routeVars
  <2> QED
    BY <2>1, <2>2, <2>3
<1>3. CASE SwapViewSources \/ ShortcutChart
  BY <1>3 DEF SwapViewSources, ShortcutChart
<1>4. CASE Stream
  BY <1>4 DEF Stream, AlphaOutput, AlphaDone, RestorePlan, ClearStream, routeVars, viewVars
<1>5. CASE ChangeDropped \/ SamePage \/ LoadFails \/ \E h \in Routes \cup {Nowhere} : Navigate(h)
  BY <1>5 DEF ChangeDropped, SamePage, LoadFails, Navigate, viewVars
<1>6. CASE UnknownRoute \/ StartLoad
  <2>1. mounted' = {}
    BY <1>6 DEF UnknownRoute, StartLoad, Unmount, RouterInv, OnePage
  <2> QED
    BY <2>1
<1>7. CASE CachedPage
  <2>1. mounted' = {hash}
    BY <1>7 DEF CachedPage, RouterInv, OnePage
  <2> QED
    BY <1>7, <1>s, <2>1 DEF CachedPage
<1>8. CASE Loaded
  <2>1. mounted' = {loading}
    BY <1>8 DEF Loaded, Mount, RouterInv
  <2> QED
    BY <1>8, <1>s, <2>1 DEF Loaded, Mount
<1>9. CASE UNCHANGED vars
  BY <1>9 DEF vars, routeVars, viewVars
<1> QED
  BY <1>1, <1>2, <1>3, <1>4, <1>5, <1>6, <1>7, <1>8, <1>9 DEF Next, Views, Router

(* The mounted views show the sources of the store in its order, unless a  *)
(* change was made that one of the two is not told of                      *)
(* (ViewModeSelector.js, AlphaPage._setupViews).                           *)
THEOREM ViewsShowSources == Spec => []ViewsFollow
<1>1. Init => RouterInv /\ SourcesMatchMode /\ ViewsFollow
  BY DEF Init, RouterInv, OnePage, SourcesMatchMode, ViewsFollow, Live, Sources
<1>2. RouterInv /\ SourcesMatchMode /\ ViewsFollow /\ [Next]_vars =>
          (RouterInv /\ SourcesMatchMode /\ ViewsFollow)'
  BY NextRouter, NextSources, NextViews
<1> QED
  BY <1>1, <1>2, PTL DEF Spec

-------------------------------------------------------------------------------
(* The dashboard.  What its variables hold.                                *)
BoardTypes ==
    /\ state = [p \in Paths |-> state[p]]
    /\ Pose \in Nat /\ state[Key("timestamp")] = Pose
    /\ boardMounted \in BOOLEAN
    /\ panels \in Seq(Ids) /\ kind \in [Ids -> Ids]
    /\ handlers \in Seq(Ids \cup {Gone})
    /\ counts \in Nat /\ bars \in Nat /\ alerts \in Nat /\ missed \in Nat

(* Every panel of the grid is subscribed, and there are none while the     *)
(* dashboard is not mounted.                                               *)
Subscribed ==
    /\ \A p \in Ids : Has(p) => \E i \in DOMAIN handlers : handlers[i] = p
    /\ Len(panels) <= Len(handlers)
    /\ ~boardMounted => panels = <<>>

(* The series holds the poses up to the latest: none before the first.     *)
Series ==
    /\ buf \in Seq(Nat) /\ Len(buf) <= MaxPoints
    /\ Pose = 0 <=> buf = <<>>
    /\ buf # <<>> => Last(buf) = Pose
    /\ \A i \in 1 .. Len(buf) - 1 : buf[i + 1] - buf[i] \in {0, 1}

SeriesInv == ~retyped => kind[Line] = Line /\ (Has(Line) => Series)

BoardInv == BoardTypes /\ Subscribed /\ SeriesInv /\ BarsFresh /\ AlertsCounted
-------------------------------------------------------------------------------
(* The store.  A set of natural numbers has a least one and, when it is    *)
(* bounded, a greatest one, which stand in for an induction.               *)
Lower == {xy \in Nat \X Nat : xy[1] < xy[2]}

(* The least-number principle, from the well-foundedness of the order.     *)
LEMMA LeastIndex ==
    ASSUME NEW S \in SUBSET Nat, S # {}
    PROVE  \E x \in S : \A y \in S : x <= y
<1>1. IsWellFoundedOn(Lower, Nat)
  <2>1. OpToRel(<, Nat) = Lower
    BY Zenon DEF OpToRel, Lower
  <2> QED
    BY <2>1, NatLessThanWellFounded, Zenon
<1>2. \E x \in S : \A y \in S : ~ (<<y, x>> \in Lower)
  BY <1>1, WFMin, Zenon
<1>3. \A x, y \in Nat : ~ (<<y, x>> \in Lower) => x <= y
  BY DEF Lower
<1> QED
  BY <1>2, <1>3

(* The greatest of a set of indices is one of them.                        *)
LEMMA MaxIndex ==
    ASSUME NEW n \in Int, NEW S \in SUBSET (1 .. n), S # {}
    PROVE  Max(S) \in S /\ \A y \in S : y <= Max(S)
<1> DEFINE T == {n - y : y \in S}
<1>1. T \in SUBSET Nat /\ T # {}
  <2>1. \A y \in S : n - y \in Nat
    OBVIOUS
  <2>2. T \subseteq Nat
    BY <2>1
  <2> QED
    BY <2>2
<1>2. PICK d \in T : \A e \in T : d <= e
  BY <1>1, LeastIndex
<1>3. PICK x \in S : d = n - x
  OBVIOUS
<1>4. \A y \in S : x >= y
  <2> TAKE y \in S
  <2>1. n - y \in T
    OBVIOUS
  <2>2. n - x <= n - y
    BY <1>2, <1>3, <2>1
  <2>3. x \in Int /\ y \in Int
    OBVIOUS
  <2> QED
    BY <2>2, <2>3
<1>5. \E z \in S : \A y \in S : z >= y
  BY <1>4
<1>6. Max(S) \in S /\ \A y \in S : Max(S) >= y
  BY <1>5 DEF Max
<1>7. \A y \in S : y \in Int
  OBVIOUS
<1> QED
  BY <1>6, <1>7

(* When every set of a path has the same value, the path has it then.      *)
LEMMA SetsAgree ==
    ASSUME NEW old, NEW sets, NEW p, NEW v, Len(sets) \in Nat, p \in DOMAIN old,
           \E i \in 1 .. Len(sets) : sets[i].path = p,
           \A i \in 1 .. Len(sets) : sets[i].path = p => sets[i].value = v
    PROVE  After(old, sets)[p] = v
<1> DEFINE mine == {i \in 1 .. Len(sets) : sets[i].path = p}
<1>1. mine \in SUBSET (1 .. Len(sets)) /\ mine # {}
  OBVIOUS
<1>2. Len(sets) \in Int
  OBVIOUS
<1>3. Max(mine) \in mine
  BY <1>1, <1>2, MaxIndex
<1>4. After(old, sets)[p] = sets[Max(mine)].value
  BY <1>1, Zenon DEF After, Latest
<1> QED
  BY <1>3, <1>4

(* A path that no set is for keeps its value.                              *)
LEMMA PathIsKept ==
    ASSUME NEW old, NEW sets, NEW p \in DOMAIN old,
           \A i \in 1 .. Len(sets) : sets[i].path # p
    PROVE  After(old, sets)[p] = old[p]
<1>1. {i \in 1 .. Len(sets) : sets[i].path = p} = {}
  OBVIOUS
<1> QED
  BY <1>1 DEF After, Latest

(* A path that a batch changes is told: one of the notifications of the    *)
(* batch is for it (state.js: set, batch, _flushBatch).                    *)
LEMMA ChangeIsTold ==
    ASSUME NEW old, NEW S, NEW sets \in Seq(S), NEW p \in DOMAIN old,
           After(old, sets)[p] # old[p]
    PROVE  \E i \in Flushed(old, sets) : sets[i].path = p
<1> DEFINE mine == {i \in 1 .. Len(sets) : sets[i].path = p}
           new == {i \in mine : sets[i].value # old[p]}
<1>0. Len(sets) \in Nat
  OBVIOUS
<1>1. mine # {}
  <2>1. CASE \A i \in 1 .. Len(sets) : sets[i].path # p
    BY <2>1, PathIsKept
  <2>2. CASE \E i \in 1 .. Len(sets) : sets[i].path = p
    BY <2>2
  <2> QED
    BY <2>1, <2>2
<1>2. Max(mine) \in mine
  <2>1. mine \in SUBSET (1 .. Len(sets))
    OBVIOUS
  <2>2. Len(sets) \in Int
    BY <1>0
  <2> QED
    BY <1>1, <2>1, <2>2, MaxIndex
<1>3. After(old, sets)[p] = sets[Max(mine)].value
  BY <1>1, Zenon DEF After, Latest
<1>4. Max(mine) \in new
  BY <1>2, <1>3
<1>5. new \in SUBSET Nat
  BY <1>0
<1>6. PICK k \in new : \A j \in new : k <= j
  BY <1>4, <1>5, LeastIndex
<1>7. k \in Changes(old, sets)
  <2> DEFINE earlier == {j \in 1 .. k - 1 : sets[j].path = sets[k].path}
  <2>1. sets[k].path = p /\ k \in 1 .. Len(sets) /\ sets[k].value # old[p]
    OBVIOUS
  <2>2. ASSUME NEW j \in earlier PROVE sets[j].value = old[p]
    <3>1. j \in mine /\ j < k /\ j \in Int /\ k \in Int
      BY <1>0, <2>1
    <3>2. ~(k <= j)
      BY <3>1
    <3> QED
      BY <1>6, <3>1, <3>2
  <2>3. CASE earlier = {}
    BY <2>1, <2>3 DEF Changes, Before, Latest
  <2>4. CASE earlier # {}
    <3>1. earlier \in SUBSET (1 .. k - 1) /\ k - 1 \in Int
      BY <2>1
    <3>2. Max(earlier) \in earlier
      BY <2>4, <3>1, MaxIndex
    <3>3. Before(old, sets, k) = old[p]
      BY <2>2, <2>4, <3>2, Zenon DEF Before, Latest
    <3> QED
      BY <2>1, <3>3 DEF Changes
  <2> QED
    BY <2>3, <2>4
<1> DEFINE told == {i \in Changes(old, sets) : sets[i].path = p}
<1>8. k \in told /\ told \in SUBSET Nat
  BY <1>0, <1>7 DEF Changes
<1>9. PICK m \in told : \A j \in told : m <= j
  BY <1>8, LeastIndex
<1>10. m \in Flushed(old, sets)
  <2>1. ASSUME NEW j \in Changes(old, sets), j < m PROVE sets[j].path # sets[m].path
    <3>1. j \in Nat /\ m \in Nat
      BY <1>0, <1>8 DEF Changes
    <3>2. ~(m <= j)
      BY <2>1, <3>1
    <3> QED
      BY <1>9, <3>2
  <2> QED
    BY <2>1 DEF Flushed
<1> QED
  BY <1>10

-------------------------------------------------------------------------------
(* A subscription to "drone" hears of every path below it, and one to the  *)
(* status of the connection of that path.                                  *)
LEMMA PrefixOf ==
    /\ \A f : IsPrefix(<<"drone">>, Key(f))
    /\ IsPrefix(Ws, Ws)
<1>1. ASSUME NEW f PROVE IsPrefix(<<"drone">>, Key(f))
  <2> DEFINE s == <<"drone">>
             t == <<"drone", f>>
             E == {"drone", f}
  <2>1. Len(s) = 1 /\ Len(t) = 2 /\ s[1] = t[1] /\ s[1] \in E
    OBVIOUS
  <2>2. \A i \in 1 .. 1 : s[i] \in E /\ t[i] \in E
    BY <2>1
  <2> HIDE DEF s, t, E
  <2>3. SubSeq(s, 1, 1) \in Seq(E) /\ Len(SubSeq(s, 1, 1)) = 1 /\ SubSeq(s, 1, 1)[1] = s[1]
    BY <2>2, SubSeqProperties
  <2>4. SubSeq(t, 1, 1) \in Seq(E) /\ Len(SubSeq(t, 1, 1)) = 1 /\ SubSeq(t, 1, 1)[1] = t[1]
    BY <2>2, SubSeqProperties
  <2>5. SubSeq(s, 1, 1) = SubSeq(t, 1, 1)
    BY <2>1, <2>3, <2>4, SeqEqual
  <2>6. IsPrefix(s, t)
    BY <2>1, <2>5 DEF IsPrefix
  <2> QED
    BY <2>6 DEF s, t, Key
<1>2. IsPrefix(Ws, Ws)
  BY DEF IsPrefix, Ws
<1> QED
  BY <1>1, <1>2

(* The notifications of a subscription can be counted, and there is one if *)
(* the batch changes a path below its prefix.                              *)
LEMMA PrefixIsTold ==
    ASSUME NEW S, NEW sets \in Seq(S), NEW prefix
    PROVE  /\ Cardinality(Notified(prefix, state, sets)) \in Nat
           /\ \A p \in DOMAIN state :
                  IsPrefix(prefix, p) /\ After(state, sets)[p] # state[p] =>
                      /\ Notified(prefix, state, sets) # {}
                      /\ Cardinality(Notified(prefix, state, sets)) > 0
<1> DEFINE H == Notified(prefix, state, sets)
<1>1. IsFiniteSet(1 .. Len(sets))
  BY FS_Interval
<1>2. H \subseteq 1 .. Len(sets)
  BY DEF Notified, Flushed, Changes
<1>3. IsFiniteSet(H)
  BY <1>1, <1>2, FS_Subset
<1>4. Cardinality(H) \in Nat /\ (Cardinality(H) = 0 <=> H = {})
  BY <1>3, FS_CardinalityType, FS_EmptySet
<1>5. ASSUME NEW p \in DOMAIN state, IsPrefix(prefix, p), After(state, sets)[p] # state[p]
      PROVE  H # {}
  <2>1. PICK i \in Flushed(state, sets) : sets[i].path = p
    BY <1>5, ChangeIsTold
  <2> QED
    BY <1>5, <2>1 DEF Notified
<1> QED
  BY <1>4, <1>5

(* A path of the store is one of a pose or the status of the connection.   *)
LEMMA PathKinds == \A p \in Paths : p = Ws \/ \E f : p = Key(f)
BY DEF Paths

(* A batch that changes something has a redraw of the status bar requested *)
(* and, if it changes a pose, tells the panels.                            *)
LEMMA BatchIsTold ==
    ASSUME BoardTypes, NEW S, NEW sets \in Seq(S), Batch(sets)
    PROVE  /\ state' = After(state, sets) /\ state' = [p \in Paths |-> state'[p]]
           /\ state' = state \/ frame'
           /\ \A f : Key(f) \in Paths /\ state'[Key(f)] # state[Key(f)] =>
                  Cardinality(Notified(<<"drone">>, state, sets)) > 0
<1>1. state' = After(state, sets)
  BY DEF Batch
<1>2. state = [p \in Paths |-> state[p]] /\ DOMAIN state = Paths
  BY DEF BoardTypes
<1>3. state' = [p \in Paths |-> state'[p]]
  BY <1>1, <1>2 DEF After
<1>4. ASSUME NEW f, Key(f) \in Paths, state'[Key(f)] # state[Key(f)]
      PROVE  /\ Notified(<<"drone">>, state, sets) # {}
             /\ Cardinality(Notified(<<"drone">>, state, sets)) > 0
  BY <1>1, <1>2, <1>4, PrefixOf, PrefixIsTold
<1>5. ASSUME state' # state PROVE frame'
  <2>1. PICK p \in Paths : state'[p] # state[p]
    <3>1. CASE \A p \in Paths : state'[p] = state[p]
      <4>1. [p \in Paths |-> state'[p]] = [p \in Paths |-> state[p]]
        BY <3>1
      <4> QED
        BY <1>2, <1>3, <1>5, <4>1, Zenon
    <3> QED
      BY <3>1
  <2>2. Notified(<<"drone">>, state, sets) \cup Notified(Ws, state, sets) # {}
    <3>1. CASE p = Ws
      <4>1. Notified(Ws, state, sets) # {}
        BY <1>1, <1>2, <2>1, <3>1, PrefixOf, PrefixIsTold
      <4> QED
        BY <4>1
    <3>2. CASE \E f : p = Key(f)
      BY <1>4, <2>1, <3>2
    <3> QED
      BY <3>1, <3>2, PathKinds
  <2>3. frame' = TRUE
    BY <2>2 DEF Batch, RequestFrame
  <2> QED
    BY <2>3
<1> QED
  BY <1>1, <1>3, <1>4, <1>5

(* A panel that is subscribed has handlers, a finite number of them.       *)
LEMMA Handlers ==
    ASSUME BoardTypes, Subscribed, NEW p \in Ids
    PROVE  HandlersOf(p) \in Nat /\ (Has(p) => HandlersOf(p) > 0)
<1> DEFINE H == {i \in DOMAIN handlers : handlers[i] = p}
<1>1. DOMAIN handlers = 1 .. Len(handlers) /\ Len(handlers) \in Nat
  BY DEF BoardTypes
<1>2. IsFiniteSet(1 .. Len(handlers))
  BY <1>1, FS_Interval
<1>3. IsFiniteSet(H)
  <2>1. H \subseteq 1 .. Len(handlers)
    BY <1>1
  <2> QED
    BY <1>2, <2>1, FS_Subset
<1>4. Cardinality(H) \in Nat /\ (Cardinality(H) = 0 <=> H = {})
  BY <1>3, FS_CardinalityType, FS_EmptySet
<1>5. Has(p) => H # {}
  BY DEF Subscribed
<1> QED
  BY <1>4, <1>5 DEF HandlersOf

(* Points that are pushed behind a series without a gap leave none.        *)
LEMMA PushKeeps ==
    ASSUME NEW b \in Seq(Nat), NEW n \in Nat, NEW point \in Nat,
           b = <<>> => n > 0,
           b # <<>> => point - Last(b) \in {0, 1} /\ (n = 0 => point = Last(b)),
           \A i \in 1 .. Len(b) - 1 : b[i + 1] - b[i] \in {0, 1}
    PROVE  /\ Push(b, n, point) \in Seq(Nat) /\ Push(b, n, point) # <<>>
           /\ Len(Push(b, n, point)) <= MaxPoints
           /\ Last(Push(b, n, point)) = point
           /\ \A i \in 1 .. Len(Push(b, n, point)) - 1 :
                  Push(b, n, point)[i + 1] - Push(b, n, point)[i] \in {0, 1}
<1> DEFINE c == [i \in 1 .. n |-> point]
           all == b \o c
           m == IF Len(all) > MaxPoints THEN Len(all) - MaxPoints + 1 ELSE 1
           r == SubSeq(all, m, Len(all))
<1>1. c \in Seq(Nat) /\ Len(c) = n /\ \A i \in 1 .. n : c[i] = point
  OBVIOUS
<1>2. Len(b) \in Nat /\ (b = <<>> <=> Len(b) = 0)
  BY EmptySeq
<1>3. /\ all \in Seq(Nat) /\ Len(all) = Len(b) + n
      /\ \A i \in 1 .. Len(all) : all[i] = IF i <= Len(b) THEN b[i] ELSE point
  <2> HIDE DEF c
  <2>1. /\ all \in Seq(Nat) /\ Len(all) = Len(b) + n
        /\ \A i \in 1 .. Len(b) + n : all[i] = IF i <= Len(b) THEN b[i] ELSE c[i - Len(b)]
    BY <1>1, ConcatProperties
  <2>2. \A i \in 1 .. Len(b) + n : ~(i <= Len(b)) => i - Len(b) \in 1 .. n
    BY <1>2
  <2> HIDE DEF all
  <2> QED
    BY <1>1, <2>1, <2>2
<1>4. Len(all) > 0 /\ all[Len(all)] = point
  <2> HIDE DEF all
  <2>1. CASE n = 0
    BY <1>2, <1>3, <2>1 DEF Last
  <2>2. CASE n > 0
    BY <1>2, <1>3, <2>2
  <2> QED
    BY <2>1, <2>2
<1>5. \A i \in 1 .. Len(all) - 1 : all[i + 1] - all[i] \in {0, 1}
  <2> HIDE DEF all
  <2> TAKE i \in 1 .. Len(all) - 1
  <2>0. i \in 1 .. Len(all) /\ i + 1 \in 1 .. Len(all)
    BY <1>2, <1>3
  <2>1. CASE i + 1 <= Len(b)
    <3>1. i \in 1 .. Len(b) - 1
      BY <1>2, <2>0, <2>1
    <3>2. all[i] = b[i] /\ all[i + 1] = b[i + 1]
      BY <1>2, <1>3, <2>0, <2>1
    <3> QED
      BY <3>1, <3>2
  <2>2. CASE i = Len(b)
    <3>1. all[i] = b[i] /\ all[i + 1] = point
      <4>1. i <= Len(b) /\ ~(i + 1 <= Len(b))
        BY <1>2, <2>2
      <4> QED
        BY <1>3, <2>0, <4>1
    <3>2. b # <<>>
      BY <1>2, <2>2
    <3> QED
      BY <2>2, <3>1, <3>2 DEF Last
  <2>3. CASE i > Len(b)
    <3>1. all[i] = point /\ all[i + 1] = point
      BY <1>2, <1>3, <2>0, <2>3
    <3> QED
      BY <3>1
  <2> QED
    BY <1>2, <2>0, <2>1, <2>2, <2>3
<1>6. m \in 1 .. Len(all) /\ Len(all) - m + 1 <= MaxPoints /\ Len(all) \in Nat
  <2> HIDE DEF all
  <2> QED
    BY <1>3, <1>4, MaxPointsAssumption
<1> HIDE DEF m, all
<1>7. /\ r \in Seq(Nat) /\ Len(r) = Len(all) - m + 1
      /\ \A i \in 1 .. Len(all) - m + 1 : r[i] = all[m + i - 1]
  <2>1. \A i \in m .. Len(all) : all[i] \in Nat
    BY <1>3, <1>6
  <2>2. m \in Int /\ Len(all) \in Int /\ m <= Len(all)
    BY <1>6
  <2> QED
    BY <2>1, <2>2, SubSeqProperties
<1>8. Push(b, n, point) = r
  BY DEF Push, m, all
<1> HIDE DEF r
<1>9. r # <<>> /\ Last(r) = point
  <2>1. Len(r) \in 1 .. Len(all) - m + 1 /\ m + Len(r) - 1 = Len(all)
    BY <1>6, <1>7
  <2>2. r[Len(r)] = all[Len(all)]
    BY <1>7, <2>1
  <2>3. r # <<>>
    BY <2>1, EmptySeq
  <2> QED
    BY <1>4, <2>2, <2>3 DEF Last
<1>10. ASSUME NEW i \in 1 .. Len(r) - 1 PROVE r[i + 1] - r[i] \in {0, 1}
  <2>1. i \in 1 .. Len(all) - m + 1 /\ i + 1 \in 1 .. Len(all) - m + 1
    BY <1>6, <1>7
  <2>2. r[i] = all[m + i - 1] /\ r[i + 1] = all[m + (i + 1) - 1]
    BY <1>7, <2>1
  <2>3. m + i - 1 \in 1 .. Len(all) - 1 /\ m + (i + 1) - 1 = (m + i - 1) + 1
    BY <1>6, <1>7, <2>1
  <2> QED
    BY <1>5, <2>2, <2>3
<1> QED
  BY <1>6, <1>7, <1>8, <1>9, <1>10

(* A product of two numbers is 0 only if one of them is.                   *)
LEMMA Products ==
    \A m, n \in Nat : m * n \in Nat /\ (m > 0 /\ n > 0 => m * n > 0)
OBVIOUS

(* Whatever a batch sets, if the pose becomes the next one at most, no     *)
(* display is left behind by it.                                           *)
LEMMA BatchKeeps ==
    ASSUME BoardInv, NEW S, NEW sets \in Seq(S), Batch(sets),
           Pose' \in {Pose, Pose + 1}, state'[Key("timestamp")] = Pose',
           UNCHANGED <<boardMounted, panels, kind, handlers, bars, leaked, retyped,
                       counts, drawn, alerts, missed>>
    PROVE  BoardInv'
<1> DEFINE times == Cardinality(Notified(<<"drone">>, state, sets))
<1>0. BoardTypes /\ Subscribed /\ SeriesInv /\ BarsFresh /\ AlertsCounted
  BY DEF BoardInv
<1>1. /\ state' = [p \in Paths |-> state'[p]]
      /\ state' = state \/ frame'
      /\ \A f : Key(f) \in Paths /\ state'[Key(f)] # state[Key(f)] => times > 0
  BY <1>0, BatchIsTold
<1>2. times \in Nat
  BY PrefixIsTold
<1>3. Key("position") \in Paths /\ Key("timestamp") \in Paths
  BY DEF Paths
<1>4. /\ Pose \in Nat /\ Pose' \in Nat /\ state[Key("timestamp")] = Pose
      /\ Pose = state[Key("position")] /\ Pose' = state'[Key("position")]
  BY <1>0 DEF BoardTypes, Pose
<1>5. times = 0 => Pose' = Pose
  BY <1>1, <1>3, <1>4
<1>6. /\ \A p \in Ids : HandlersOf(p) \in Nat /\ times * HandlersOf(p) \in Nat
      /\ \A p \in Ids : Has(p) /\ times > 0 => times * HandlersOf(p) > 0
  BY <1>0, <1>2, Handlers, Products
<1>7. /\ buf' = Pushed(times * HandlersOf(Line), state')
      /\ value' = IF Has(Card) /\ times * HandlersOf(Card) > 0 THEN CardValue(state') ELSE value
      /\ banner' = IF boardMounted THEN BannerFor(state') ELSE banner
      /\ frame' = TRUE \/ frame' = frame
  BY DEF Batch, RequestFrame
<1> HIDE DEF times
<1>8. BoardTypes'
  BY <1>0, <1>1, <1>4 DEF BoardTypes
<1>9. Subscribed'
  BY <1>0 DEF Subscribed, Has
<1>10. SeriesInv'
  <2>0. ~retyped' => kind'[Line] = Line
    BY <1>0 DEF SeriesInv
  <2> SUFFICES ASSUME Has(Line)', ~retyped' PROVE Series'
    BY <2>0 DEF SeriesInv
  <2>1. Has(Line) /\ kind[Line] = Line /\ Series
    BY <1>0 DEF SeriesInv, Has
  <2>2. CASE Pose' = 0
    <3>1. buf' = buf /\ Pose = 0
      BY <1>4, <1>7, <2>2 DEF Pushed
    <3> QED
      BY <2>1, <2>2, <3>1 DEF Series
  <2>3. CASE Pose' # 0
    <3> DEFINE n == times * HandlersOf(Line)
    <3>1. buf' = Push(buf, n, Pose')
      BY <1>4, <1>7, <2>1, <2>3 DEF Pushed
    <3>2. n \in Nat /\ (times > 0 => n > 0)
      BY <1>6, <2>1 DEF Ids
    <3> HIDE DEF n
    <3>3. n = 0 => Pose' = Pose
      BY <1>2, <1>5, <3>2
    <3>4. buf \in Seq(Nat) /\ \A i \in 1 .. Len(buf) - 1 : buf[i + 1] - buf[i] \in {0, 1}
      BY <2>1 DEF Series
    <3>5. buf = <<>> => n > 0
      BY <2>1, <2>3, <3>2, <3>3 DEF Series
    <3>6. buf # <<>> => Pose' - Last(buf) \in {0, 1} /\ (n = 0 => Pose' = Last(buf))
      BY <1>4, <2>1, <3>3 DEF Series
    <3> DEFINE r == Push(buf, n, Pose')
    <3>7. /\ r \in Seq(Nat) /\ r # <<>> /\ Len(r) <= MaxPoints /\ Last(r) = Pose'
          /\ \A i \in 1 .. Len(r) - 1 : r[i + 1] - r[i] \in {0, 1}
      BY <1>4, <3>2, <3>4, <3>5, <3>6, PushKeeps
    <3>8. buf' = r
      BY <3>1
    <3> HIDE DEF r
    <3> QED
      BY <2>1, <2>3, <3>7, <3>8 DEF Series
  <2> QED
    BY <2>2, <2>3
<1>11. BarsFresh'
  <2>1. (~frame => drawn = state)'
    BY <1>0, <1>1, <1>7 DEF BarsFresh
  <2>2. (boardMounted => banner = BannerFor(state))'
    BY <1>7
  <2>3. (Has(Card) => value = CardValue(state))'
    <3>1. SUFFICES ASSUME Has(Card) PROVE value' = CardValue(state')
      BY DEF Has
    <3>2. CASE times > 0
      BY <1>6, <1>7, <3>1, <3>2 DEF Ids
    <3>3. CASE times = 0
      <4>1. CardValue(state') = CardValue(state)
        BY <1>4, <1>5, <3>3 DEF CardValue
      <4>2. value = CardValue(state)
        BY <1>0, <3>1 DEF BarsFresh
      <4> QED
        BY <1>7, <4>1, <4>2
    <3> QED
      BY <1>2, <3>2, <3>3
  <2> QED
    BY <2>1, <2>2, <2>3 DEF BarsFresh
<1>12. AlertsCounted'
  BY <1>0 DEF AlertsCounted, Has
<1> QED
  BY <1>8, <1>9, <1>10, <1>11, <1>12 DEF BoardInv

(* A pose sets its number as the position and as the time.                 *)
LEMMA PoseIsSet ==
    ASSUME BoardTypes, NEW n \in Nat
    PROVE  /\ PoseSets(n) \in Seq([path : Paths, value : {n, "yes"}])
           /\ After(state, PoseSets(n))[Key("position")] = n
           /\ After(state, PoseSets(n))[Key("timestamp")] = n
<1> DEFINE S == [path : Paths, value : {n, "yes"}]
           a == <<[path |-> Key("position"), value |-> n]>>
           b == [i \in DOMAIN PoseFields |-> [path |-> Key(PoseFields[i]), value |-> n]]
           c == <<[path |-> Key("timestamp"), value |-> n],
                  [path |-> Key("connected"), value |-> "yes"]>>
           ab == a \o b
           sets == ab \o c
<1>1. Len(PoseFields) \in Nat /\ DOMAIN PoseFields = 1 .. Len(PoseFields)
  BY PoseFieldsAssumption
<1>2. a \in Seq(S) /\ Len(a) = 1 /\ a[1] = [path |-> Key("position"), value |-> n]
  BY DEF Paths
<1>3. /\ b \in Seq(S) /\ Len(b) = Len(PoseFields)
      /\ \A i \in 1 .. Len(b) : b[i].value = n
  <2>1. \A i \in 1 .. Len(PoseFields) : [path |-> Key(PoseFields[i]), value |-> n] \in S
    BY <1>1 DEF Paths, ToSet
  <2> QED
    BY <1>1, <2>1
<1>4. /\ c \in Seq(S) /\ Len(c) = 2
      /\ c[1] = [path |-> Key("timestamp"), value |-> n]
      /\ c[2] = [path |-> Key("connected"), value |-> "yes"]
  BY DEF Paths
<1> HIDE DEF S, a, b, c
<1>5. /\ ab \in Seq(S) /\ Len(ab) = 1 + Len(b)
      /\ \A i \in 1 .. Len(ab) : ab[i] = IF i <= 1 THEN a[i] ELSE b[i - 1]
  <2>1. /\ ab \in Seq(S) /\ Len(ab) = Len(a) + Len(b)
        /\ \A i \in 1 .. Len(a) + Len(b) : ab[i] = IF i <= Len(a) THEN a[i] ELSE b[i - Len(a)]
    <3>1. a \in Seq(S) /\ b \in Seq(S)
      BY <1>2, <1>3
    <3> QED
      BY <3>1, ConcatProperties
  <2> HIDE DEF ab
  <2> QED
    BY <1>2, <2>1
<1> HIDE DEF ab
<1>6. /\ sets \in Seq(S) /\ Len(sets) = Len(ab) + 2
      /\ \A i \in 1 .. Len(sets) : sets[i] = IF i <= Len(ab) THEN ab[i] ELSE c[i - Len(ab)]
  <2>1. /\ sets \in Seq(S) /\ Len(sets) = Len(ab) + Len(c)
        /\ \A i \in 1 .. Len(ab) + Len(c) :
               sets[i] = IF i <= Len(ab) THEN ab[i] ELSE c[i - Len(ab)]
    <3>1. ab \in Seq(S) /\ c \in Seq(S)
      BY <1>4, <1>5
    <3> QED
      BY <3>1, ConcatProperties
  <2> HIDE DEF sets
  <2> QED
    BY <1>4, <2>1
<1>7. PoseSets(n) = sets
  BY DEF PoseSets, sets, ab, a, b, c
<1> HIDE DEF sets
<1>8. Len(ab) \in Nat /\ Len(ab) >= 1 /\ Len(b) \in Nat
  BY <1>1, <1>3, <1>5
<1>9. sets[1].path = Key("position") /\ 1 \in 1 .. Len(sets)
  BY <1>2, <1>5, <1>6, <1>8
<1>10. /\ sets[Len(ab) + 1].path = Key("timestamp")
       /\ Len(ab) + 1 \in 1 .. Len(sets)
  BY <1>4, <1>6, <1>8
<1>11. \A i \in 1 .. Len(sets) : sets[i].value = n \/ sets[i].path = Key("connected")
  <2> TAKE i \in 1 .. Len(sets)
  <2>1. CASE i = 1
    BY <1>2, <1>5, <1>6, <1>8, <2>1
  <2>2. CASE i \in 2 .. Len(ab)
    <3>1. sets[i] = b[i - 1] /\ i - 1 \in 1 .. Len(b)
      BY <1>5, <1>6, <1>8, <2>2
    <3> QED
      BY <1>3, <3>1
  <2>3. CASE i > Len(ab)
    <3>1. i - Len(ab) \in {1, 2} /\ sets[i] = c[i - Len(ab)]
      BY <1>6, <1>8, <2>3
    <3> QED
      BY <1>4, <3>1
  <2> QED
    BY <1>8, <2>1, <2>2, <2>3
<1>12. Key("connected") # Key("position") /\ Key("connected") # Key("timestamp")
  BY DEF Key
<1>13. Key("position") \in DOMAIN state /\ Key("timestamp") \in DOMAIN state
  BY DEF BoardTypes, Paths
<1>14. After(state, sets)[Key("position")] = n
  <2> DEFINE q == Key("position")
  <2>1. \A i \in 1 .. Len(sets) : sets[i].path = q => sets[i].value = n
    BY <1>11, <1>12
  <2>2. Len(sets) \in Nat /\ q \in DOMAIN state
    BY <1>6, <1>8, <1>13
  <2>3. \E i \in 1 .. Len(sets) : sets[i].path = q
    BY <1>9
  <2> HIDE DEF q
  <2>4. After(state, sets)[q] = n
    BY <2>1, <2>2, <2>3, SetsAgree, Zenon
  <2> QED
    BY <2>4 DEF q
<1>15. After(state, sets)[Key("timestamp")] = n
  <2> DEFINE q == Key("timestamp")
  <2>1. \A i \in 1 .. Len(sets) : sets[i].path = q => sets[i].value = n
    BY <1>11, <1>12
  <2>2. Len(sets) \in Nat /\ q \in DOMAIN state
    BY <1>6, <1>8, <1>13
  <2>3. \E i \in 1 .. Len(sets) : sets[i].path = q
    BY <1>10
  <2> HIDE DEF q
  <2>4. After(state, sets)[q] = n
    BY <2>1, <2>2, <2>3, SetsAgree, Zenon
  <2> QED
    BY <2>4 DEF q
<1> QED
  BY <1>6, <1>7, <1>14, <1>15 DEF S

(* A pose.                                                                 *)
LEMMA PoseKeeps == BoardInv /\ OnPose => BoardInv'
<1> SUFFICES ASSUME BoardInv, OnPose PROVE BoardInv'
  OBVIOUS
<1> DEFINE n == Pose + 1
<1>1. BoardTypes /\ n \in Nat
  BY DEF BoardInv, BoardTypes
<1>2. Batch(PoseSets(n))
  BY DEF OnPose
<1>3. state' = After(state, PoseSets(n))
  BY <1>2 DEF Batch
<1> HIDE DEF n
<1>4. PoseSets(n) \in Seq([path : Paths, value : {n, "yes"}]) /\ Pose' = n
      /\ state'[Key("timestamp")] = n
  BY <1>1, <1>3, PoseIsSet DEF Pose
<1>5. Pose' \in {Pose, Pose + 1}
  BY <1>4 DEF n
<1> QED
  BY <1>2, <1>4, <1>5, BatchKeeps DEF OnPose

(* A change of the connection.                                             *)
LEMMA ConnectionKeeps ==
    ASSUME BoardInv, NEW s, OnConnection(s)
    PROVE  BoardInv'
<1> DEFINE sets == <<[path |-> Ws, value |-> s]>>
<1>1. sets \in Seq([path : {Ws}, value : {s}]) /\ Len(sets) = 1 /\ sets[1].path = Ws
  OBVIOUS
<1>2. Batch(sets)
  BY DEF OnConnection
<1>3. state' = After(state, sets)
  BY <1>2 DEF Batch
<1> HIDE DEF sets
<1>4. Ws # Key("position") /\ Ws # Key("timestamp")
  BY DEF Ws, Key
<1>5. Key("position") \in DOMAIN state /\ Key("timestamp") \in DOMAIN state
  BY DEF BoardInv, BoardTypes, Paths
<1>6. Pose' = Pose /\ state'[Key("timestamp")] = state[Key("timestamp")]
  BY <1>1, <1>3, <1>4, <1>5, PathIsKept DEF Pose
<1>7. state[Key("timestamp")] = Pose
  BY DEF BoardInv, BoardTypes
<1> QED
  BY <1>1, <1>2, <1>6, <1>7, BatchKeeps DEF OnConnection

(* A redraw of the status bar.                                             *)
LEMMA FrameKeeps == BoardInv /\ Frame => BoardInv'
<1> SUFFICES ASSUME BoardInv, Frame PROVE BoardInv'
  OBVIOUS
<1>1. /\ drawn' = state /\ state' = state /\ UNCHANGED <<gridVars, counts, banner, alerts, missed>>
  BY DEF Frame
<1>2. BoardTypes' /\ Subscribed'
  BY <1>1 DEF BoardInv, BoardTypes, Subscribed, Has, Pose, gridVars
<1>3. SeriesInv' /\ BarsFresh' /\ AlertsCounted'
  BY <1>1 DEF BoardInv, SeriesInv, Series, BarsFresh, AlertsCounted, Has, Pose, gridVars
<1> QED
  BY <1>2, <1>3 DEF BoardInv

-------------------------------------------------------------------------------
(* The place of the last subscription of a panel.                          *)
LastOf(hs, p) == LET I == {i \in 1 .. Len(hs) : hs[i] = p} IN IF I # {} THEN Max(I) ELSE 0

(* It is one of its places, if it has any.                                 *)
LEMMA LastPlace ==
    ASSUME NEW S, NEW hs \in Seq(S), NEW p
    PROVE  /\ LastOf(hs, p) \in 0 .. Len(hs)
           /\ (\E i \in DOMAIN hs : hs[i] = p) => LastOf(hs, p) > 0
<1> DEFINE I == {i \in 1 .. Len(hs) : hs[i] = p}
<1>1. LastOf(hs, p) = IF I # {} THEN Max(I) ELSE 0
  BY DEF LastOf
<1>2. Len(hs) \in Nat /\ DOMAIN hs = 1 .. Len(hs)
  OBVIOUS
<1>3. I # {} => Max(I) \in I
  <2>1. I \in SUBSET (1 .. Len(hs)) /\ Len(hs) \in Int
    BY <1>2
  <2> QED
    BY <2>1, MaxIndex
<1>4. LastOf(hs, p) \in 0 .. Len(hs) /\ (I # {} => LastOf(hs, p) > 0)
  BY <1>1, <1>2, <1>3
<1>5. (\E i \in DOMAIN hs : hs[i] = p) => I # {}
  BY <1>2
<1> QED
  BY <1>4, <1>5

(* An alert is counted by every subscription, and shown by the bars no     *)
(* later than by the subscription before the next.                         *)
LEMMA AlertKeeps == BoardInv /\ OnAlert => BoardInv'
<1> SUFFICES ASSUME BoardInv, OnAlert PROVE BoardInv'
  OBVIOUS
<1> DEFINE j == LastOf(handlers, Bar)
<1>0. BoardTypes /\ Subscribed /\ SeriesInv /\ BarsFresh /\ AlertsCounted
  BY DEF BoardInv
<1>1. /\ alerts' = alerts + 1 /\ missed' = IF panels = <<>> THEN missed + 1 ELSE missed
      /\ counts' = counts + Len(handlers)
      /\ bars' = IF Has(Bar) /\ kind[Bar] = Bar THEN counts + j ELSE bars
      /\ UNCHANGED <<state, boardMounted, panels, kind, handlers, buf, value, leaked, retyped,
                     banner, barVars>>
  BY DEF OnAlert, BarsAfterAlert, LastOf, SelectLastInSeq
<1>2. handlers \in Seq(Ids \cup {Gone}) /\ Len(handlers) \in Nat
  BY <1>0 DEF BoardTypes
<1>3. j \in 0 .. Len(handlers) /\ ((\E i \in DOMAIN handlers : handlers[i] = Bar) => j > 0)
  BY <1>2, LastPlace
<1> HIDE DEF j
<1>4. Has(Bar) => j > 0
  BY <1>0, <1>3 DEF Subscribed, Ids
<1>5. panels # <<>> => Len(handlers) > 0
  <2>1. panels \in Seq(Ids) /\ Len(panels) <= Len(handlers)
    BY <1>0 DEF BoardTypes, Subscribed
  <2>2. panels # <<>> => Len(panels) > 0
    BY <2>1, EmptySeq
  <2> QED
    BY <1>2, <2>1, <2>2
<1>6. counts \in Nat /\ bars \in Nat /\ alerts \in Nat /\ missed \in Nat
  BY <1>0 DEF BoardTypes
<1>7. counts' \in Nat /\ bars' \in Nat /\ alerts' \in Nat /\ missed' \in Nat
  BY <1>1, <1>2, <1>3, <1>6
<1>8. BoardTypes'
  BY <1>0, <1>1, <1>7 DEF BoardTypes, Pose
<1>9. Subscribed'
  BY <1>0, <1>1 DEF Subscribed, Has
<1>10. SeriesInv' /\ BarsFresh'
  BY <1>0, <1>1 DEF SeriesInv, Series, BarsFresh, Has, Pose, barVars
<1>11. AlertsCounted'
  <2>1. (Has(Bar) /\ kind[Bar] = Bar)' => counts' - bars' < Len(handlers')
    <3>1. SUFFICES ASSUME Has(Bar), kind[Bar] = Bar PROVE counts' - bars' < Len(handlers)
      BY <1>1 DEF Has
    <3>2. bars' = counts + j /\ j > 0
      BY <1>1, <1>4, <3>1
    <3> QED
      BY <1>1, <1>2, <1>3, <1>6, <3>2
  <2>2. counts' >= alerts' - missed'
    <3>1. counts >= alerts - missed
      BY <1>0 DEF AlertsCounted
    <3>2. CASE panels # <<>>
      BY <1>1, <1>2, <1>5, <1>6, <3>1, <3>2
    <3>3. CASE panels = <<>>
      BY <1>1, <1>2, <1>6, <3>1, <3>3
    <3> QED
      BY <3>2, <3>3
  <2> QED
    BY <2>1, <2>2 DEF AlertsCounted
<1> QED
  BY <1>8, <1>9, <1>10, <1>11 DEF BoardInv

-------------------------------------------------------------------------------
(* Panels that are mounted are subscribed and show what there is to show,  *)
(* whatever other subscriptions there are.                                 *)
LEMMA MountKeeps ==
    ASSUME BoardInv, NEW hs \in Seq(Ids \cup {Gone}), NEW ps \in Seq(Ids),
           NEW k \in [Ids -> Ids], NEW b, MountPanels(hs, ps, k, b),
           boardMounted' = TRUE, panels' = ps, kind' = k, banner' = BannerFor(state),
           UNCHANGED <<state, counts, barVars, alerts, missed>>
    PROVE  BoardTypes' /\ Subscribed' /\ BarsFresh' /\ AlertsCounted'
<1>0. BoardTypes /\ BarsFresh /\ AlertsCounted
  BY DEF BoardInv
<1>1. /\ handlers' = hs \o ps
      /\ bars' = BarsDrawn(ToSet(ps), k)
      /\ value' = CardDrawn(ToSet(ps))
  BY DEF MountPanels
<1>2. Len(hs) \in Nat /\ Len(ps) \in Nat /\ DOMAIN ps = 1 .. Len(ps)
  OBVIOUS
<1>3. /\ hs \o ps \in Seq(Ids \cup {Gone}) /\ Len(hs \o ps) = Len(hs) + Len(ps)
      /\ \A i \in 1 .. Len(hs) + Len(ps) :
             (hs \o ps)[i] = IF i <= Len(hs) THEN hs[i] ELSE ps[i - Len(hs)]
  <2>1. ps \in Seq(Ids \cup {Gone})
    BY SeqMonotonic
  <2> QED
    BY <2>1, ConcatProperties
<1>4. Bar \in ToSet(ps) => Len(ps) > 0
  BY <1>2 DEF ToSet
<1>5. counts \in Nat /\ bars \in Nat /\ bars' \in Nat
  BY <1>0, <1>1 DEF BoardTypes, BarsDrawn
<1>6. BoardTypes'
  BY <1>0, <1>1, <1>3, <1>5 DEF BoardTypes, Pose
<1>7. Subscribed'
  <2>1. ASSUME NEW p \in ToSet(ps) PROVE \E i \in DOMAIN handlers' : handlers'[i] = p
    <3>1. PICK i \in 1 .. Len(ps) : ps[i] = p
      BY <1>2 DEF ToSet
    <3>2. i + Len(hs) \in 1 .. Len(hs) + Len(ps) /\ ~(i + Len(hs) <= Len(hs))
          /\ (i + Len(hs)) - Len(hs) = i
      BY <1>2
    <3>3. (hs \o ps)[i + Len(hs)] = p
      BY <1>3, <3>1, <3>2
    <3>4. i + Len(hs) \in DOMAIN (hs \o ps)
      BY <1>3, <3>2
    <3> QED
      BY <1>1, <3>3, <3>4
  <2>2. \A p : Has(p)' <=> p \in ToSet(ps)
    BY DEF Has
  <2>3. Len(panels') <= Len(handlers')
    BY <1>1, <1>2, <1>3
  <2> QED
    BY <2>1, <2>2, <2>3 DEF Subscribed
<1>8. BarsFresh'
  <2>1. Has(Card)' <=> Card \in ToSet(ps)
    BY DEF Has
  <2> QED
    BY <1>0, <1>1, <2>1 DEF BarsFresh, CardDrawn, CardValue, barVars
<1>9. AlertsCounted'
  <2>1. Has(Bar)' /\ k[Bar] = Bar => bars' = counts
    BY <1>1 DEF BarsDrawn, Has
  <2>2. Has(Bar)' => Len(handlers') > 0
    BY <1>1, <1>2, <1>3, <1>4 DEF Has
  <2>3. Has(Bar)' /\ k[Bar] = Bar => counts - bars' < Len(handlers')
    BY <1>5, <2>1, <2>2
  <2>4. counts >= alerts - missed
    BY <1>0 DEF AlertsCounted
  <2> QED
    BY <2>3, <2>4 DEF AlertsCounted
<1> QED
  BY <1>6, <1>7, <1>8, <1>9

(* A series that is drawn anew has the latest pose once more.              *)
LEMMA SeriesIsDrawn ==
    ASSUME BoardTypes, NEW hs, NEW ps, Line \in ToSet(ps), NEW k, k[Line] = Line,
           NEW b \in Seq(Nat), Len(b) <= MaxPoints, Pose = 0 => b = <<>>,
           b # <<>> => Last(b) = Pose,
           \A i \in 1 .. Len(b) - 1 : b[i + 1] - b[i] \in {0, 1},
           MountPanels(hs, ps, k, b), state' = state
    PROVE  Series'
<1>1. Pose \in Nat /\ state[Key("timestamp")] = Pose /\ Pose' = Pose
  BY DEF BoardTypes, Pose
<1>2. CASE Pose = 0
  <2>1. buf' = b
    BY <1>1, <1>2 DEF MountPanels
  <2> QED
    BY <1>1, <1>2, <2>1 DEF Series
<1>3. CASE Pose # 0
  <2> DEFINE r == Push(b, 1, Pose)
  <2>1. buf' = r
    BY <1>1, <1>3 DEF MountPanels
  <2>2. b # <<>> => Pose - Last(b) \in {0, 1} /\ (1 = 0 => Pose = Last(b))
    BY <1>1
  <2>3. /\ r \in Seq(Nat) /\ r # <<>> /\ Len(r) <= MaxPoints /\ Last(r) = Pose
        /\ \A i \in 1 .. Len(r) - 1 : r[i + 1] - r[i] \in {0, 1}
    BY <1>1, <2>2, PushKeeps
  <2> HIDE DEF r
  <2> QED
    BY <1>1, <1>3, <2>1, <2>3 DEF Series
<1> QED
  BY <1>2, <1>3

(* The dashboard is opened, with its default panels.                       *)
LEMMA MountPageKeeps == BoardInv /\ MountPage => BoardInv'
<1> SUFFICES ASSUME BoardInv, MountPage PROVE BoardInv'
  OBVIOUS
<1>1. DefaultPanels \in Seq(Ids) /\ Line \in ToSet(DefaultPanels)
  <2>1. Len(DefaultPanels) = 3 /\ DefaultPanels[1] = Line /\ 1 \in DOMAIN DefaultPanels
    BY DEF DefaultPanels
  <2> QED
    BY <2>1 DEF DefaultPanels, Ids, ToSet
<1>2. handlers \in Seq(Ids \cup {Gone})
  BY DEF BoardInv, BoardTypes
<1>3. kind' = kind /\ retyped' = retyped /\ kind \in [Ids -> Ids]
  BY DEF MountPage, BoardInv, BoardTypes
<1>4. MountPanels(handlers, DefaultPanels, kind, <<>>)
  BY DEF MountPage
<1>5. BoardTypes' /\ Subscribed' /\ BarsFresh' /\ AlertsCounted'
  BY <1>1, <1>2, <1>3, <1>4, MountKeeps DEF MountPage
<1>6. <<>> \in Seq(Nat) /\ Len(<<>>) = 0
  BY EmptySeq
<1>7. ASSUME ~retyped PROVE kind[Line] = Line /\ Series'
  <2>0. kind[Line] = Line
    BY <1>7 DEF BoardInv, SeriesInv
  <2>1. BoardTypes /\ state' = state
    BY DEF BoardInv, MountPage
  <2>2. Len(<<>>) <= MaxPoints /\ \A i \in 1 .. Len(<<>>) - 1 : FALSE
    BY <1>6, MaxPointsAssumption
  <2> QED
    BY <1>1, <1>4, <1>6, <2>0, <2>1, <2>2, SeriesIsDrawn
<1> QED
  BY <1>3, <1>5, <1>7 DEF BoardInv, SeriesInv

(* The dashboard is left.                                                  *)
LEMMA UnmountPageKeeps == BoardInv /\ UnmountPage => BoardInv'
<1> SUFFICES ASSUME BoardInv, UnmountPage PROVE BoardInv'
  OBVIOUS
<1>1. BoardTypes /\ Subscribed /\ BarsFresh /\ AlertsCounted
  BY DEF BoardInv
<1>2. /\ boardMounted' = FALSE /\ panels' = <<>> /\ bars' = 0
      /\ kind' = [p \in Ids |-> p] /\ kind' \in [Ids -> Ids] /\ kind'[Line] = Line
      /\ UNCHANGED <<state, counts, banner, barVars, alerts, missed>>
  BY DEF UnmountPage, Ids
<1>3. ToSet(<<>>) = {}
  BY DEF ToSet
<1>4. \A p : ~Has(p)'
  BY <1>2, <1>3 DEF Has
<1>5. handlers' \in Seq(Ids \cup {Gone}) /\ Len(handlers') \in Nat
  <2>1. Len(handlers) \in Nat /\ Len(panels) \in Nat /\ Len(panels) <= Len(handlers)
    BY <1>1 DEF BoardTypes, Subscribed
  <2>2. Len(handlers) - Len(panels) \in Nat
    BY <2>1
  <2>3. handlers' = [i \in 1 .. Len(handlers) - Len(panels) |-> Gone]
    BY DEF UnmountPage
  <2> QED
    BY <2>2, <2>3
<1>6. BoardTypes'
  <2>1. panels' \in Seq(Ids) /\ bars' \in Nat /\ boardMounted' \in BOOLEAN
    <3>1. <<>> \in Seq(Ids)
      BY EmptySeq
    <3>2. panels' = <<>> /\ bars' = 0 /\ boardMounted' = FALSE
      BY <1>2
    <3> QED
      BY <3>1, <3>2
  <2>2. Pose' = Pose
    BY <1>2 DEF Pose
  <2>3. UNCHANGED <<state, counts, alerts, missed>> /\ kind' \in [Ids -> Ids]
    BY <1>2
  <2> QED
    BY <1>1, <1>5, <2>1, <2>2, <2>3 DEF BoardTypes
<1>7. Subscribed'
  BY <1>2, <1>4, <1>5 DEF Subscribed
<1>8. SeriesInv' /\ BarsFresh' /\ AlertsCounted'
  BY <1>1, <1>2, <1>4 DEF SeriesInv, BarsFresh, AlertsCounted, barVars
<1> QED
  BY <1>6, <1>7, <1>8 DEF BoardInv

-------------------------------------------------------------------------------
(* What is left of a sequence when one place is taken out.                 *)
LEMMA RemovedAt ==
    ASSUME NEW S, NEW s \in Seq(S), NEW i \in 0 .. Len(s)
    PROVE  /\ RemoveAt(s, i) \in Seq(S)
           /\ ToSet(RemoveAt(s, i)) \subseteq ToSet(s)
<1> DEFINE a == SubSeq(s, 1, i - 1)
           c == SubSeq(s, i + 1, Len(s))
           r == a \o c
<1>1. Len(s) \in Nat /\ i \in Int /\ \A j \in 1 .. Len(s) : s[j] \in S
  OBVIOUS
<1>2. /\ a \in Seq(S) /\ Len(a) = IF 1 <= i - 1 THEN i - 1 ELSE 0
      /\ \A j \in 1 .. i - 1 : a[j] = s[j]
  <2>1. \A j \in 1 .. i - 1 : s[j] \in S
    BY <1>1
  <2>2. 1 \in Int /\ i - 1 \in Int
    BY <1>1
  <2>3. /\ a \in Seq(S) /\ Len(a) = IF 1 <= i - 1 THEN (i - 1) - 1 + 1 ELSE 0
        /\ \A j \in 1 .. (i - 1) - 1 + 1 : a[j] = s[1 + j - 1]
    BY <2>1, <2>2, SubSeqProperties
  <2> HIDE DEF a
  <2> QED
    BY <1>1, <2>3
<1>3. /\ c \in Seq(S) /\ Len(c) = Len(s) - i
      /\ \A j \in 1 .. Len(s) - i : c[j] = s[i + j]
  <2>1. \A j \in i + 1 .. Len(s) : s[j] \in S
    BY <1>1
  <2>2. i + 1 \in Int /\ Len(s) \in Int
    BY <1>1
  <2>3. /\ c \in Seq(S)
        /\ Len(c) = IF i + 1 <= Len(s) THEN Len(s) - (i + 1) + 1 ELSE 0
        /\ \A j \in 1 .. Len(s) - (i + 1) + 1 : c[j] = s[(i + 1) + j - 1]
    BY <2>1, <2>2, SubSeqProperties
  <2> HIDE DEF c
  <2> QED
    BY <1>1, <2>3
<1> HIDE DEF a, c
<1>4. /\ r \in Seq(S) /\ Len(r) = Len(a) + Len(c)
      /\ \A j \in 1 .. Len(a) + Len(c) : r[j] = IF j <= Len(a) THEN a[j] ELSE c[j - Len(a)]
  BY <1>2, <1>3, ConcatProperties
<1> HIDE DEF r
<1>5. ASSUME NEW x \in ToSet(r) PROVE x \in ToSet(s)
  <2>1. Len(a) \in Nat /\ Len(c) \in Nat /\ DOMAIN s = 1 .. Len(s)
    BY <1>2, <1>3
  <2>2. PICK j \in 1 .. Len(a) + Len(c) : r[j] = x
    BY <1>4, <2>1 DEF ToSet
  <2>3. CASE j <= Len(a)
    <3>1. j \in 1 .. i - 1 /\ j \in 1 .. Len(s)
      BY <1>1, <1>2, <2>2, <2>3
    <3>2. s[j] = x
      BY <1>2, <1>4, <2>2, <2>3, <3>1
    <3> QED
      BY <2>1, <3>1, <3>2 DEF ToSet
  <2>4. CASE ~(j <= Len(a))
    <3>1. j - Len(a) \in 1 .. Len(s) - i /\ r[j] = c[j - Len(a)]
      BY <1>1, <1>3, <1>4, <2>1, <2>2, <2>4
    <3>2. i + (j - Len(a)) \in 1 .. Len(s) /\ c[j - Len(a)] = s[i + (j - Len(a))]
      BY <1>1, <1>3, <2>1, <3>1
    <3> QED
      BY <2>1, <2>2, <3>1, <3>2 DEF ToSet
  <2> QED
    BY <2>3, <2>4
<1>6. RemoveAt(s, i) = r
  BY DEF RemoveAt, r, a, c
<1> QED
  BY <1>4, <1>5, <1>6

(* What is left when a panel is removed has been there before.             *)
LEMMA OthersAreLeft ==
    ASSUME NEW S, NEW s \in Seq(S), NEW p
    PROVE  RemoveFirst(s, p) \in Seq(S) /\ ToSet(RemoveFirst(s, p)) \subseteq ToSet(s)
<1> DEFINE I == {i \in 1 .. Len(s) : s[i] = p}
<1>1. Len(s) \in Nat
  OBVIOUS
<1>2. CASE I = {}
  BY <1>2 DEF RemoveFirst
<1>3. CASE I # {}
  <2>1. RemoveFirst(s, p) = RemoveAt(s, Min(I))
    BY <1>3 DEF RemoveFirst, SelectInSeq
  <2>2. I \in SUBSET Nat
    BY <1>1
  <2>3. PICK x \in I : \A y \in I : x <= y
    BY <1>3, <2>2, LeastIndex
  <2>4. Min(I) \in I
    BY <2>3 DEF Min
  <2> DEFINE m == Min(I)
  <2> HIDE DEF m
  <2>5. m \in 0 .. Len(s)
    BY <1>1, <2>4 DEF m
  <2>6. RemoveAt(s, m) \in Seq(S) /\ ToSet(RemoveAt(s, m)) \subseteq ToSet(s)
    BY <2>5, RemovedAt
  <2> QED
    BY <2>1, <2>6 DEF m
<1> QED
  BY <1>2, <1>3

(* The grid is drawn anew: the time series has the points it had, or is a  *)
(* new panel with none.                                                    *)
LEMMA RedrawKeeps ==
    ASSUME BoardInv, NEW hs \in Seq(Ids \cup {Gone}), NEW ps \in Seq(Ids),
           NEW k \in [Ids -> Ids], NEW b, Redraw(hs, ps, k, b),
           ~retyped' => k[Line] = Line,
           ~retyped' /\ Line \in ToSet(ps) => b = <<>> \/ (b = buf /\ Has(Line) /\ ~retyped)
    PROVE  BoardInv'
<1>0. BoardTypes /\ Subscribed /\ SeriesInv /\ BarsFresh
  BY DEF BoardInv
<1>1. /\ boardMounted /\ panels' = ps /\ kind' = k /\ MountPanels(hs, ps, k, b)
      /\ UNCHANGED <<state, boardMounted, counts, banner, barVars, alerts, missed>>
  BY DEF Redraw
<1>2. boardMounted' = TRUE /\ banner' = BannerFor(state)
  BY <1>0, <1>1 DEF BoardTypes, BarsFresh
<1>3. BoardTypes' /\ Subscribed' /\ BarsFresh' /\ AlertsCounted'
  BY <1>1, <1>2, MountKeeps
<1>4. SeriesInv'
  <2>0. ~retyped' => kind'[Line] = Line
    BY <1>1
  <2> SUFFICES ASSUME Has(Line)', ~retyped' PROVE Series'
    BY <2>0 DEF SeriesInv
  <2>1. Line \in ToSet(ps) /\ k[Line] = Line
    BY <1>1 DEF Has
  <2>2. /\ b \in Seq(Nat) /\ Len(b) <= MaxPoints /\ (Pose = 0 => b = <<>>)
        /\ (b # <<>> => Last(b) = Pose)
        /\ \A i \in 1 .. Len(b) - 1 : b[i + 1] - b[i] \in {0, 1}
    <3>1. CASE b = <<>>
      <4>1. <<>> \in Seq(Nat) /\ Len(<<>>) = 0
        BY EmptySeq
      <4>2. Len(<<>>) <= MaxPoints /\ \A i \in 1 .. Len(<<>>) - 1 : FALSE
        BY <4>1, MaxPointsAssumption
      <4> QED
        BY <3>1, <4>1, <4>2
    <3>2. CASE b = buf /\ Has(Line) /\ ~retyped
      <4>1. Series
        BY <1>0, <3>2 DEF SeriesInv
      <4> QED
        BY <3>2, <4>1 DEF Series
    <3> QED
      BY <2>1, <3>1, <3>2
  <2> QED
    BY <1>0, <1>1, <2>1, <2>2, SeriesIsDrawn
<1> QED
  BY <1>3, <1>4 DEF BoardInv

(* Any panel is removed.                                                   *)
LEMMA RemoveKeeps ==
    ASSUME BoardInv, NEW p \in Ids, RemovePanel(p)
    PROVE  BoardInv'
<1> DEFINE ps == RemoveFirst(panels, p)
           hs == Unmounted(handlers, p)
           k  == [kind EXCEPT ![p] = p]
           b  == IF p = Line THEN <<>> ELSE buf
<1>1. /\ handlers \in Seq(Ids \cup {Gone}) /\ panels \in Seq(Ids) /\ kind \in [Ids -> Ids]
      /\ ~retyped => kind[Line] = Line
  BY DEF BoardInv, BoardTypes, SeriesInv
<1>2. Redraw(hs, ps, k, b) /\ (retyped' <=> (retyped /\ p # Line))
  BY DEF RemovePanel
<1>3. ps \in Seq(Ids) /\ ToSet(ps) \subseteq ToSet(panels)
  BY <1>1, OthersAreLeft
<1>4. hs \in Seq(Ids \cup {Gone})
  <2> DEFINE j == LastOf(handlers, p)
  <2>1. j \in 0 .. Len(handlers)
    BY <1>1, LastPlace
  <2> HIDE DEF j
  <2> DEFINE r == RemoveAt(handlers, j)
  <2>2. r \in Seq(Ids \cup {Gone})
    BY <1>1, <2>1, RemovedAt
  <2> HIDE DEF r
  <2>3. ReplaceAll(r, p, Gone) \in Seq(Ids \cup {Gone})
    BY <2>2 DEF ReplaceAll
  <2>4. hs = ReplaceAll(r, p, Gone)
    BY DEF Unmounted, r, j, LastOf, SelectLastInSeq
  <2> QED
    BY <2>3, <2>4
<1>5. k \in [Ids -> Ids] /\ (~retyped' => k[Line] = Line)
  BY <1>1, <1>2 DEF Ids
<1>6. ~retyped' /\ Line \in ToSet(ps) => b = <<>> \/ (b = buf /\ Has(Line) /\ ~retyped)
  BY <1>2, <1>3 DEF Has
<1> HIDE DEF hs, ps, k, b
<1> QED
  BY <1>2, <1>3, <1>4, <1>5, <1>6, RedrawKeeps

(* A panel is added, of its own type or another.                           *)
LEMMA AddKeeps ==
    ASSUME BoardInv, NEW p \in Ids, NEW q \in {p, Card}, AddPanel(p, q)
    PROVE  BoardInv'
<1> DEFINE ps == Append(panels, p)
           k  == [kind EXCEPT ![p] = q]
           b  == IF p = Line THEN <<>> ELSE buf
<1>1. /\ handlers \in Seq(Ids \cup {Gone}) /\ panels \in Seq(Ids) /\ kind \in [Ids -> Ids]
      /\ ~retyped => kind[Line] = Line
  BY DEF BoardInv, BoardTypes, SeriesInv
<1>2. Redraw(handlers, ps, k, b) /\ retyped' = IF p = Line THEN q # Line ELSE retyped
  BY DEF AddPanel
<1>3. ps \in Seq(Ids) /\ \A x \in ToSet(ps) : x = p \/ x \in ToSet(panels)
  <2>1. /\ ps \in Seq(Ids) /\ Len(ps) = Len(panels) + 1 /\ Len(panels) \in Nat
        /\ \A i \in 1 .. Len(panels) : ps[i] = panels[i]
        /\ ps[Len(panels) + 1] = p
    BY <1>1, AppendProperties
  <2> HIDE DEF ps
  <2>2. \A i \in 1 .. Len(panels) + 1 : i = Len(panels) + 1 \/ i \in 1 .. Len(panels)
    BY <2>1
  <2> QED
    BY <1>1, <2>1, <2>2 DEF ToSet
<1>4. k \in [Ids -> Ids] /\ (~retyped' => k[Line] = Line)
  BY <1>1, <1>2 DEF Ids
<1>5. ~retyped' /\ Line \in ToSet(ps) => b = <<>> \/ (b = buf /\ Has(Line) /\ ~retyped)
  BY <1>2, <1>3 DEF Has
<1> HIDE DEF ps, k, b
<1> QED
  BY <1>1, <1>2, <1>3, <1>4, <1>5, RedrawKeeps

(* A panel is moved.                                                       *)
LEMMA MoveKeeps == BoardInv /\ MovePanel => BoardInv'
<1> SUFFICES ASSUME BoardInv, MovePanel PROVE BoardInv'
  OBVIOUS
<1>1. /\ handlers \in Seq(Ids \cup {Gone}) /\ panels \in Seq(Ids) /\ kind \in [Ids -> Ids]
      /\ ~retyped => kind[Line] = Line
  BY DEF BoardInv, BoardTypes, SeriesInv
<1>2. Redraw(handlers, panels, kind, buf) /\ retyped' = retyped
  BY DEF MovePanel
<1>3. ~retyped' /\ Line \in ToSet(panels) =>
          buf = <<>> \/ (buf = buf /\ Has(Line) /\ ~retyped)
  BY <1>2 DEF Has
<1> QED
  BY <1>1, <1>2, <1>3, RedrawKeeps

(* A panel is given another type, or its own once more.                    *)
LEMMA UpdateKeeps ==
    ASSUME BoardInv, NEW p \in Ids, NEW k \in {p, Card}, UpdateSpec(p, k)
    PROVE  BoardInv'
<1>0. BoardTypes /\ Subscribed /\ SeriesInv /\ BarsFresh /\ AlertsCounted
  BY DEF BoardInv
<1>1. /\ Has(p) /\ kind' = [kind EXCEPT ![p] = k]
      /\ bars' = IF p = Bar THEN BarsDrawn({p}, kind') ELSE bars
      /\ retyped' = (retyped \/ (p = Line /\ k # kind[p]))
      /\ UNCHANGED <<state, boardMounted, panels, handlers, buf, value, counts, banner, barVars,
                     alerts, missed>>
  BY DEF UpdateSpec
<1>2. p \in Ids /\ k \in Ids /\ Line # Bar /\ {Line, Bar, Card} = Ids
  BY DEF Ids, Line, Bar
<1>3. /\ kind' \in [Ids -> Ids]
      /\ \A q \in Ids : kind'[q] = IF q = p THEN k ELSE kind[q]
  BY <1>0, <1>1, <1>2 DEF BoardTypes
<1>4. counts \in Nat /\ bars \in Nat /\ bars' \in Nat /\ Len(handlers) \in Nat
  BY <1>0, <1>1 DEF BoardTypes, BarsDrawn
<1>5. BoardTypes'
  BY <1>0, <1>1, <1>3, <1>4 DEF BoardTypes, Pose
<1>6. Subscribed'
  BY <1>0, <1>1 DEF Subscribed, Has
<1>7. SeriesInv'
  <2> SUFFICES ASSUME ~retyped' PROVE (kind[Line] = Line /\ (Has(Line) => Series))'
    BY DEF SeriesInv
  <2>1. ~retyped
    BY <1>1
  <2>2. kind[Line] = Line /\ (Has(Line) => Series)
    BY <1>0, <2>1 DEF SeriesInv
  <2>3. kind'[Line] = Line
    BY <1>1, <1>2, <1>3, <2>2
  <2>4. (Has(Line) => Series)'
    BY <1>1, <2>2 DEF Series, Pose, Has
  <2> QED
    BY <2>3, <2>4
<1>8. BarsFresh'
  BY <1>0, <1>1 DEF BarsFresh, Has, barVars
<1>9. AlertsCounted'
  <2>1. SUFFICES ASSUME Has(Bar), kind'[Bar] = Bar PROVE counts - bars' < Len(handlers)
    BY <1>0, <1>1 DEF AlertsCounted, Has
  <2>2. CASE p = Bar
    <3>1. bars' = counts
      BY <1>1, <2>1, <2>2 DEF BarsDrawn
    <3>2. Len(handlers) > 0
      <4>1. DOMAIN handlers = 1 .. Len(handlers)
        BY <1>0 DEF BoardTypes
      <4>2. \E i \in 1 .. Len(handlers) : handlers[i] = Bar
        BY <1>0, <1>2, <2>1, <4>1 DEF Subscribed
      <4> QED
        BY <1>4, <4>2
    <3> QED
      BY <1>4, <3>1, <3>2
  <2>3. CASE p # Bar
    <3>1. bars' = bars /\ kind[Bar] = Bar
      BY <1>1, <1>2, <1>3, <2>1, <2>3 DEF BarsDrawn
    <3> QED
      BY <1>0, <2>1, <3>1 DEF AlertsCounted
  <2> QED
    BY <2>2, <2>3
<1> QED
  BY <1>5, <1>6, <1>7, <1>8, <1>9 DEF BoardInv

-------------------------------------------------------------------------------
(* The invariant of the dashboard holds at first and after every step.     *)
LEMMA BoardInvariant == BoardSpec => []BoardInv
<1>1. BoardInit => BoardInv
  <2> SUFFICES ASSUME BoardInit PROVE BoardInv
    OBVIOUS
  <2>1. /\ Key("position") \in Paths /\ Key("timestamp") \in Paths
        /\ Key("position") # Ws /\ Key("timestamp") # Ws
        /\ Key("position") # Key("connected") /\ Key("timestamp") # Key("connected")
    BY DEF Paths, Key, Ws
  <2>2. Pose = 0 /\ state[Key("timestamp")] = 0 /\ state = [p \in Paths |-> state[p]]
    BY <2>1 DEF BoardInit, Pose
  <2>3. \A p : ~Has(p)
    BY DEF BoardInit, Has, ToSet
  <2>4. panels \in Seq(Ids) /\ handlers \in Seq(Ids \cup {Gone}) /\ Len(panels) <= Len(handlers)
    BY DEF BoardInit
  <2>5. BoardTypes
    BY <2>2, <2>4 DEF BoardInit, BoardTypes
  <2>6. Subscribed /\ SeriesInv
    BY <2>3, <2>4 DEF BoardInit, Subscribed, SeriesInv, Ids
  <2>7. BarsFresh /\ AlertsCounted
    BY <2>3 DEF BoardInit, BarsFresh, AlertsCounted
  <2> QED
    BY <2>5, <2>6, <2>7 DEF BoardInv
<1>2. BoardInv /\ [BoardNext]_boardVars => BoardInv'
  <2> SUFFICES ASSUME BoardInv, [BoardNext]_boardVars PROVE BoardInv'
    OBVIOUS
  <2>1. CASE OnPose
    BY <2>1, PoseKeeps
  <2>2. CASE \E s \in {"connected", "connecting"} : OnConnection(s)
    BY <2>2, ConnectionKeeps
  <2>3. CASE OnAlert
    BY <2>3, AlertKeeps
  <2>4. CASE Frame
    BY <2>4, FrameKeeps
  <2>5. CASE MountPage
    BY <2>5, MountPageKeeps
  <2>6. CASE UnmountPage
    BY <2>6, UnmountPageKeeps
  <2>7. CASE (\E p \in Ids : RemovePanel(p)) \/ MovePanel
    BY <2>7, RemoveKeeps, MoveKeeps
  <2>8. CASE \E p \in Ids : \E k \in {p, Card} : AddPanel(p, k) \/ UpdateSpec(p, k)
    BY <2>8, AddKeeps, UpdateKeeps
  <2>9. CASE UNCHANGED boardVars
    <3>1. BoardTypes' /\ Subscribed'
      BY <2>9 DEF BoardInv, BoardTypes, Subscribed, Has, Pose, boardVars, gridVars
    <3>2. SeriesInv' /\ BarsFresh' /\ AlertsCounted'
      BY <2>9 DEF BoardInv, SeriesInv, Series, BarsFresh, AlertsCounted, Has, Pose, boardVars,
                  gridVars, barVars
    <3> QED
      BY <3>1, <3>2 DEF BoardInv
  <2> QED
    BY <2>1, <2>2, <2>3, <2>4, <2>5, <2>6, <2>7, <2>8, <2>9 DEF BoardNext
<1> QED
  BY <1>1, <1>2, PTL DEF BoardSpec

(* Nothing that the status bar, the banner or the card shows is out of     *)
(* date, but for a redraw that is under way, whatever a pose carries       *)
(* (state.js:60-147, app.js:204-242, DashboardPanel.js).                   *)
THEOREM BoardIsFresh == BoardSpec => []BarsFresh
<1>1. BoardInv => BarsFresh
  BY DEF BoardInv
<1> QED
  BY <1>1, BoardInvariant, PTL

(* However many subscriptions a panel has gathered and however full the    *)
(* ring is, the time series has no gap (DashboardPanel.js).                *)
THEOREM SeriesHasNoGap == BoardSpec => []SeriesComplete
<1>1. BoardInv => SeriesComplete
  BY DEF BoardInv, BoardTypes, SeriesInv, Series, SeriesComplete
<1> QED
  BY <1>1, BoardInvariant, PTL

(* The bars are behind by less than one alert, and an alert that comes in  *)
(* while there is a panel is counted (DashboardPanel.js).                  *)
THEOREM AlertsAreCounted == BoardSpec => []AlertsCounted
<1>1. BoardInv => AlertsCounted
  BY DEF BoardInv
<1> QED
  BY <1>1, BoardInvariant, PTL
===============================================================================
