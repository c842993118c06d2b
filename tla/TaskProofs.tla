------------------------------ MODULE TaskProofs ------------------------------
(***************************************************************************)
(* What holds for any number of tasks, operations and recorded flights: of *)
(* the replay of a flown task (Playback) first, of the switching between   *)
(* tasks (Tasks) second.                                                   *)
(***************************************************************************)
EXTENDS Playback, Tasks, WellFoundedInduction, TLAPS

(* The points of a replay: their times rise from 0.                        *)
Rising(points) ==
    /\ points # <<>> => points[1] = 0
    /\ \A i, j \in DOMAIN points : i < j => points[i] < points[j]

-------------------------------------------------------------------------------
(* The binary search.  A set of natural numbers has a least one, which     *)
(* stands in for an induction.                                             *)
Lower == {xy \in Nat \X Nat : xy[1] < xy[2]}

(* The least-number principle, from the well-foundedness of the order.     *)
LEMMA LeastOf ==
    ASSUME NEW S \in SUBSET Nat, S # {}
    PROVE  \E x \in S : \A y \in S : x <= y
<1>1. IsWellFoundedOn(Lower, Nat)
  <2>1. OpToRel(<, Nat) = Lower
    BY Zenon DEF OpToRel, Lower
  <2> QED
    BY <2>1, NatLessThanWellFounded, Zenon
<1>2. \E x \in S : \A y \in S : ~ (<<y, x>> \in Lower)
  BY <1>1, WFMin, Zenon
<1>3. \A x, y \in Nat : ~ (<<y, x>> \in Lower) => x <= y
  BY DEF Lower
<1> QED
  BY <1>2, <1>3

Greatest(S) == CHOOSE x \in S : \A y \in S : y <= x

(* A set of indices that is not empty has a greatest one.                  *)
LEMMA GreatestOf ==
    ASSUME NEW n \in Int, NEW S \in SUBSET (0 .. n), S # {}
    PROVE  Greatest(S) \in S /\ \A y \in S : y <= Greatest(S)
<1> DEFINE T == {n - y : y \in S}
<1>1. T \in SUBSET Nat /\ T # {}
  <2>1. \A y \in S : n - y \in Nat
    OBVIOUS
  <2>2. T \subseteq Nat
    BY <2>1
  <2> QED
    BY <2>2
<1>2. PICK d \in T : \A e \in T : d <= e
  BY <1>1, LeastOf
<1>3. PICK x \in S : d = n - x
  OBVIOUS
<1>4. \A y \in S : y <= x
  <2> TAKE y \in S
  <2>1. n - y \in T
    OBVIOUS
  <2> QED
    BY <1>2, <1>3, <2>1
<1> QED
  BY <1>4 DEF Greatest

(* There is only one.                                                      *)
LEMMA GreatestIs ==
    ASSUME NEW n \in Int, NEW S \in SUBSET (0 .. n), NEW x \in S, \A y \in S : y <= x
    PROVE  Greatest(S) = x
<1>1. Greatest(S) \in S /\ \A y \in S : y <= Greatest(S)
  BY GreatestOf
<1>2. \A y \in S : y \in Int
  OBVIOUS
<1> PICK g : g = Greatest(S)
  OBVIOUS
<1>3. g \in Int /\ x \in Int /\ x <= g /\ g <= x
  BY <1>1, <1>2
<1> QED
  BY <1>3

(* What the search finds in a window: the greatest index whose point has   *)
(* come, or the answer so far.                                             *)
Came(points, t, lo, hi) == {i \in lo .. hi : points[i + 1] <= t}
Found(points, t, w) ==
    IF Came(points, t, w[1], w[2]) = {} THEN w[3] ELSE Greatest(Came(points, t, w[1], w[2]))

(* A round of the search looks at an index of the window, and leaves a     *)
(* narrower one.                                                           *)
LEMMA Narrows ==
    ASSUME NEW points \in Seq(Nat), NEW t \in Nat, NEW w \in Windows(Len(points)), w[1] <= w[2]
    PROVE  \E mid \in w[1] .. w[2] :
               LET v == Narrowed(points, t, w)
               IN  /\ v \in Windows(Len(points)) /\ v[2] - v[1] < w[2] - w[1]
                   /\ points[mid + 1] <= t => v = <<mid + 1, w[2], mid>>
                   /\ ~ (points[mid + 1] <= t) => v = <<w[1], mid - 1, w[3]>>
<1> PICK mid : mid = (w[1] + w[2]) \div 2
  OBVIOUS
<1>1. /\ w[1] \in 0 .. Len(points) /\ w[2] \in -1 .. Len(points) - 1
      /\ w[3] \in 0 .. Len(points) /\ Len(points) \in Nat
  BY DEF Windows
<1>2. mid \in w[1] .. w[2]
  BY <1>1
<1>3. CASE points[mid + 1] <= t
  <2> PICK v : v = Narrowed(points, t, w)
    OBVIOUS
  <2>1. v = <<mid + 1, w[2], mid>>
    BY <1>3 DEF Narrowed
  <2>2. mid + 1 \in 0 .. Len(points) /\ mid \in 0 .. Len(points)
    BY <1>1, <1>2
  <2>3. v \in Windows(Len(points))
    BY <1>1, <2>1, <2>2 DEF Windows
  <2>4. v[2] - v[1] < w[2] - w[1]
    BY <1>1, <1>2, <2>1
  <2> QED
    BY <1>2, <1>3, <2>1, <2>3, <2>4
<1>4. CASE ~ (points[mid + 1] <= t)
  <2> PICK v : v = Narrowed(points, t, w)
    OBVIOUS
  <2>1. v = <<w[1], mid - 1, w[3]>>
    BY <1>4 DEF Narrowed
  <2>2. mid - 1 \in -1 .. Len(points) - 1
    BY <1>1, <1>2
  <2>3. v \in Windows(Len(points))
    BY <1>1, <2>1, <2>2 DEF Windows
  <2>4. v[2] - v[1] < w[2] - w[1]
    BY <1>1, <1>2, <2>1
  <2> QED
    BY <1>2, <1>4, <2>1, <2>3, <2>4
<1> QED
  BY <1>3, <1>4

(* A round does not change what is found.                                  *)
LEMMA FoundStays ==
    ASSUME NEW points \in Seq(Nat), Rising(points), NEW t \in Nat,
           NEW w \in Windows(Len(points)), w[1] <= w[2]
    PROVE  Found(points, t, Narrowed(points, t, w)) = Found(points, t, w)
<1> PICK v : v = Narrowed(points, t, w)
  OBVIOUS
<1> PICK mid \in w[1] .. w[2] :
        /\ points[mid + 1] <= t => v = <<mid + 1, w[2], mid>>
        /\ ~ (points[mid + 1] <= t) => v = <<w[1], mid - 1, w[3]>>
  BY Narrows
<1>1. /\ w[1] \in 0 .. Len(points) /\ w[2] \in -1 .. Len(points) - 1
      /\ Len(points) \in Nat /\ mid \in Nat
  BY DEF Windows
<1> DEFINE old == Came(points, t, w[1], w[2])
           new == Came(points, t, v[1], v[2])
<1>2. old \in SUBSET (0 .. Len(points) - 1) /\ Len(points) - 1 \in Int
  BY <1>1 DEF Came
<1>3. CASE points[mid + 1] <= t
  <2>1. v[1] = mid + 1 /\ v[2] = w[2] /\ v[3] = mid
    BY <1>3
  <2>2. new \subseteq old /\ mid \in old /\ \A i \in old \ new : i <= mid
    BY <1>1, <1>3, <2>1 DEF Came
  <2>3. CASE new = {}
    <3>1. Greatest(old) = mid
      BY <1>2, <2>2, <2>3, GreatestIs
    <3> QED
      BY <2>1, <2>2, <2>3, <3>1 DEF Found
  <2>4. CASE new # {}
    <3>1. Greatest(new) \in new /\ \A y \in new : y <= Greatest(new)
      BY <1>2, <2>2, <2>4, GreatestOf
    <3>2. \A i \in new : mid < i
      BY <1>1, <2>1 DEF Came
    <3>3. \A y \in old : y <= Greatest(new)
      BY <1>1, <1>2, <2>2, <3>1, <3>2
    <3>4. Greatest(old) = Greatest(new)
      BY <1>2, <2>2, <3>1, <3>3, GreatestIs
    <3> QED
      BY <2>2, <2>4, <3>4 DEF Found
  <2> QED
    BY <2>3, <2>4
<1>4. CASE ~ (points[mid + 1] <= t)
  <2>1. v[1] = w[1] /\ v[2] = mid - 1 /\ v[3] = w[3]
    BY <1>4
  <2>2. \A i \in mid .. w[2] : ~ (points[i + 1] <= t)
    <3> TAKE i \in mid .. w[2]
    <3>1. mid + 1 \in DOMAIN points /\ i + 1 \in DOMAIN points
      BY <1>1
    <3>2. points[mid + 1] \in Nat /\ points[i + 1] \in Nat
      BY <3>1
    <3>3. mid + 1 < i + 1 => points[mid + 1] < points[i + 1]
      BY <3>1 DEF Rising
    <3> QED
      BY <1>1, <1>4, <3>2, <3>3
  <2>3. new = old
    BY <1>1, <2>1, <2>2 DEF Came
  <2> QED
    BY <2>1, <2>3 DEF Found
<1> QED
  BY <1>3, <1>4

Solves(points, t, find) ==
    find = [w \in Windows(Len(points)) |->
               IF w[1] > w[2] THEN w[3] ELSE find[Narrowed(points, t, w)]]

(* The search is a function that answers so.                               *)
LEMMA SearchSolves ==
    ASSUME NEW points \in Seq(Nat), Rising(points), NEW t \in Nat
    PROVE  Solves(points, t, Search(points, t))
<1> DEFINE f == [w \in Windows(Len(points)) |-> Found(points, t, w)]
<1>1. ASSUME NEW w \in Windows(Len(points))
      PROVE  Found(points, t, w) = IF w[1] > w[2] THEN w[3] ELSE f[Narrowed(points, t, w)]
  <2>1. w[1] \in Int /\ w[2] \in Int
    BY DEF Windows
  <2>2. CASE w[1] > w[2]
    <3>1. Came(points, t, w[1], w[2]) = {}
      BY <2>1, <2>2 DEF Came
    <3> QED
      BY <2>2, <3>1 DEF Found
  <2>3. CASE w[1] <= w[2]
    <3>1. Narrowed(points, t, w) \in Windows(Len(points))
      BY <2>3, Narrows
    <3>2. Found(points, t, Narrowed(points, t, w)) = Found(points, t, w)
      BY <2>3, FoundStays
    <3> QED
      BY <2>1, <2>3, <3>1, <3>2
  <2> QED
    BY <2>1, <2>2, <2>3
<1>2. Solves(points, t, f)
  <2> DEFINE g == [w \in Windows(Len(points)) |->
                      IF w[1] > w[2] THEN w[3] ELSE f[Narrowed(points, t, w)]]
  <2>1. \A w \in Windows(Len(points)) : f[w] = g[w]
    BY <1>1
  <2>2. f = g
    BY <2>1
  <2> QED
    BY <2>2 DEF Solves
<1>3. Search(points, t) = CHOOSE g : Solves(points, t, g)
  BY DEF Search, Solves
<1> HIDE DEF f
<1> QED
  BY <1>2, <1>3

(* It finds what has come in its window, for a narrower one it finds so.   *)
LEMMA SearchFinds ==
    ASSUME NEW points \in Seq(Nat), Rising(points), NEW t \in Nat
    PROVE  \A w \in Windows(Len(points)) : Search(points, t)[w] = Found(points, t, w)
<1> DEFINE n == Len(points)
           Width(w) == w[2] - w[1] + n + 1
           wrong == {w \in Windows(n) : Search(points, t)[w] # Found(points, t, w)}
           widths == {Width(w) : w \in wrong}
<1>1. \A w \in Windows(n) : w[1] \in 0 .. n /\ w[2] \in -1 .. n - 1 /\ n \in Nat
  BY DEF Windows
<1>2. \A w \in Windows(n) : Width(w) \in Nat
  BY <1>1
<1> SUFFICES ASSUME wrong # {} PROVE FALSE
  OBVIOUS
<1>3. PICK d \in widths : \A e \in widths : d <= e
  <2>1. widths \in SUBSET Nat /\ widths # {}
    BY <1>2
  <2> QED
    BY <2>1, LeastOf
<1>4. PICK w \in wrong : d = Width(w)
  OBVIOUS
<1>5. Search(points, t)[w] = IF w[1] > w[2] THEN w[3] ELSE Search(points, t)[Narrowed(points, t, w)]
  BY SearchSolves, Zenon DEF Solves
<1>6. CASE w[1] > w[2]
  <2>1. Came(points, t, w[1], w[2]) = {}
    BY <1>1, <1>6 DEF Came
  <2> QED
    BY <1>5, <1>6, <2>1 DEF Found
<1>7. CASE w[1] <= w[2]
  <2> PICK v : v = Narrowed(points, t, w)
    OBVIOUS
  <2>1. v \in Windows(n) /\ v[2] - v[1] < w[2] - w[1]
    BY <1>7, Narrows
  <2>2. Found(points, t, v) = Found(points, t, w)
    BY <1>7, FoundStays
  <2>3. Search(points, t)[w] = Search(points, t)[v]
    BY <1>1, <1>5, <1>7
  <2>4. v \in wrong
    BY <2>1, <2>2, <2>3
  <2>5. Width(v) < Width(w)
    <3>1. /\ v[1] \in Int /\ v[2] \in Int /\ w[1] \in Int /\ w[2] \in Int /\ n \in Nat
      BY <1>1, <2>1
    <3> HIDE DEF n
    <3> QED
      BY <2>1, <3>1
  <2>6. Width(w) <= Width(v)
    BY <1>3, <1>4, <2>4
  <2> QED
    BY <1>2, <2>1, <2>5, <2>6
<1> QED
  BY <1>1, <1>6, <1>7

(* The index that the engine finds is the frame of the time.               *)
LEMMA FrameFound ==
    ASSUME NEW points \in Seq(Nat), Rising(points), points # <<>>, NEW t \in Nat
    PROVE  /\ FindIndex(points, t) = FrameAt(points, t)
           /\ FindIndex(points, t) \in 0 .. Len(points) - 1
           /\ points[FindIndex(points, t) + 1] <= t
<1> DEFINE n == Len(points)
           w == <<0, n - 1, 0>>
           all == Came(points, t, 0, n - 1)
<1>1. n \in Nat /\ n > 0
  OBVIOUS
<1>2. w \in Windows(n) /\ w[1] = 0 /\ w[2] = n - 1
  BY <1>1 DEF Windows
<1>3. 0 \in all /\ all \in SUBSET (0 .. n - 1)
  BY <1>1 DEF Came, Rising
<1>4. Greatest(all) \in all /\ \A y \in all : y <= Greatest(all)
  <2>1. n - 1 \in Int /\ all # {}
    BY <1>1, <1>3
  <2> HIDE DEF all
  <2> QED
    BY <1>3, <2>1, GreatestOf
<1>5. FindIndex(points, t) = Greatest(all)
  <2>1. FindIndex(points, t) = Found(points, t, w)
    BY <1>2, SearchFinds DEF FindIndex
  <2> QED
    BY <1>2, <1>3, <2>1 DEF Found
<1>6. PICK x \in 0 .. n - 1 : x = Greatest(all)
  BY <1>3, <1>4
<1>7. points[x + 1] <= t /\ \A j \in x + 2 .. n : points[j] > t
  <2>1. points[x + 1] <= t
    BY <1>4, <1>6 DEF Came
  <2>2. ASSUME NEW j \in x + 2 .. n PROVE points[j] > t
    <3>1. j - 1 \notin all
      BY <1>1, <1>4, <1>6
    <3>2. points[j] \in Nat /\ (j - 1) + 1 = j /\ j - 1 \in 0 .. n - 1
      BY <1>1
    <3> QED
      BY <3>1, <3>2 DEF Came
  <2> QED
    BY <2>1, <2>2
<1>8. ASSUME NEW y \in 0 .. n - 1, points[y + 1] <= t, \A j \in y + 2 .. n : points[j] > t
      PROVE  y = x
  <2>1. y <= x
    BY <1>4, <1>6, <1>8 DEF Came
  <2>2. CASE y < x
    <3>1. x + 1 \in y + 2 .. n
      BY <1>1, <2>2
    <3>2. points[x + 1] > t /\ points[x + 1] \in Nat
      BY <1>1, <1>8, <3>1
    <3> QED
      BY <1>7, <3>2
  <2> QED
    BY <2>1, <2>2
<1>9. FrameAt(points, t) = x
  BY <1>7, <1>8 DEF FrameAt
<1> QED
  BY <1>5, <1>6, <1>7, <1>9

-------------------------------------------------------------------------------
(* The points of a replay, from the first move on.                         *)
LEMMA MotionStarts ==
    ASSUME NEW raw \in Seq([t : Nat, moved : BOOLEAN]), raw # <<>>
    PROVE  MotionStart(raw) \in 1 .. Len(raw)
<1>1. Len(raw) \in Nat /\ Len(raw) > 0
  OBVIOUS
<1> DEFINE moves == {i \in 2 .. Len(raw) : raw[i].moved}
<1>2. CASE moves = {}
  BY <1>1, <1>2 DEF MotionStart
<1>3. CASE moves # {}
  <2>1. moves \in SUBSET Nat
    BY <1>1
  <2>2. PICK i \in moves : \A j \in moves : i <= j
    BY <1>3, <2>1, LeastOf
  <2> DEFINE First(k) == raw[k].moved /\ \A j \in 2 .. k - 1 : ~raw[j].moved
  <2>3. i \in 2 .. Len(raw) /\ First(i)
    BY <1>1, <2>2
  <2>4. MotionStart(raw) = CHOOSE k \in 2 .. Len(raw) : First(k)
    BY <1>3 DEF MotionStart
  <2> HIDE DEF First
  <2>5. MotionStart(raw) \in 2 .. Len(raw)
    BY <2>3, <2>4
  <2> QED
    BY <1>1, <2>5
<1> QED
  BY <1>2, <1>3

(* A sequence over a set has its elements in it.                           *)
LEMMA ElementsOfSeq == \A R : \A seq \in Seq(R) : \A k \in DOMAIN seq : seq[k] \in R
OBVIOUS

(* The points of a recorded flight rise from 0.                            *)
LEMMA PointsRise ==
    ASSUME NEW s \in Sessions
    PROVE  Points(Raw[s]) \in Seq(Nat) /\ Rising(Points(Raw[s]))
<1> PICK raw : raw = Raw[s]
  OBVIOUS
<1>1. /\ raw \in Seq([t : Nat, moved : BOOLEAN])
      /\ \A i, j \in DOMAIN raw : i < j => raw[i].t < raw[j].t
  BY RawAssumption
<1> PICK start : start = MotionStart(raw)
  OBVIOUS
<1> DEFINE n == Len(raw) - start + 1
<1>2. Points(raw) = [i \in 1 .. n |-> raw[start + i - 1].t - raw[start].t]
  BY DEF Points
<1>3. CASE raw = <<>>
  <2>1. start = 1 /\ n = 0
    BY <1>3 DEF MotionStart
  <2>2. Points(raw) = <<>>
    BY <1>2, <2>1
  <2> QED
    BY <2>2 DEF Rising
<1>4. CASE raw # <<>>
  <2>1. Len(raw) \in Nat /\ start \in 1 .. Len(raw) /\ n \in Nat /\ n > 0
    BY <1>1, <1>4, MotionStarts
  <2>2. ASSUME NEW i \in 1 .. n
        PROVE  /\ start + i - 1 \in DOMAIN raw /\ start \in DOMAIN raw
               /\ raw[start + i - 1].t \in Nat /\ raw[start].t \in Nat
               /\ raw[start].t <= raw[start + i - 1].t
    <3>1. start + i - 1 \in DOMAIN raw /\ start \in DOMAIN raw
      BY <1>1, <2>1
    <3>2. \A k \in DOMAIN raw : raw[k].t \in Nat
      <4>1. \A k \in DOMAIN raw : raw[k] \in [t : Nat, moved : BOOLEAN]
        BY <1>1, ElementsOfSeq, Zenon
      <4> QED
        BY <4>1
    <3>3. raw[start + i - 1].t \in Nat /\ raw[start].t \in Nat
      BY <3>1, <3>2
    <3>4. CASE i = 1
      <4>1. start + i - 1 = start
        BY <2>1, <3>4
      <4> QED
        BY <3>1, <3>3, <4>1
    <3>5. CASE i # 1
      <4>1. start < start + i - 1
        BY <2>1, <3>5
      <4> QED
        BY <1>1, <3>1, <3>3, <4>1
    <3> QED
      BY <3>4, <3>5
  <2>3. Points(raw) \in Seq(Nat) /\ DOMAIN Points(raw) = 1 .. n
    <3>1. \A i \in 1 .. n : raw[start + i - 1].t - raw[start].t \in Nat
      BY <2>2
    <3> HIDE DEF n
    <3> QED
      BY <1>2, <2>1, <3>1
  <2>4. Points(raw)[1] = 0
    BY <1>2, <2>1, <2>2
  <2>5. ASSUME NEW i \in 1 .. n, NEW j \in 1 .. n, i < j
        PROVE  Points(raw)[i] < Points(raw)[j]
    <3>1. start + i - 1 < start + j - 1
      BY <2>1, <2>5
    <3>2. raw[start + i - 1].t < raw[start + j - 1].t
      BY <1>1, <2>2, <3>1
    <3> QED
      BY <1>2, <2>2, <3>2
  <2> QED
    BY <2>3, <2>4, <2>5 DEF Rising
<1> QED
  BY <1>3, <1>4

-------------------------------------------------------------------------------
(* What belongs to whom: only a mounted page has a detail, which is that   *)
(* of the selected session.                                                *)
Belongs ==
    /\ detail # NoSession => mounted /\ selected = detail
    /\ visible => mounted
    /\ OwnFlight

(* A step of the page keeps that.                                          *)
LEMMA BelongsStep ==
    ASSUME Belongs, [ReplayNext]_replayVars
    PROVE  Belongs'
<1> USE SessionsAssumption DEF Belongs, OwnFlight
<1>1. CASE Frame
  BY <1>1 DEF Frame, page
<1>2. CASE PlayPause \/ (\E t \in {0, 2, Slider} : Seek(t)) \/ (\E dir \in {-1, 1} : Step(dir))
           \/ \E s \in {1, 2} : SetSpeed(s)
  BY <1>2 DEF PlayPause, Seek, Step, SetSpeed, page
<1>3. CASE Mount \/ SwitchTab
  BY <1>3 DEF Mount, SwitchTab, store
<1>4. CASE Unmount
  BY <1>4 DEF Unmount, store
<1>5. CASE \E s \in Sessions : Select(s)
  BY <1>5 DEF Select, NoData
<1>6. CASE \E s \in Sessions : SelectElsewhere(s)
  BY <1>6 DEF SelectElsewhere, page
<1>7. CASE Load
  BY <1>7 DEF Load, Loaded
<1>8. CASE UNCHANGED replayVars
  BY <1>8 DEF replayVars, store, page
<1> QED
  BY <1>1, <1>2, <1>3, <1>4, <1>5, <1>6, <1>7, <1>8 DEF ReplayNext, Controls

(* The views of a task never show the flight of another, however late the  *)
(* answers come in.                                                        *)
THEOREM FlightIsOwn == ReplaySpec => []OwnFlight
<1>1. ReplayInit => Belongs
  BY DEF ReplayInit, Belongs, OwnFlight
<1>2. Belongs /\ [ReplayNext]_replayVars => Belongs'
  BY BelongsStep
<1>3. Belongs => OwnFlight
  BY DEF Belongs
<1> QED
  BY <1>1, <1>2, <1>3, PTL DEF ReplaySpec

-------------------------------------------------------------------------------
(* The animation runs as the store says.                                   *)
LEMMA LoopStep ==
    ASSUME Belongs, LoopAsSaid, [ReplayNext]_replayVars
    PROVE  LoopAsSaid'
<1> USE DEF LoopAsSaid
<1>1. CASE Frame
  BY <1>1 DEF Frame, Stop, page
<1>2. CASE PlayPause
  BY <1>2 DEF PlayPause, Start, Stop, page, Belongs
<1>3. CASE (\E t \in {0, 2, Slider} : Seek(t)) \/ (\E dir \in {-1, 1} : Step(dir))
  BY <1>3 DEF Seek, Step, engine, page
<1>4. CASE \E s \in {1, 2} : SetSpeed(s)
  BY <1>4 DEF SetSpeed, engine, page
<1>5. CASE Mount
  BY <1>5 DEF Mount, Start, store, engine
<1>6. CASE Unmount
  BY <1>6 DEF Unmount, Stop, store
<1>7. CASE SwitchTab
  BY <1>7 DEF SwitchTab, store, engine
<1>8. CASE \E s \in Sessions : Select(s) \/ SelectElsewhere(s)
  BY <1>8 DEF Select, SelectElsewhere, engine, page
<1>9. CASE Load
  BY <1>9 DEF Load, Loaded, engine
<1>10. CASE UNCHANGED replayVars
  BY <1>10 DEF replayVars, store, engine, page
<1> QED
  BY <1>1, <1>2, <1>3, <1>4, <1>5, <1>6, <1>7, <1>8, <1>9, <1>10 DEF ReplayNext, Controls

(* While the page is mounted and the state says playing, an animation      *)
(* frame is requested, and none is in any other state but after a dataset  *)
(* that came in while it ran.                                              *)
THEOREM LoopRunsAsSaid == ReplaySpec => []LoopAsSaid
<1>1. ReplayInit => LoopAsSaid
  BY DEF ReplayInit, LoopAsSaid
<1>2. ReplayInit => Belongs
  BY DEF ReplayInit, Belongs, OwnFlight
<1>3. Belongs /\ LoopAsSaid /\ [ReplayNext]_replayVars => Belongs' /\ LoopAsSaid'
  BY BelongsStep, LoopStep
<1> QED
  BY <1>1, <1>2, <1>3, PTL DEF ReplaySpec

-------------------------------------------------------------------------------
(* The frame of the time, and the types.                                   *)
FrameRight ==
    dataset.points # <<>> =>
        /\ index = FrameAt(dataset.points, time)
        /\ Duration(dataset) > 0 => time <= Duration(dataset)

ViewsRight ==
    detail # NoSession /\ ~behind =>
        /\ views.timeline.time = time /\ views.panels = time
        /\ dataset.points # <<>> =>
               /\ views.map.marker = index /\ views.map.flown = index
               /\ views.trail = index /\ views.drone = index

ReplayInv == ReplayTypeOK /\ Rising(dataset.points) /\ FrameRight /\ ViewsRight

(* Data last for a natural time, and consist of points if there are any.   *)
LEMMA DurationType ==
    ASSUME ReplayTypeOK
    PROVE  /\ Duration(dataset) \in Nat
           /\ dataset.points \in Seq(Nat) /\ Len(dataset.points) \in Nat
           /\ dataset.points # <<>> => Len(dataset.points) > 0
<1>1. dataset.points \in Seq(Nat)
  BY DEF ReplayTypeOK
<1> QED
  BY <1>1 DEF Duration

(* A tick finds the frame and shows it.                                    *)
LEMMA TickStep ==
    ASSUME ReplayInv, NEW t \in Nat, NEW state \in States,
           Duration(dataset) > 0 => t <= Duration(dataset),
           Tick(t, state), UNCHANGED <<dataset, detail>>
    PROVE  /\ time' \in Nat /\ index' \in Nat /\ views' \in Views /\ behind' = FALSE
           /\ FrameRight' /\ ViewsRight'
<1>1. dataset.points \in Seq(Nat) /\ Rising(dataset.points) /\ views \in Views
  BY DEF ReplayInv, ReplayTypeOK
<1>2. /\ time' = t /\ behind' = FALSE
      /\ dataset.points = <<>> => index' = 0
      /\ dataset.points # <<>> =>
             /\ index' = FrameAt(dataset.points, t)
             /\ index' \in 0 .. Len(dataset.points) - 1
  BY <1>1, FrameFound DEF Tick
<1>3. index' \in Nat /\ Len(dataset.points) \in Nat
  BY <1>1, <1>2
<1>4. FrameRight'
  BY <1>2 DEF FrameRight, Duration
<1>5. Last(dataset.points, index') \in Indices
  BY <1>1, <1>2, <1>3 DEF Last, Indices, NoPoint
<1>6. dataset.points # <<>> => index' < Len(dataset.points) /\ Last(dataset.points, index') = index'
  BY <1>2, <1>3 DEF Last
<1>7. CASE detail = NoSession
  BY <1>1, <1>2, <1>3, <1>4, <1>7 DEF Tick, ViewsRight
<1>8. CASE detail # NoSession
  <2> PICK i : i = index'
    OBVIOUS
  <2> PICK seen : seen = Ticked(t, i, state)
    OBVIOUS
  <2>1. views' = seen
    BY <1>8 DEF Tick
  <2>2. /\ seen.timeline = [time |-> t, playing |-> state] /\ seen.panels = t
        /\ seen.map = [marker |-> IF i < Len(dataset.points) THEN i ELSE NoPoint,
                       flown |-> Last(dataset.points, i)]
        /\ seen.trail = Last(dataset.points, i)
        /\ seen.drone = IF dataset.points = <<>> THEN views.drone ELSE Last(dataset.points, i)
    BY DEF Ticked, TimelineShows, MapMoved, SceneTrail, SceneDrone
  <2>3. views.drone \in Indices /\ i \in Indices /\ NoPoint \in Indices
    BY <1>1, <1>3 DEF Views, Indices
  <2>4. seen \in Views
    BY <1>5, <2>3 DEF Ticked, TimelineShows, MapMoved, SceneTrail, SceneDrone, Views
  <2>5. ViewsRight'
    BY <1>2, <1>6, <2>1, <2>2 DEF ViewsRight
  <2> QED
    BY <1>2, <1>3, <1>4, <2>1, <2>4, <2>5
<1> QED
  BY <1>7, <1>8

(* The types of what is not drawn.                                         *)
Others ==
    /\ selected \in Sessions \cup {NoSession}
    /\ dataset \in [of : Sessions \cup {NoSession}, points : Seq(Nat)]
    /\ Rising(dataset.points)
    /\ playing \in States /\ speed \in {1, 2}
    /\ mounted \in BOOLEAN /\ raf \in BOOLEAN /\ fresh \in BOOLEAN
    /\ detail \in Sessions \cup {NoSession} /\ visible \in BOOLEAN
    /\ loads \in [Sessions -> Nat]
    /\ carried \in BOOLEAN
    /\ inputs \in Nat

Frames == time \in Nat /\ index \in Nat /\ views \in Views /\ behind \in BOOLEAN

(* The invariant, taken apart in another way.                              *)
LEMMA Together == ReplayInv <=> Others /\ Frames /\ FrameRight /\ ViewsRight
BY DEF ReplayInv, ReplayTypeOK, Others, Frames

(* Selection, dataset, play state, speed and loads keep their types.       *)
LEMMA OthersStep ==
    ASSUME Others, Frames, [ReplayNext]_replayVars
    PROVE  Others'
<1> USE SessionsAssumption, ReplayBoundsAssumption DEF Others
<1>1. CASE Frame
  BY <1>1 DEF Frame, Stop, page, States
<1>2. CASE PlayPause
  <2>1. playing' \in States /\ raf' \in BOOLEAN /\ fresh' \in BOOLEAN
    BY <1>2 DEF PlayPause, Start, Stop, States
  <2>2. inputs' \in Nat /\ carried' = FALSE
    BY <1>2 DEF PlayPause, Inputs
  <2>3. UNCHANGED <<selected, dataset, speed, mounted, detail, visible, loads>>
    BY <1>2 DEF PlayPause, page
  <2> QED
    BY <2>1, <2>2, <2>3
<1>3. CASE (\E t \in {0, 2, Slider} : Seek(t)) \/ (\E dir \in {-1, 1} : Step(dir))
  BY <1>3 DEF Seek, Step, Inputs, engine, page
<1>4. CASE \E s \in {1, 2} : SetSpeed(s)
  BY <1>4 DEF SetSpeed, Inputs, engine, page
<1>5. CASE Mount \/ Unmount \/ SwitchTab
  <2>1. inputs' \in Nat
    BY <1>5 DEF Mount, Unmount, SwitchTab, Inputs
  <2> QED
    BY <1>5, <2>1 DEF Mount, Unmount, SwitchTab, Start, Stop, store, engine
<1>6. ASSUME NEW s \in Sessions, Select(s) PROVE Others'
  <2>1. NoData \in [of : Sessions \cup {NoSession}, points : Seq(Nat)] /\ Rising(NoData.points)
    BY DEF NoData, Rising
  <2>2. inputs' \in Nat /\ loads' \in [Sessions -> Nat]
    BY <1>6 DEF Select, Inputs
  <2> QED
    BY <1>6, <2>1, <2>2 DEF Select, engine
<1>7. CASE \E s \in Sessions : SelectElsewhere(s)
  BY <1>7 DEF SelectElsewhere, Inputs, engine, page
<1>8. ASSUME NEW s \in Sessions, NEW points \in {Points(Raw[s]), <<>>}, Loaded(s, points)
      PROVE  Others'
  <2>1. points \in Seq(Nat) /\ Rising(points)
    <3>1. Rising(<<>>) /\ <<>> \in Seq(Nat)
      BY DEF Rising
    <3> QED
      BY <3>1, PointsRise
  <2>2. loads' \in [Sessions -> Nat]
    BY <1>8 DEF Loaded
  <2>3. /\ dataset' \in [of : Sessions \cup {NoSession}, points : Seq(Nat)]
        /\ Rising(dataset'.points)
    <3>1. CASE selected = s
      <4>1. dataset' = [of |-> s, points |-> points]
        BY <1>8, <3>1 DEF Loaded
      <4> QED
        BY <2>1, <4>1
    <3>2. CASE selected # s
      BY <1>8, <3>2 DEF Loaded
    <3> QED
      BY <3>1, <3>2
  <2>4. playing' \in States /\ carried' \in BOOLEAN
    BY <1>8 DEF Loaded, States
  <2>5. UNCHANGED <<selected, speed, raf, fresh, mounted, detail, visible, inputs>>
    BY <1>8 DEF Loaded, engine
  <2> QED
    BY <2>2, <2>3, <2>4, <2>5
<1>9. CASE UNCHANGED replayVars
  BY <1>9 DEF replayVars, store, engine, page
<1> QED
  BY <1>1, <1>2, <1>3, <1>4, <1>5, <1>6, <1>7, <1>8, <1>9 DEF ReplayNext, Controls, Load

(* The steps that move the time, and those that leave it.                  *)
LEMMA FramesStep ==
    ASSUME ReplayInv, [ReplayNext]_replayVars
    PROVE  Frames' /\ FrameRight' /\ ViewsRight'
<1>1. Others /\ Frames /\ FrameRight /\ ViewsRight
  BY Together
<1>2. /\ Duration(dataset) \in Nat /\ dataset.points \in Seq(Nat)
      /\ Len(dataset.points) \in Nat
  BY DurationType DEF ReplayInv
<1>3. ASSUME UNCHANGED <<time, index, dataset, detail, views, behind>>
      PROVE  Frames' /\ FrameRight' /\ ViewsRight'
  BY <1>1, <1>3 DEF Frames, FrameRight, ViewsRight, Duration
<1>4. ASSUME NEW t \in Nat, NEW state \in States, Tick(t, state), UNCHANGED <<dataset, detail>>,
             Duration(dataset) > 0 => t <= Duration(dataset)
      PROVE  Frames' /\ FrameRight' /\ ViewsRight'
  BY <1>4, TickStep DEF Frames
<1>5. CASE Frame
  <2>1. UNCHANGED <<dataset, detail>>
    BY <1>5 DEF Frame, page
  <2>2. PICK passed \in 1 .. MaxStep :
            \/ UNCHANGED <<time, index, views, behind>>
            \/ Tick(Duration(dataset), playing)
            \/ /\ Tick(time + passed * speed, playing)
               /\ ~ (time + passed * speed >= Duration(dataset))
    BY <1>5 DEF Frame
  <2>3. time + passed * speed \in Nat
    <3>1. passed \in Nat /\ time \in Nat /\ speed \in {1, 2}
      BY <1>1, ReplayBoundsAssumption DEF Others, Frames
    <3>2. CASE speed = 1
      BY <3>1, <3>2
    <3>3. CASE speed = 2
      BY <3>1, <3>3
    <3> QED
      BY <3>1, <3>2, <3>3
  <2>4. playing \in States
    BY <1>1 DEF Others
  <2> QED
    BY <1>2, <1>3, <1>4, <2>1, <2>2, <2>3, <2>4
<1>6. CASE PlayPause
  <2>1. /\ UNCHANGED <<index, time, dataset, detail, behind>> /\ playing' \in States
        /\ views' = [views EXCEPT !.timeline = [time |-> time, playing |-> playing']]
    BY <1>6 DEF PlayPause, page, States, TimelineShows
  <2>2. /\ views' \in Views /\ views'.timeline.time = time
        /\ views'.panels = views.panels /\ views'.map = views.map
        /\ views'.trail = views.trail /\ views'.drone = views.drone
    BY <1>1, <2>1 DEF Frames, Views
  <2> QED
    BY <1>1, <2>1, <2>2 DEF Frames, FrameRight, ViewsRight, Duration
<1>7. ASSUME NEW t \in {0, 2, Slider}, Seek(t) PROVE Frames' /\ FrameRight' /\ ViewsRight'
  BY <1>1, <1>2, <1>4, <1>7 DEF Seek, page, Slider, Others
<1>8. ASSUME NEW dir \in {-1, 1}, Step(dir) PROVE Frames' /\ FrameRight' /\ ViewsRight'
  <2> DEFINE n == Len(dataset.points)
             x == time + dir * (IF n > 1 THEN Duration(dataset) \div n ELSE 1)
  <2>1. n > 0 /\ Tick(Clamp(x), playing)
    BY <1>8 DEF Step
  <2>2. UNCHANGED <<dataset, detail>>
    BY <1>8 DEF Step, page
  <2>3. x \in Int
    <3>1. Duration(dataset) \div n \in Int
      BY <1>2, <2>1
    <3>2. time \in Int
      BY <1>1 DEF Frames
    <3> QED
      BY <3>1, <3>2
  <2>4. Clamp(x) \in Nat /\ Clamp(x) <= Duration(dataset)
    BY <1>2, <2>3 DEF Clamp
  <2>5. playing \in States
    BY <1>1 DEF Others
  <2> HIDE DEF x
  <2> QED
    BY <1>4, <2>1, <2>2, <2>4, <2>5
<1>9. CASE Mount \/ Unmount \/ SwitchTab
  <2>1. UNCHANGED <<time, index, dataset, views, behind>>
    BY <1>9 DEF Mount, Unmount, SwitchTab, store
  <2>2. detail' \in {detail, NoSession}
    BY <1>9 DEF Mount, Unmount, SwitchTab
  <2> QED
    BY <1>1, <2>1, <2>2 DEF Frames, FrameRight, ViewsRight, Duration
<1>10. CASE \E s \in {1, 2} : SetSpeed(s)
  BY <1>3, <1>10 DEF SetSpeed, page
<1>11. CASE \E s \in Sessions : SelectElsewhere(s)
  BY <1>3, <1>11 DEF SelectElsewhere, page
<1>12. ASSUME NEW s \in Sessions, Select(s) PROVE Frames' /\ FrameRight' /\ ViewsRight'
  <2>1. UNCHANGED <<time, index>> /\ views' = Mounted(time, playing) /\ behind' = TRUE
    BY <1>12 DEF Select
  <2>2. dataset'.points = <<>>
    BY <1>12 DEF Select, NoData
  <2>3. Mounted(time, playing) \in Views
    BY <1>1 DEF Mounted, TimelineShows, MapDrawn, SceneTrail, Last, NoPoint, Views, Indices, Frames,
                Others
  <2> QED
    BY <1>1, <2>1, <2>2, <2>3 DEF Frames, FrameRight, ViewsRight
<1>13. ASSUME NEW s \in Sessions, NEW points \in {Points(Raw[s]), <<>>}, Loaded(s, points)
       PROVE  Frames' /\ FrameRight' /\ ViewsRight'
  <2>1. CASE selected # s
    BY <1>3, <1>13, <2>1 DEF Loaded
  <2>2. CASE selected = s
    <3>1. /\ dataset' = [of |-> s, points |-> points] /\ index' = 0 /\ time' = 0
          /\ views' = IF detail = NoSession THEN views ELSE Redrawn(points)
          /\ behind' = TRUE
      BY <1>13, <2>2 DEF Loaded
    <3>2. points \in Seq(Nat) /\ Rising(points)
      <4>1. Rising(<<>>) /\ <<>> \in Seq(Nat)
        BY DEF Rising
      <4> QED
        BY <4>1, PointsRise
    <3>3. points # <<>> => FrameAt(points, 0) = 0
      <4> SUFFICES ASSUME points # <<>> PROVE FrameAt(points, 0) = 0
        OBVIOUS
      <4> PICK i : i = FrameAt(points, 0)
        OBVIOUS
      <4>1. i \in 0 .. Len(points) - 1 /\ points[i + 1] <= 0
        BY <3>2, FrameFound
      <4>2. /\ Len(points) \in Nat /\ 1 \in DOMAIN points /\ i + 1 \in DOMAIN points
            /\ points[1] = 0 /\ points[i + 1] \in Nat
        BY <3>2, <4>1 DEF Rising
      <4>3. 1 < i + 1 => points[1] < points[i + 1]
        BY <3>2, <4>2 DEF Rising
      <4> QED
        BY <4>1, <4>2, <4>3
    <3>4. FrameRight'
      BY <3>1, <3>2, <3>3, <1>2 DEF FrameRight, Duration
    <3>5. views' \in Views
      <4>1. Redrawn(points) \in Views
        <5>1. /\ index \in Nat /\ time \in Nat /\ playing \in States
              /\ views.drone \in Indices /\ Len(points) \in Nat
          BY <1>1, <3>2 DEF Frames, Others, Views
        <5> QED
          BY <5>1 DEF Redrawn, TimelineShows, MapDrawn, SceneTrail, SceneDrone, Last, NoPoint,
                      Views, Indices
      <4> QED
        BY <1>1, <3>1, <4>1 DEF Frames
    <3> QED
      BY <3>1, <3>4, <3>5 DEF Frames, ViewsRight
  <2> QED
    BY <2>1, <2>2
<1>14. CASE UNCHANGED replayVars
  BY <1>3, <1>14 DEF replayVars, store, page
<1> QED
  BY <1>5, <1>6, <1>7, <1>8, <1>9, <1>10, <1>11, <1>12, <1>13, <1>14
     DEF ReplayNext, Controls, Load

(* The invariant of the replay.                                            *)
LEMMA ReplayInvInductive == ReplaySpec => []ReplayInv
<1>1. ReplayInit => ReplayInv
  <2> SUFFICES ASSUME ReplayInit PROVE ReplayInv
    OBVIOUS
  <2>1. dataset = NoData /\ dataset.points = <<>> /\ dataset.of = NoSession
    BY DEF ReplayInit, NoData
  <2>2. Others
    <3>1. dataset \in [of : Sessions \cup {NoSession}, points : Seq(Nat)]
      BY DEF ReplayInit, NoData
    <3>2. Rising(dataset.points)
      BY <2>1 DEF Rising
    <3>3. loads \in [Sessions -> Nat]
      BY DEF ReplayInit
    <3> QED
      BY <3>1, <3>2, <3>3 DEF ReplayInit, Others, States
  <2>3. Frames /\ FrameRight /\ ViewsRight
    <3>1. views = Mounted(0, "stopped")
      BY DEF ReplayInit
    <3>2. Mounted(0, "stopped") \in Views
      BY DEF Mounted, TimelineShows, MapDrawn, SceneTrail, Last, NoPoint, Views, Indices, States
    <3> QED
      BY <2>1, <3>1, <3>2 DEF ReplayInit, Frames, FrameRight, ViewsRight
  <2> QED
    BY <2>2, <2>3, Together
<1>2. ReplayInv /\ [ReplayNext]_replayVars => ReplayInv'
  <2> SUFFICES ASSUME ReplayInv, [ReplayNext]_replayVars PROVE ReplayInv'
    OBVIOUS
  <2>1. Others'
    BY OthersStep, Together
  <2>2. Frames' /\ FrameRight' /\ ViewsRight'
    BY FramesStep
  <2>3. (ReplayInv <=> Others /\ Frames /\ FrameRight /\ ViewsRight)'
    BY Together, PTL
  <2> QED
    BY <2>1, <2>2, <2>3
<1> QED
  BY <1>1, <1>2, PTL DEF ReplaySpec

(* Every variable of the replay has its type.                              *)
THEOREM ReplayTypeCorrect == ReplaySpec => []ReplayTypeOK
<1>1. ReplayInv => ReplayTypeOK
  BY DEF ReplayInv
<1> QED
  BY <1>1, ReplayInvInductive, PTL

(* Whatever recorded flights there are, and however they are seeked,       *)
(* stepped, played, left and selected, the index that the binary search    *)
(* finds is the frame of the time, the time lies within data that last,    *)
(* and the views show both after each tick.                                *)
THEOREM FrameIsOfTime == ReplaySpec => []FrameOfTime
<1>1. ReplayInv => FrameOfTime
  BY DEF ReplayInv, FrameRight, ViewsRight, FrameOfTime
<1> QED
  BY <1>1, ReplayInvInductive, PTL

-------------------------------------------------------------------------------
-------------------------------------------------------------------------------
(* Switching between tasks: what an operation is at each of its steps.     *)
USE TasksAssumption, BoundsAssumption

Kinds == {"idle", "boot", "create", "activate", "delete", "rename"}
Steps == {"idle", "sent", "answered", "orphaned", "refused", "detail", "talk", "track"}
Operation == [kind : Kinds, task : TaskIds \cup {NoTask}, step : Steps, clean : BOOLEAN]

Loading(op) == op.step \in {"detail", "talk", "track"}

(* Which kind of operation takes which steps, and has a task when.         *)
Fits(op) ==
    /\ op.kind = "idle" \/ op.step = "idle" => op = Idle
    /\ Loading(op) => op.kind \in {"boot", "activate"} /\ op.task \in TaskIds
    /\ op.step = "orphaned" => op.kind = "delete"
    /\ op.kind \in {"activate", "delete", "rename"} => op.task \in TaskIds
    /\ op.kind = "create" /\ op.step = "answered" => op.task \in TaskIds

OpsTyped == ops \in [Slots -> Operation] /\ \A i \in Slots : Fits(ops[i])

RecordTypes ==
    /\ record \in [TaskIds -> {"new", "kept", "gone"}]
    /\ name \in [TaskIds -> Nat]
    /\ active \in TaskIds \cup {NoTask}

(* A task that is yet to come has no name.                                 *)
NewUnnamed == \A t \in TaskIds : record[t] = "new" => name[t] = 0

(* Nothing disturbs a clean operation, for it is alone; and as soon as one *)
(* is not clean, that is known.                                            *)
CleanAlone == \A i, j \in Slots : ops[i] # Idle /\ ops[i].clean /\ j # i => ops[j] = Idle
UncleanMuddled == \A i \in Slots : ~ops[i].clean => muddled

Entitled(t) == [task |-> t, name |-> name[t]]

(* What a clean operation has achieved at each of its steps.               *)
Achieved(op) ==
    /\ op.kind = "create" /\ op.step = "answered" => active = op.task /\ name[op.task] = 1
    /\ op.kind = "activate" /\ op.step = "answered" => active = op.task
    /\ op.kind = "boot" /\ op.step \in {"sent", "answered"} => sessionId = NoTask
    /\ op.kind = "boot" /\ op.step = "answered" => active = op.task
    /\ Loading(op) => active = op.task /\ (op.kind = "boot" => sessionId = op.task)
    /\ op.step \in {"talk", "track"} /\ name[op.task] # 0 => title = Entitled(op.task)
    /\ op.step = "track" => talk = op.task

CleanAchieves == \A i \in Slots : ops[i].clean => Achieved(ops[i])

(* The browser is in the task of A, and what it shows belongs to that; but *)
(* for the name of a task that A has just changed.                         *)
AgreedBut(t) ==
    /\ sessionId = active
    /\ sessionId # NoTask =>
           /\ name[sessionId] # 0 => title = Entitled(sessionId) \/ sessionId = t
           /\ talk = sessionId /\ flown \subseteq {sessionId}

Agreed == AgreedBut(NoTask)

(* What a deletion or a new name leaves as it is.                          *)
Undisturbed(op) ==
    /\ op.kind = "delete" /\ op.step \in {"sent", "answered"} => Agreed
    /\ op.kind = "rename" /\ op.step = "sent" => Agreed
    /\ op.kind = "rename" /\ op.step = "answered" => AgreedBut(op.task)

Undisturbing == ~muddled => (Quiet => Agreed) /\ \A i \in Slots : Undisturbed(ops[i])

SwitchInv ==
    /\ OpsTyped /\ RecordTypes /\ NewUnnamed
    /\ CleanAlone /\ UncleanMuddled /\ CleanAchieves /\ Undisturbing

-------------------------------------------------------------------------------
(* What is known of a free slot.                                           *)
LEMMA IdleFacts ==
    /\ Idle \in Operation /\ Fits(Idle)
    /\ Idle.kind = "idle" /\ Idle.step = "idle" /\ Idle.clean /\ Idle.task = NoTask
BY DEF Idle, Operation, Kinds, Steps, Fits, Loading

(* A step of one operation finds no other that is clean, and if it leaves  *)
(* nothing muddled, no other at all.                                       *)
LEMMA OneSlot ==
    ASSUME OpsTyped, CleanAlone, UncleanMuddled,
           NEW i \in Slots, ops[i] # Idle,
           NEW new \in Operation, Fits(new), ops' = [ops EXCEPT ![i] = new],
           new # Idle /\ new.clean => ops[i].clean,
           ~new.clean => muddled',
           muddled => muddled' \/ ops[i].clean
    PROVE  /\ OpsTyped' /\ CleanAlone' /\ UncleanMuddled'
           /\ ops'[i] = new
           /\ \A j \in Slots \ {i} : ops'[j] = ops[j] /\ (ops[j] = Idle \/ ~ops[j].clean)
           /\ ~muddled' => \A j \in Slots \ {i} : ops'[j] = Idle
<1>1. ops'[i] = new /\ \A j \in Slots \ {i} : ops'[j] = ops[j]
  BY DEF OpsTyped
<1>2. \A j \in Slots \ {i} : ops[j] = Idle \/ ~ops[j].clean
  BY DEF CleanAlone
<1>3. OpsTyped'
  <2>1. ops' \in [Slots -> Operation]
    BY DEF OpsTyped
  <2>2. \A j \in Slots : Fits(ops'[j])
    BY <1>1 DEF OpsTyped
  <2> QED
    BY <2>1, <2>2 DEF OpsTyped, Fits, Loading, Idle
<1>4. CleanAlone'
  <2> SUFFICES ASSUME NEW a \in Slots, NEW b \in Slots, ops'[a] # Idle, ops'[a].clean, b # a
               PROVE  ops'[b] = Idle
    BY DEF CleanAlone, Idle
  <2>1. CASE a = i
    BY <1>1, <2>1 DEF CleanAlone
  <2>2. CASE a # i
    BY <1>1, <1>2, <2>2
  <2> QED
    BY <2>1, <2>2
<1>5. \A j \in Slots \ {i} : ~ops[j].clean => muddled'
  <2> SUFFICES ASSUME NEW j \in Slots \ {i}, ~ops[j].clean, ~muddled' PROVE FALSE
    OBVIOUS
  <2>1. muddled
    BY DEF UncleanMuddled
  <2>2. ops[i].clean
    BY <2>1
  <2>3. ops[j] = Idle
    BY <2>2 DEF CleanAlone
  <2> QED
    BY <2>3, IdleFacts
<1>6. UncleanMuddled'
  BY <1>1, <1>5 DEF UncleanMuddled
<1> QED
  BY <1>1, <1>2, <1>3, <1>4, <1>5, <1>6

(* What a step of one operation has to show.                               *)
LEMMA Concluded ==
    ASSUME NEW i \in Slots,
           \A j \in Slots \ {i} : ops'[j] = Idle \/ ~ops'[j].clean,
           ~muddled' => \A j \in Slots \ {i} : ops'[j] = Idle,
           ops'[i].clean => Achieved(ops[i])',
           ~muddled' => (ops'[i] = Idle => Agreed') /\ Undisturbed(ops[i])'
    PROVE  CleanAchieves' /\ Undisturbing'
<1>1. CleanAchieves'
  <2> SUFFICES ASSUME NEW j \in Slots, ops'[j].clean PROVE Achieved(ops[j])'
    BY DEF CleanAchieves
  <2>1. CASE j = i
    BY <2>1
  <2>2. CASE ops'[j] = Idle
    BY <2>2, IdleFacts DEF Achieved, Loading
  <2> QED
    BY <2>1, <2>2
<1>2. Undisturbing'
  <2> SUFFICES ASSUME ~muddled' PROVE (Quiet => Agreed)' /\ \A j \in Slots : Undisturbed(ops[j])'
    BY DEF Undisturbing
  <2>1. Quiet' => ops'[i] = Idle
    BY DEF Quiet, Idle
  <2>2. ASSUME NEW j \in Slots PROVE Undisturbed(ops[j])'
    <3>1. CASE j = i
      BY <3>1
    <3>2. CASE ops'[j] = Idle
      BY <3>2, IdleFacts DEF Undisturbed
    <3> QED
      BY <3>1, <3>2
  <2> QED
    BY <2>1, <2>2
<1> QED
  BY <1>1, <1>2

(* A step of one operation, the two together.                              *)
LEMMA OneStep ==
    ASSUME OpsTyped, CleanAlone, UncleanMuddled,
           NEW i \in Slots, ops[i] # Idle,
           NEW new \in Operation, Fits(new), ops' = [ops EXCEPT ![i] = new],
           new # Idle /\ new.clean => ops[i].clean,
           ~new.clean => muddled',
           muddled => muddled' \/ ops[i].clean,
           new.clean => Achieved(new)',
           ~muddled' => (new = Idle => Agreed') /\ Undisturbed(new)'
    PROVE  OpsTyped' /\ CleanAlone' /\ UncleanMuddled' /\ CleanAchieves' /\ Undisturbing'
<1>1. /\ OpsTyped' /\ CleanAlone' /\ UncleanMuddled'
      /\ ops'[i] = new
      /\ \A j \in Slots \ {i} : ops'[j] = ops[j] /\ (ops[j] = Idle \/ ~ops[j].clean)
      /\ ~muddled' => \A j \in Slots \ {i} : ops'[j] = Idle
  BY OneSlot
<1>2. /\ ops'[i].clean => Achieved(ops[i])'
      /\ ~muddled' => (ops'[i] = Idle => Agreed') /\ Undisturbed(ops[i])'
  BY <1>1 DEF Achieved, Undisturbed, Loading
<1>3. CleanAchieves' /\ Undisturbing'
  BY <1>1, <1>2, Concluded
<1> QED
  BY <1>1, <1>3

Marks == OpsTyped /\ CleanAlone /\ UncleanMuddled /\ CleanAchieves /\ Undisturbing

-------------------------------------------------------------------------------
(* A handles a request.                                                    *)
LEMMA HandleStep ==
    ASSUME SwitchInv, NEW i \in Slots, Handle(i)
    PROVE  RecordTypes' /\ NewUnnamed' /\ Marks'
<1> USE DEF SwitchInv
<1> PICK op : op = ops[i]
  OBVIOUS
<1> DEFINE kept == op.task # NoTask /\ record[op.task] = "kept"
<1>1. op \in Operation /\ Fits(op) /\ op.step = "sent" /\ op # Idle
  BY IdleFacts DEF OpsTyped, Handle
<1>2. op.kind \in Kinds /\ op.task \in TaskIds \cup {NoTask} /\ op.clean \in BOOLEAN
  BY <1>1 DEF Operation
<1>3. (op.clean => Achieved(op)) /\ (~muddled => Undisturbed(op)) /\ (~op.clean => muddled)
  BY DEF CleanAchieves, Undisturbing, UncleanMuddled
<1>4. UNCHANGED <<sessionId, title, talk, flown, muddled>>
  BY DEF Handle, shown
<1>5. CASE op.kind = "boot"
  <2> PICK new : new = [op EXCEPT !.task = active, !.step = "answered"]
    OBVIOUS
  <2>1. ops' = [ops EXCEPT ![i] = new] /\ UNCHANGED <<record, name, active>>
    BY <1>1, <1>5 DEF Handle, Put, atA
  <2>2. /\ new \in Operation /\ new.step = "answered" /\ new.task = active
        /\ new.kind = "boot" /\ new.clean = op.clean
    BY <1>1, <1>5 DEF RecordTypes, Operation, Steps
  <2>3. Fits(new) /\ Undisturbed(new)' /\ new # Idle
    BY <2>2, IdleFacts DEF Fits, Loading, Undisturbed
  <2>4. new.clean => Achieved(new)'
    BY <1>1, <1>3, <1>4, <1>5, <2>1, <2>2 DEF Achieved, Loading
  <2>5. Marks'
    BY <1>1, <1>3, <1>4, <2>1, <2>2, <2>3, <2>4, OneStep DEF Marks
  <2> QED
    BY <2>1, <2>5 DEF RecordTypes, NewUnnamed
<1>6. CASE op.kind = "create"
  <2> PICK t \in TaskIds :
          /\ record[t] = "new"
          /\ record' = [record EXCEPT ![t] = "kept"] /\ active' = t
          /\ name' = [name EXCEPT ![t] = 1]
          /\ ops' = [ops EXCEPT ![i] = [op EXCEPT !.task = t, !.step = "answered"]]
    BY <1>1, <1>6 DEF Handle, Put
  <2> PICK new : new = [op EXCEPT !.task = t, !.step = "answered"]
    OBVIOUS
  <2>1. ops' = [ops EXCEPT ![i] = new]
    OBVIOUS
  <2>2. /\ new \in Operation /\ new.step = "answered" /\ new.task = t
        /\ new.kind = "create" /\ new.clean = op.clean
    BY <1>1, <1>6 DEF Operation, Steps
  <2>3. Fits(new) /\ Undisturbed(new)' /\ new # Idle
    BY <2>2, IdleFacts DEF Fits, Loading, Undisturbed
  <2>4. new.clean => Achieved(new)'
    BY <2>2 DEF Achieved, Loading, RecordTypes
  <2>5. Marks'
    BY <1>1, <1>3, <1>4, <2>1, <2>2, <2>3, <2>4, OneStep DEF Marks
  <2> QED
    BY <2>5 DEF RecordTypes, NewUnnamed
<1>7. CASE op.kind = "activate" /\ kept
  <2> PICK new : new = [op EXCEPT !.step = "answered"]
    OBVIOUS
  <2>1. /\ ops' = [ops EXCEPT ![i] = new] /\ active' = op.task
        /\ UNCHANGED <<record, name>> /\ op.task \in TaskIds
    BY <1>1, <1>2, <1>7 DEF Handle, Put, Goto
  <2>2. /\ new \in Operation /\ new.step = "answered" /\ new.task = op.task
        /\ new.kind = "activate" /\ new.clean = op.clean
    BY <1>1, <1>7 DEF Operation, Steps
  <2>3. Fits(new) /\ Undisturbed(new)' /\ new # Idle
    BY <2>1, <2>2, IdleFacts DEF Fits, Loading, Undisturbed
  <2>4. new.clean => Achieved(new)'
    BY <2>1, <2>2 DEF Achieved, Loading
  <2>5. Marks'
    BY <1>1, <1>3, <1>4, <2>1, <2>2, <2>3, <2>4, OneStep DEF Marks
  <2> QED
    BY <2>1, <2>5 DEF RecordTypes, NewUnnamed
<1>8. CASE op.kind = "delete" /\ kept
  <2> PICK step : step = IF active = op.task THEN "orphaned" ELSE "answered"
    OBVIOUS
  <2> PICK new : new = [op EXCEPT !.step = step]
    OBVIOUS
  <2>1. /\ ops' = [ops EXCEPT ![i] = new]
        /\ record' = [record EXCEPT ![op.task] = "gone"] /\ op.task \in TaskIds
        /\ active' = IF active = op.task THEN NoTask ELSE active
        /\ UNCHANGED name
    BY <1>1, <1>2, <1>8 DEF Handle, Put, Goto
  <2>2. step \in Steps /\ step \in {"orphaned", "answered"}
    BY DEF Steps
  <2>3. /\ new \in Operation /\ new.step = step /\ new.task = op.task
        /\ new.kind = "delete" /\ new.clean = op.clean
    BY <1>1, <1>8, <2>2 DEF Operation
  <2>4. Fits(new) /\ new # Idle
    BY <2>1, <2>2, <2>3, IdleFacts DEF Fits, Loading
  <2>5. new.clean => Achieved(new)'
    BY <2>2, <2>3 DEF Achieved, Loading
  <2>6. ~muddled' => Undisturbed(new)'
    <3> SUFFICES ASSUME ~muddled, active # op.task PROVE Agreed'
      BY <1>4, <2>2, <2>3 DEF Undisturbed
    <3>1. Agreed
      BY <1>1, <1>3, <1>8 DEF Undisturbed
    <3> QED
      BY <1>4, <2>1, <3>1 DEF Agreed, AgreedBut, Entitled
  <2>7. Marks'
    BY <1>1, <1>3, <1>4, <2>1, <2>3, <2>4, <2>5, <2>6, OneStep DEF Marks
  <2> QED
    BY <2>1, <2>7 DEF RecordTypes, NewUnnamed
<1>9. CASE op.kind = "rename" /\ kept
  <2> PICK new : new = [op EXCEPT !.step = "answered"]
    OBVIOUS
  <2>1. /\ ops' = [ops EXCEPT ![i] = new]
        /\ name' = [name EXCEPT ![op.task] = @ + 1] /\ op.task \in TaskIds
        /\ UNCHANGED <<record, active>>
    BY <1>1, <1>2, <1>9 DEF Handle, Put, Goto
  <2>2. /\ new \in Operation /\ new.step = "answered" /\ new.task = op.task
        /\ new.kind = "rename" /\ new.clean = op.clean
    BY <1>1, <1>9 DEF Operation, Steps
  <2>3. Fits(new) /\ new # Idle
    BY <2>1, <2>2, IdleFacts DEF Fits, Loading
  <2>4. new.clean => Achieved(new)'
    BY <2>2 DEF Achieved, Loading
  <2>5. ~muddled' => Undisturbed(new)'
    <3> SUFFICES ASSUME ~muddled PROVE AgreedBut(op.task)'
      BY <1>4, <2>2 DEF Undisturbed, AgreedBut
    <3>1. Agreed
      BY <1>1, <1>3, <1>9 DEF Undisturbed
    <3>2. sessionId # op.task /\ sessionId # NoTask => name'[sessionId] = name[sessionId]
      BY <2>1, <3>1 DEF RecordTypes, Agreed, AgreedBut
    <3> QED
      BY <1>4, <2>1, <3>1, <3>2 DEF Agreed, AgreedBut, Entitled
  <2>6. Marks'
    BY <1>1, <1>3, <1>4, <2>1, <2>2, <2>3, <2>4, <2>5, OneStep DEF Marks
  <2> QED
    BY <1>9, <2>1, <2>6 DEF RecordTypes, NewUnnamed
<1>10. CASE /\ op.kind \notin {"boot", "create"}
            /\ ~(op.kind \in {"activate", "delete", "rename"} /\ kept)
  <2> PICK new : new = [op EXCEPT !.step = "refused"]
    OBVIOUS
  <2>1. ops' = [ops EXCEPT ![i] = new] /\ UNCHANGED <<record, name, active>>
    BY <1>1, <1>10 DEF Handle, Put, Goto, atA
  <2>2. /\ new \in Operation /\ new.step = "refused" /\ new.task = op.task
        /\ new.kind = op.kind /\ new.clean = op.clean
    BY <1>1 DEF Operation, Steps
  <2>3. Fits(new) /\ Undisturbed(new)' /\ new # Idle /\ Achieved(new)'
    BY <1>1, <2>2, IdleFacts DEF Fits, Loading, Undisturbed, Achieved
  <2>4. Marks'
    BY <1>1, <1>3, <1>4, <2>1, <2>2, <2>3, OneStep DEF Marks
  <2> QED
    BY <2>1, <2>4 DEF RecordTypes, NewUnnamed
<1> QED
  BY <1>2, <1>5, <1>6, <1>7, <1>8, <1>9, <1>10 DEF Kinds

-------------------------------------------------------------------------------
(* The operation at hand, and what the invariant says of it.               *)
LEMMA AtHand ==
    ASSUME SwitchInv, NEW i \in Slots, NEW op, op = ops[i]
    PROVE  /\ op \in Operation /\ Fits(op)
           /\ op.kind \in Kinds /\ op.task \in TaskIds \cup {NoTask} /\ op.clean \in BOOLEAN
           /\ op.step \in Steps
           /\ op.clean => Achieved(op)
           /\ ~muddled => Undisturbed(op)
           /\ ~op.clean => muddled
<1>1. op \in Operation /\ Fits(op)
  BY DEF SwitchInv, OpsTyped
<1> QED
  BY <1>1 DEF SwitchInv, Operation, CleanAchieves, Undisturbing, UncleanMuddled

(* An answer to a request that is lost, or a failure told to the user.     *)
LEMMA LoseStep ==
    ASSUME SwitchInv, NEW i \in Slots, Lose(i)
    PROVE  Marks'
<1> USE DEF SwitchInv
<1> PICK op : op = ops[i]
  OBVIOUS
<1> PICK new : new = [op EXCEPT !.step = "refused"]
  OBVIOUS
<1>1. op.step \in {"sent", "answered", "orphaned"} /\ op # Idle
  BY IdleFacts DEF Lose
<1>2. ops' = [ops EXCEPT ![i] = new] /\ muddled' = muddled
  BY DEF Lose, Goto, Put
<1>3. /\ new \in Operation /\ new.step = "refused" /\ new.task = op.task
      /\ new.kind = op.kind /\ new.clean = op.clean
  BY AtHand DEF Operation, Steps
<1>4. Fits(new) /\ Undisturbed(new)' /\ new # Idle /\ Achieved(new)'
  BY <1>1, <1>3, AtHand, IdleFacts DEF Fits, Loading, Undisturbed, Achieved
<1> QED
  BY <1>1, <1>2, <1>3, <1>4, AtHand, OneStep DEF Marks

(* A new task: everything is set to it.                                    *)
LEMMA CreatedStep ==
    ASSUME SwitchInv, NEW i \in Slots, Created(i)
    PROVE  Marks'
<1> USE DEF SwitchInv
<1> PICK op : op = ops[i]
  OBVIOUS
<1>1. op.kind = "create" /\ op.step = "answered" /\ op # Idle
  BY IdleFacts DEF Created
<1>2. /\ ops' = [ops EXCEPT ![i] = Idle] /\ muddled' = ~op.clean
      /\ sessionId' = op.task /\ title' = [task |-> op.task, name |-> 1] /\ talk' = op.task
      /\ flown' = {} /\ UNCHANGED <<record, name, active>>
  BY DEF Created, Put, Settle, atA
<1>3. ~muddled' => Agreed'
  BY <1>1, <1>2, AtHand DEF Achieved, Agreed, AgreedBut, Entitled
<1>4. Undisturbed(Idle)' /\ Achieved(Idle)'
  BY IdleFacts DEF Undisturbed, Achieved, Loading, Idle
<1> QED
  BY <1>1, <1>2, <1>3, <1>4, AtHand, OneStep, IdleFacts DEF Marks, Idle

(* A deletion ends, or goes on to a new task.                              *)
LEMMA DeletedStep ==
    ASSUME SwitchInv, NEW i \in Slots, Deleted(i)
    PROVE  Marks'
<1> USE DEF SwitchInv
<1> PICK op : op = ops[i]
  OBVIOUS
<1>1. /\ op.kind = "delete" /\ op # Idle
      /\ UNCHANGED <<record, name, active, sessionId, title, talk, flown, muddled>>
  BY IdleFacts DEF Deleted, atA, shown
<1>2. CASE op.step = "answered" /\ ops' = [ops EXCEPT ![i] = Idle]
  <2>1. ~muddled' => Agreed'
    BY <1>1, <1>2, AtHand DEF Undisturbed, Agreed, AgreedBut, Entitled
  <2>2. Undisturbed(Idle)' /\ Achieved(Idle)'
    BY IdleFacts DEF Undisturbed, Achieved, Loading, Idle
  <2> QED
    BY <1>1, <1>2, <2>1, <2>2, AtHand, OneStep, IdleFacts DEF Marks, Idle
<1>3. CASE ops' = [ops EXCEPT ![i] = Op("create", NoTask, op.clean)]
  <2> PICK new : new = Op("create", NoTask, op.clean)
    OBVIOUS
  <2>1. /\ new \in Operation /\ new.step = "sent" /\ new.task = NoTask
        /\ new.kind = "create" /\ new.clean = op.clean
    BY AtHand DEF Operation, Op, Kinds, Steps
  <2>2. Fits(new) /\ Undisturbed(new)' /\ new # Idle /\ Achieved(new)'
    BY <2>1, IdleFacts DEF Fits, Loading, Undisturbed, Achieved
  <2> QED
    BY <1>1, <1>3, <2>1, <2>2, AtHand, OneStep DEF Marks
<1> QED
  BY <1>2, <1>3 DEF Deleted, Put

(* A new name: the title follows.                                          *)
LEMMA RenamedStep ==
    ASSUME SwitchInv, NEW i \in Slots, Renamed(i)
    PROVE  Marks'
<1> USE DEF SwitchInv
<1> PICK op : op = ops[i]
  OBVIOUS
<1>1. op.kind = "rename" /\ op.step = "answered" /\ op # Idle
  BY IdleFacts DEF Renamed
<1>2. /\ ops' = [ops EXCEPT ![i] = Idle]
      /\ title' = IF sessionId = op.task THEN Entitled(op.task) ELSE title
      /\ UNCHANGED <<record, name, active, sessionId, talk, flown, muddled>>
  BY DEF Renamed, Put, atA, Entitled
<1>3. ~muddled' => Agreed'
  BY <1>1, <1>2, AtHand DEF Undisturbed, Agreed, AgreedBut, Entitled
<1>4. Undisturbed(Idle)' /\ Achieved(Idle)'
  BY IdleFacts DEF Undisturbed, Achieved, Loading, Idle
<1> QED
  BY <1>1, <1>2, <1>3, <1>4, AtHand, OneStep, IdleFacts DEF Marks, Idle

(* A task is activated, and its load begins.                               *)
LEMMA ActivatedStep ==
    ASSUME SwitchInv, NEW i \in Slots, Activated(i)
    PROVE  Marks'
<1> USE DEF SwitchInv
<1> PICK op : op = ops[i]
  OBVIOUS
<1> PICK new : new = [op EXCEPT !.step = "detail"]
  OBVIOUS
<1>1. op.kind = "activate" /\ op.step = "answered" /\ op # Idle
  BY IdleFacts DEF Activated
<1>2. /\ ops' = [ops EXCEPT ![i] = new]
      /\ UNCHANGED <<record, name, active, sessionId, title, talk, flown, muddled>>
  BY DEF Activated, Goto, Put, atA, shown
<1>3. /\ new \in Operation /\ new.step = "detail" /\ new.task = op.task
      /\ new.kind = op.kind /\ new.clean = op.clean
  BY AtHand DEF Operation, Steps
<1>4. Fits(new) /\ Undisturbed(new)' /\ new # Idle
  BY <1>1, <1>3, AtHand, IdleFacts DEF Fits, Loading, Undisturbed
<1>5. new.clean => Achieved(new)'
  BY <1>1, <1>2, <1>3, AtHand DEF Achieved, Loading
<1> QED
  BY <1>1, <1>2, <1>3, <1>4, <1>5, AtHand, OneStep DEF Marks

(* The page learns which task is the current one.                          *)
LEMMA BootedStep ==
    ASSUME SwitchInv, NEW i \in Slots, Booted(i)
    PROVE  Marks'
<1> USE DEF SwitchInv
<1> PICK op : op = ops[i]
  OBVIOUS
<1>1. /\ op.kind = "boot" /\ op.step = "answered" /\ op # Idle
      /\ UNCHANGED <<record, name, active, title, talk, flown, muddled>>
  BY IdleFacts DEF Booted, atA
<1>2. CASE op.task = NoTask
  <2>1. ops' = [ops EXCEPT ![i] = Idle] /\ sessionId' = sessionId
    BY <1>2 DEF Booted, Put
  <2>2. ~muddled' => Agreed'
    BY <1>1, <1>2, <2>1, AtHand DEF Achieved, Agreed, AgreedBut
  <2>3. Undisturbed(Idle)' /\ Achieved(Idle)'
    BY IdleFacts DEF Undisturbed, Achieved, Loading, Idle
  <2> QED
    BY <1>1, <2>1, <2>2, <2>3, AtHand, OneStep, IdleFacts DEF Marks, Idle
<1>3. CASE op.task # NoTask
  <2> PICK new : new = [op EXCEPT !.step = "detail"]
    OBVIOUS
  <2>1. ops' = [ops EXCEPT ![i] = new] /\ sessionId' = op.task
    BY <1>3 DEF Booted, Goto, Put
  <2>2. /\ new \in Operation /\ new.step = "detail" /\ new.task = op.task
        /\ new.kind = op.kind /\ new.clean = op.clean
    BY AtHand DEF Operation, Steps
  <2>3. Fits(new) /\ Undisturbed(new)' /\ new # Idle
    BY <1>1, <1>3, <2>2, AtHand, IdleFacts DEF Fits, Loading, Undisturbed
  <2>4. new.clean => Achieved(new)'
    BY <1>1, <2>1, <2>2, AtHand DEF Achieved, Loading
  <2> QED
    BY <1>1, <2>1, <2>2, <2>3, <2>4, AtHand, OneStep DEF Marks
<1> QED
  BY <1>2, <1>3

(* An operation that failed ends.                                          *)
LEMMA RefusedStep ==
    ASSUME SwitchInv, NEW i \in Slots, Refused(i)
    PROVE  Marks'
<1> USE DEF SwitchInv
<1>1. ops[i] # Idle /\ ops' = [ops EXCEPT ![i] = Idle] /\ muddled' = TRUE
  BY IdleFacts DEF Refused, Put
<1>2. Achieved(Idle)'
  BY IdleFacts DEF Achieved, Loading, Idle
<1> QED
  BY <1>1, <1>2, OneStep, IdleFacts DEF Marks, Idle

(* The three requests of a load.                                           *)
LEMMA LoadDetailStep ==
    ASSUME SwitchInv, NEW i \in Slots, LoadDetail(i)
    PROVE  Marks'
<1> USE DEF SwitchInv
<1> PICK op : op = ops[i]
  OBVIOUS
<1>1. /\ op.step = "detail" /\ op # Idle
      /\ UNCHANGED <<record, name, active, sessionId, talk, flown>>
  BY IdleFacts DEF LoadDetail, atA
<1>2. CASE /\ ops' = [ops EXCEPT ![i] = [op EXCEPT !.step = "talk"]]
           /\ title' = IF name[op.task] = 0 THEN title ELSE Entitled(op.task)
           /\ muddled' = muddled
  <2> PICK new : new = [op EXCEPT !.step = "talk"]
    OBVIOUS
  <2>1. /\ new \in Operation /\ new.step = "talk" /\ new.task = op.task
        /\ new.kind = op.kind /\ new.clean = op.clean
    BY AtHand DEF Operation, Steps
  <2>2. Fits(new) /\ Undisturbed(new)' /\ new # Idle
    BY <1>1, <2>1, AtHand, IdleFacts DEF Fits, Loading, Undisturbed
  <2>3. new.clean => Achieved(new)'
    BY <1>1, <1>2, <2>1, AtHand DEF Achieved, Loading, Entitled, Fits
  <2> QED
    BY <1>1, <1>2, <2>1, <2>2, <2>3, AtHand, OneStep DEF Marks
<1>3. CASE /\ ops' = [ops EXCEPT ![i] = [op EXCEPT !.step = "talk", !.clean = FALSE]]
           /\ muddled' = TRUE
  <2> PICK new : new = [op EXCEPT !.step = "talk", !.clean = FALSE]
    OBVIOUS
  <2>1. /\ new \in Operation /\ new.step = "talk" /\ new.task = op.task
        /\ new.kind = op.kind /\ ~new.clean
    <3>1. op \in Operation
      BY AtHand
    <3> QED
      BY <3>1 DEF Operation, Steps
  <2>2. Fits(new) /\ new # Idle
    BY <1>1, <2>1, AtHand, IdleFacts DEF Fits, Loading
  <2> QED
    BY <1>1, <1>3, <2>1, <2>2, OneStep DEF Marks
<1> QED
  BY <1>2, <1>3 DEF LoadDetail, Goto, Put, Entitled

(* The second of them.                                                     *)
LEMMA LoadTalkStep ==
    ASSUME SwitchInv, NEW i \in Slots, LoadTalk(i)
    PROVE  Marks'
<1> USE DEF SwitchInv
<1> PICK op : op = ops[i]
  OBVIOUS
<1>1. /\ op.step = "talk" /\ op # Idle
      /\ UNCHANGED <<record, name, active, sessionId, title, flown>>
  BY IdleFacts DEF LoadTalk, atA
<1>2. CASE /\ ops' = [ops EXCEPT ![i] = [op EXCEPT !.step = "track"]]
           /\ talk' = op.task /\ muddled' = muddled
  <2> PICK new : new = [op EXCEPT !.step = "track"]
    OBVIOUS
  <2>1. /\ new \in Operation /\ new.step = "track" /\ new.task = op.task
        /\ new.kind = op.kind /\ new.clean = op.clean
    BY AtHand DEF Operation, Steps
  <2>2. Fits(new) /\ Undisturbed(new)' /\ new # Idle
    BY <1>1, <2>1, AtHand, IdleFacts DEF Fits, Loading, Undisturbed
  <2>3. new.clean => Achieved(new)'
    BY <1>1, <1>2, <2>1, AtHand DEF Achieved, Loading, Entitled, Fits
  <2> QED
    BY <1>1, <1>2, <2>1, <2>2, <2>3, AtHand, OneStep DEF Marks
<1>3. CASE /\ ops' = [ops EXCEPT ![i] = [op EXCEPT !.step = "track", !.clean = FALSE]]
           /\ muddled' = TRUE
  <2> PICK new : new = [op EXCEPT !.step = "track", !.clean = FALSE]
    OBVIOUS
  <2>1. /\ new \in Operation /\ new.step = "track" /\ new.task = op.task
        /\ new.kind = op.kind /\ ~new.clean
    <3>1. op \in Operation
      BY AtHand
    <3> QED
      BY <3>1 DEF Operation, Steps
  <2>2. Fits(new) /\ new # Idle
    BY <1>1, <2>1, AtHand, IdleFacts DEF Fits, Loading
  <2> QED
    BY <1>1, <1>3, <2>1, <2>2, OneStep DEF Marks
<1> QED
  BY <1>2, <1>3 DEF LoadTalk, Goto, Put

(* The last of them, after which the page is told.                         *)
LEMMA LoadTrackStep ==
    ASSUME SwitchInv, NEW i \in Slots, LoadTrack(i)
    PROVE  Marks'
<1> USE DEF SwitchInv
<1> PICK op : op = ops[i]
  OBVIOUS
<1>1. /\ op.step = "track" /\ op # Idle /\ op.task \in TaskIds
      /\ UNCHANGED <<record, name, active, title, talk>>
  BY AtHand, IdleFacts DEF LoadTrack, atA, Fits, Loading
<1>2. /\ ops' = [ops EXCEPT ![i] = Idle]
      /\ sessionId' = IF op.kind = "activate" THEN op.task ELSE sessionId
  BY DEF LoadTrack, Restored, Put
<1>3. muddled' \/ (op.clean /\ flown' = {op.task})
  BY AtHand DEF LoadTrack, Restored
<1>4. ~muddled' => Agreed'
  BY <1>1, <1>2, <1>3, AtHand
     DEF Achieved, Loading, Fits, Kinds, Agreed, AgreedBut, Entitled
<1>5. Undisturbed(Idle)' /\ Achieved(Idle)'
  BY IdleFacts DEF Undisturbed, Achieved, Loading, Idle
<1> QED
  BY <1>1, <1>2, <1>3, <1>4, <1>5, AtHand, OneStep, IdleFacts DEF Marks, Idle

-------------------------------------------------------------------------------
(* An operation that is disturbed is the same but for that.                *)
LEMMA Spoilt ==
    ASSUME NEW old \in Operation, Fits(old), old # Idle,
           NEW new, new = [old EXCEPT !.clean = FALSE]
    PROVE  new \in Operation /\ Fits(new) /\ ~new.clean
<1>1. /\ new \in Operation /\ ~new.clean
      /\ new.kind = old.kind /\ new.task = old.task /\ new.step = old.step
  BY DEF Operation
<1> QED
  BY <1>1 DEF Fits, Loading

(* The user begins an operation: any other is disturbed by it.             *)
LEMMA BeginStep ==
    ASSUME SwitchInv, NEW kind \in {"create", "activate", "delete", "rename"},
           NEW t \in TaskIds \cup {NoTask}, kind = "create" \/ t \in TaskIds, Begin(kind, t)
    PROVE  Marks'
<1> USE DEF SwitchInv
<1> PICK i \in Slots :
        /\ ops[i] = Idle
        /\ ops' = [j \in Slots |->
                      IF j = i THEN Op(kind, t, Quiet)
                      ELSE IF ops[j] = Idle THEN Idle
                      ELSE [ops[j] EXCEPT !.clean = FALSE]]
  BY DEF Begin
<1>1. /\ muddled' = (muddled \/ ~Quiet)
      /\ UNCHANGED <<record, name, active, sessionId, title, talk, flown>>
  BY DEF Begin, atA, shown
<1> PICK new : new = ops'[i]
  OBVIOUS
<1>2. /\ new \in Operation /\ new.step = "sent" /\ new.task = t
      /\ new.kind = kind /\ new.clean = Quiet
  <2>1. new = Op(kind, t, Quiet)
    OBVIOUS
  <2>2. Quiet \in BOOLEAN
    BY DEF Quiet
  <2> QED
    BY <2>1, <2>2 DEF Op, Operation, Kinds, Steps
<1>3. Fits(new) /\ new # Idle /\ Achieved(new)'
  BY <1>2, IdleFacts DEF Fits, Loading, Achieved
<1>4. ASSUME NEW j \in Slots \ {i}
      PROVE  /\ ops'[j] \in Operation /\ Fits(ops'[j])
             /\ ops'[j] = Idle \/ ~ops'[j].clean
             /\ Quiet => ops'[j] = Idle
  <2>1. CASE ops[j] = Idle
    BY <2>1, IdleFacts
  <2>2. CASE ops[j] # Idle
    <3> PICK op : op = [ops[j] EXCEPT !.clean = FALSE]
      OBVIOUS
    <3>1. op \in Operation /\ Fits(op) /\ ~op.clean
      BY <2>2, Spoilt DEF OpsTyped
    <3>2. ops'[j] = op
      BY <2>2
    <3> QED
      BY <2>2, <3>1, <3>2 DEF Quiet
  <2> QED
    BY <2>1, <2>2
<1>5. OpsTyped'
  <2>1. ops' \in [Slots -> Operation]
    BY <1>2, <1>4
  <2>2. \A j \in Slots : Fits(ops'[j])
    BY <1>3, <1>4
  <2> QED
    BY <2>1, <2>2 DEF OpsTyped, Fits, Loading, Idle
<1>6. CleanAlone'
  BY <1>2, <1>4 DEF CleanAlone, Idle
<1>7. UncleanMuddled'
  BY <1>1, <1>2, <1>4, IdleFacts DEF UncleanMuddled
<1>8. CleanAchieves' /\ Undisturbing'
  <2>1. ~muddled' => Agreed'
    BY <1>1 DEF Undisturbing, Agreed, AgreedBut, Entitled
  <2>2. ~muddled' => (ops'[i] = Idle => Agreed') /\ Undisturbed(ops[i])'
    BY <1>2, <1>3, <2>1 DEF Undisturbed
  <2>3. ops'[i].clean => Achieved(ops[i])'
    BY <1>2 DEF Achieved, Loading
  <2>4. ~muddled' => \A j \in Slots \ {i} : ops'[j] = Idle
    BY <1>1, <1>4
  <2> QED
    BY <1>4, <2>2, <2>3, <2>4, Concluded
<1> QED
  BY <1>5, <1>6, <1>7, <1>8 DEF Marks

(* A task, or a name of one, that the browser is not told of: all that is  *)
(* under way is disturbed.                                                 *)
LEMMA UntoldStep ==
    ASSUME SwitchInv, NEW t \in TaskIds, Untold(t) \/ Named(t)
    PROVE  RecordTypes' /\ NewUnnamed' /\ Marks'
<1> USE DEF SwitchInv
<1>1. RecordTypes' /\ NewUnnamed'
  BY DEF RecordTypes, NewUnnamed, Untold, Named
<1>2. /\ muddled' = TRUE
      /\ ops' = [i \in Slots |->
                    IF ops[i] = Idle THEN Idle ELSE [ops[i] EXCEPT !.clean = FALSE]]
  BY DEF Untold, Named, Unseen
<1>3. ASSUME NEW j \in Slots
      PROVE  /\ ops'[j] \in Operation /\ Fits(ops'[j])
             /\ ops'[j] = Idle \/ ~ops'[j].clean
  <2>1. CASE ops[j] = Idle
    BY <1>2, <2>1, IdleFacts
  <2>2. CASE ops[j] # Idle
    <3> PICK op : op = [ops[j] EXCEPT !.clean = FALSE]
      OBVIOUS
    <3>1. op \in Operation /\ Fits(op) /\ ~op.clean
      BY <2>2, Spoilt DEF OpsTyped
    <3>2. ops'[j] = op
      BY <1>2, <2>2
    <3> QED
      BY <3>1, <3>2
  <2> QED
    BY <2>1, <2>2
<1>4. OpsTyped'
  <2>1. ops' \in [Slots -> Operation]
    BY <1>2, <1>3
  <2>2. \A j \in Slots : Fits(ops'[j])
    BY <1>3
  <2> QED
    BY <2>1, <2>2 DEF OpsTyped, Fits, Loading, Idle
<1>5. CleanAlone' /\ UncleanMuddled'
  BY <1>2, <1>3 DEF CleanAlone, UncleanMuddled, Idle
<1>6. CleanAchieves'
  <2> SUFFICES ASSUME NEW j \in Slots, ops'[j].clean PROVE Achieved(ops[j])'
    BY DEF CleanAchieves
  <2>1. ops'[j] = Idle
    BY <1>3
  <2> QED
    BY <2>1, IdleFacts DEF Achieved, Loading
<1> QED
  BY <1>1, <1>2, <1>4, <1>5, <1>6 DEF Marks, Undisturbing

(* The page as it is loaded: one operation, which asks for the current     *)
(* task.                                                                   *)
LEMMA PageLoaded == ops = Booting /\ sessionId = NoTask => Marks
<1> SUFFICES ASSUME ops = Booting, sessionId = NoTask PROVE Marks
  OBVIOUS
<1>1. 1 \in Slots
  BY DEF Slots
<1>2. Booting[1] = Op("boot", NoTask, TRUE) /\ \A j \in Slots \ {1} : Booting[j] = Idle
  BY <1>1 DEF Booting
<1> PICK op : op = Op("boot", NoTask, TRUE)
  OBVIOUS
<1>3. /\ op \in Operation /\ op.kind = "boot" /\ op.task = NoTask /\ op.step = "sent"
      /\ op.clean = TRUE
  BY DEF Op, Operation, Kinds, Steps
<1>4. Fits(op) /\ op # Idle /\ Achieved(op) /\ Undisturbed(op)
  BY <1>3, IdleFacts DEF Fits, Loading, Achieved, Undisturbed
<1>5. Achieved(Idle) /\ Undisturbed(Idle)
  BY IdleFacts DEF Achieved, Loading, Undisturbed
<1>6. OpsTyped
  <2>1. ops \in [Slots -> Operation]
    BY <1>2, <1>3, IdleFacts DEF Booting
  <2> QED
    BY <1>2, <1>4, <2>1, IdleFacts DEF OpsTyped
<1>7. CleanAlone /\ UncleanMuddled
  BY <1>1, <1>2, <1>3, IdleFacts DEF CleanAlone, UncleanMuddled
<1>8. CleanAchieves /\ Undisturbing
  <2>1. ~Quiet
    BY <1>1, <1>2, <1>4 DEF Quiet
  <2> QED
    BY <1>2, <1>4, <1>5, <2>1 DEF CleanAchieves, Undisturbing
<1> QED
  BY <1>6, <1>7, <1>8 DEF Marks

(* Neither a step of the list nor a pose concerns a switch.                *)
LEMMA Elsewhere ==
    ASSUME SwitchInv, UNCHANGED <<record, name, active, sessionId, title, talk, ops, muddled>>,
           flown' = flown \/ flown' = flown \cup {active}
    PROVE  SwitchInv'
<1> USE DEF SwitchInv
<1>1. OpsTyped' /\ RecordTypes' /\ NewUnnamed' /\ CleanAlone' /\ UncleanMuddled'
  BY DEF OpsTyped, RecordTypes, NewUnnamed, CleanAlone, UncleanMuddled
<1>2. \A t : Entitled(t)' = Entitled(t)
  BY DEF Entitled
<1>3. CleanAchieves'
  BY <1>2 DEF CleanAchieves, Achieved, Loading, Entitled
<1>4. \A t : AgreedBut(t) => AgreedBut(t)'
  BY DEF AgreedBut, Entitled
<1>5. Undisturbing'
  BY <1>4 DEF Undisturbing, Undisturbed, Quiet, Agreed
<1> QED
  BY <1>1, <1>3, <1>5

(* The invariant of the switch.                                            *)
LEMMA SwitchInvInductive == Spec => []SwitchInv
<1>1. Init => SwitchInv
  <2> SUFFICES ASSUME Init PROVE SwitchInv
    OBVIOUS
  <2>1. RecordTypes /\ NewUnnamed
    BY DEF Init, RecordTypes, NewUnnamed
  <2>2. Marks
    BY PageLoaded DEF Init
  <2> QED
    BY <2>1, <2>2 DEF SwitchInv, Marks
<1>2. SwitchInv /\ [Next]_vars => SwitchInv'
  <2> SUFFICES ASSUME SwitchInv, [Next]_vars PROVE SwitchInv'
    OBVIOUS
  <2>1. ASSUME UNCHANGED <<record, name, active>>, Marks' PROVE SwitchInv'
    BY <2>1 DEF SwitchInv, Marks, RecordTypes, NewUnnamed
  <2>2. CASE Create
    BY <2>1, <2>2, BeginStep DEF Create, Begin, atA
  <2>3. CASE \E t \in TaskIds : Activate(t) \/ Delete(t) \/ Rename(t)
    <3> PICK t \in TaskIds : Activate(t) \/ Delete(t) \/ Rename(t)
      BY <2>3
    <3>1. \E kind \in {"activate", "delete", "rename"} : Begin(kind, t)
      BY DEF Activate, Delete, Rename
    <3> QED
      BY <2>1, <3>1, BeginStep DEF Begin, atA
  <2>4. CASE OpenPanel \/ ClosePanel \/ ListAnswer \/ ListFails \/ Pose
    BY <2>4, Elsewhere DEF OpenPanel, ClosePanel, ListAnswer, ListFails, Pose, atA, shown
  <2>5. CASE Reload
    <3>1. (ops = Booting /\ sessionId = NoTask => Marks)'
      BY PageLoaded, PTL
    <3>2. Booting' = Booting
      BY DEF Booting
    <3>3. Marks'
      BY <2>5, <3>1, <3>2 DEF Reload
    <3> QED
      BY <2>1, <2>5, <3>3 DEF Reload, atA
  <2>6. CASE \E i \in Slots : Handle(i) \/ Lose(i)
    <3> PICK i \in Slots : Handle(i) \/ Lose(i)
      BY <2>6
    <3>1. CASE Handle(i)
      BY <3>1, HandleStep DEF SwitchInv, Marks
    <3>2. CASE Lose(i)
      BY <2>1, <3>2, LoseStep DEF Lose, atA
    <3> QED
      BY <3>1, <3>2
  <2>7. CASE \E t \in TaskIds : Untold(t) \/ Named(t)
    BY <2>7, UntoldStep DEF SwitchInv, Marks
  <2>8. ASSUME NEW i \in Slots,
               \/ Created(i) \/ Deleted(i) \/ Renamed(i) \/ Activated(i) \/ Booted(i)
               \/ Refused(i) \/ LoadDetail(i) \/ LoadTalk(i) \/ LoadTrack(i)
        PROVE  SwitchInv'
    <3>1. Marks'
      BY <2>8, CreatedStep, DeletedStep, RenamedStep, ActivatedStep, BootedStep, RefusedStep,
         LoadDetailStep, LoadTalkStep, LoadTrackStep
    <3>2. UNCHANGED <<record, name, active>>
      BY <2>8 DEF Created, Deleted, Renamed, Activated, Booted, Refused, LoadDetail, LoadTalk,
                  LoadTrack, atA
    <3> QED
      BY <2>1, <3>1, <3>2
  <2>9. CASE UNCHANGED vars
    BY <2>9, Elsewhere DEF vars, atA, shown
  <2> QED
    BY <2>2, <2>3, <2>4, <2>5, <2>6, <2>7, <2>8, <2>9 DEF Next, User, Answer, BackendA
<1> QED
  BY <1>1, <1>2, PTL DEF Spec

(* When nothing is under way and no switch overlapped another or failed,   *)
(* the browser is in the task that A writes to, and shows its conversation *)
(* and its flown way, and its name if it has one, whatever was renamed,    *)
(* deleted or created before.                                              *)
THEOREM TaskIsShown == Spec => []TaskShown
<1>1. SwitchInv => TaskShown
  BY DEF SwitchInv, Undisturbing, Agreed, AgreedBut, TaskShown, Entitled
<1> QED
  BY <1>1, SwitchInvInductive, PTL

-------------------------------------------------------------------------------
(* Type correctness.                                                       *)
ShownTypes ==
    /\ sessionId \in TaskIds \cup {NoTask}
    /\ title \in [task : TaskIds \cup {NoTask}, name : Nat]
    /\ talk \in TaskIds \cup {NoTask}
    /\ flown \subseteq TaskIds \cup {NoTask}

ListTypes ==
    /\ list \in [rows : SUBSET [task : TaskIds, name : Nat], mark : TaskIds \cup {NoTask}]
    /\ lists \in Nat /\ panel \in BOOLEAN /\ crossed \in BOOLEAN

CountTypes == muddled \in BOOLEAN /\ fails \in Nat /\ acts \in Nat

(* What is shown keeps its types: every title is that of a task.           *)
LEMMA ShownStep ==
    ASSUME ShownTypes, SwitchInv, [Next]_vars
    PROVE  ShownTypes'
<1> USE DEF ShownTypes
<1>1. active \in TaskIds \cup {NoTask} /\ name \in [TaskIds -> Nat]
  BY DEF SwitchInv, RecordTypes
<1>2. CASE UNCHANGED shown \/ Pose
  BY <1>1, <1>2 DEF Pose, shown
<1>3. CASE Reload
  BY <1>3 DEF Reload
<1>4. ASSUME NEW i \in Slots,
             Created(i) \/ Renamed(i) \/ Booted(i) \/ LoadDetail(i) \/ LoadTalk(i) \/ LoadTrack(i)
      PROVE  ShownTypes'
  <2>1. ops[i].task \in TaskIds \cup {NoTask}
    BY AtHand
  <2>2. Renamed(i) \/ LoadDetail(i) => ops[i].task \in TaskIds
    BY AtHand DEF Renamed, LoadDetail, Fits, Loading
  <2>3. CASE Created(i)
    BY <2>1, <2>3 DEF Created
  <2>4. CASE Renamed(i)
    BY <1>1, <2>2, <2>4 DEF Renamed
  <2>5. CASE Booted(i)
    BY <2>1, <2>5 DEF Booted
  <2>6. CASE LoadDetail(i)
    BY <1>1, <2>2, <2>6 DEF LoadDetail
  <2>7. CASE LoadTalk(i)
    BY <2>1, <2>7 DEF LoadTalk
  <2>8. CASE LoadTrack(i)
    BY <2>1, <2>8 DEF LoadTrack, Restored
  <2> QED
    BY <1>4, <2>3, <2>4, <2>5, <2>6, <2>7, <2>8
<1>5. ASSUME \/ \E kind, t : Begin(kind, t)
             \/ OpenPanel \/ ClosePanel \/ ListAnswer \/ ListFails
             \/ \E t \in TaskIds : Untold(t) \/ Named(t)
      PROVE  UNCHANGED shown
  BY <1>5 DEF Begin, OpenPanel, ClosePanel, ListAnswer, ListFails, Untold, Named, Unseen
<1>6. ASSUME NEW i \in Slots, Handle(i) \/ Lose(i) \/ Deleted(i) \/ Activated(i) \/ Refused(i)
      PROVE  UNCHANGED shown
  BY <1>6 DEF Handle, Lose, Deleted, Activated, Refused
<1>7. CASE UNCHANGED vars
  BY <1>2, <1>7 DEF vars
<1> QED
  BY <1>2, <1>3, <1>4, <1>5, <1>6, <1>7
     DEF Next, User, Answer, BackendA, Create, Activate, Delete, Rename

(* The list keeps its types: its rows are tasks with their names.          *)
LEMMA ListTypeStep ==
    ASSUME ListTypes, ShownTypes, SwitchInv, [Next]_vars
    PROVE  ListTypes'
<1> USE DEF ListTypes
<1>1. Rows \subseteq [task : TaskIds, name : Nat]
  BY DEF Rows, SwitchInv, RecordTypes
<1>2. ASSUME NEW open \in BOOLEAN, NEW t \in TaskIds \cup {NoTask}, ListAsk(open, t),
             UNCHANGED panel
      PROVE  ListTypes'
  BY <1>2 DEF ListAsk
<1>3. CASE UNCHANGED lines
  BY <1>3 DEF lines
<1>4. CASE OpenPanel \/ ClosePanel \/ Reload
  <2>1. CASE OpenPanel
    BY <2>1 DEF OpenPanel, ListAsk, ShownTypes
  <2>2. CASE ClosePanel
    BY <2>2 DEF ClosePanel
  <2>3. CASE Reload
    BY <2>3 DEF Reload
  <2> QED
    BY <1>4, <2>1, <2>2, <2>3
<1>5. CASE ListAnswer \/ ListFails
  <2>1. CASE ListAnswer
    <3>1. PICK rows \in {Rows, list.rows} :
              list' = [rows |-> rows, mark |-> IF panel THEN sessionId ELSE list.mark]
      BY <2>1 DEF ListAnswer
    <3>2. list' \in [rows : SUBSET [task : TaskIds, name : Nat], mark : TaskIds \cup {NoTask}]
      BY <1>1, <3>1 DEF ShownTypes
    <3> QED
      BY <2>1, <3>2 DEF ListAnswer
  <2>2. CASE ListFails
    BY <2>2 DEF ListFails, ShownTypes
  <2> QED
    BY <1>5, <2>1, <2>2
<1>6. CASE \E t \in TaskIds : Untold(t) \/ Named(t)
  BY <1>6 DEF Untold, Named, Unseen
<1>7. ASSUME NEW i \in Slots,
             \/ Created(i) \/ Deleted(i) \/ Renamed(i) \/ Booted(i) \/ Refused(i)
             \/ LoadTrack(i)
      PROVE  ListTypes'
  <2>1. ops[i].task \in TaskIds \cup {NoTask} /\ sessionId \in TaskIds \cup {NoTask}
    BY AtHand DEF ShownTypes
  <2>2. CASE UNCHANGED panel /\ \E t \in TaskIds \cup {NoTask} : ListAsk(panel, t)
    BY <1>2, <2>2
  <2>3. CASE UNCHANGED <<panel, list, lists>> /\ crossed' \in BOOLEAN
    BY <2>3
  <2> QED
    BY <1>7, <2>1, <2>2, <2>3
       DEF Created, Deleted, Renamed, Booted, Refused, LoadTrack, Restored
<1> QED
  BY <1>3, <1>4, <1>5, <1>6, <1>7
     DEF Next, User, Answer, BackendA, Create, Activate, Delete, Rename, Begin, Handle, Lose,
         Activated, LoadDetail, LoadTalk, Pose, vars, lines

(* The counters keep their types.                                          *)
LEMMA CountStep ==
    ASSUME CountTypes, SwitchInv, [Next]_vars
    PROVE  CountTypes'
<1> USE DEF CountTypes
<1>1. CASE \E kind, t : Begin(kind, t)
  BY <1>1 DEF Begin, Acts
<1>2. CASE OpenPanel \/ ClosePanel \/ Reload \/ Pose \/ ListAnswer \/ ListFails
  <2>1. CASE OpenPanel \/ ClosePanel \/ Reload \/ Pose \/ ListAnswer
    BY <2>1 DEF OpenPanel, ClosePanel, Reload, Pose, ListAnswer, bounds
  <2>2. CASE ListFails
    BY <2>2 DEF ListFails, Fails
  <2> QED
    BY <1>2, <2>1, <2>2
<1>3. CASE \E i \in Slots : Handle(i) \/ Lose(i)
  <2> PICK i \in Slots : Handle(i) \/ Lose(i)
    BY <1>3
  <2>1. CASE Handle(i)
    BY <2>1 DEF Handle, bounds
  <2>2. CASE Lose(i)
    BY <2>2 DEF Lose, Fails
  <2> QED
    BY <2>1, <2>2
<1>4. CASE \E t \in TaskIds : Untold(t) \/ Named(t)
  BY <1>4 DEF Untold, Named, Unseen, bounds
<1>5. ASSUME NEW i \in Slots,
             \/ Created(i) \/ Deleted(i) \/ Renamed(i) \/ Activated(i) \/ Booted(i) \/ Refused(i)
             \/ LoadDetail(i) \/ LoadTalk(i) \/ LoadTrack(i)
      PROVE  CountTypes'
  <2>1. ops[i].clean \in BOOLEAN
    BY AtHand
  <2>2. CASE Created(i) \/ Deleted(i) \/ Renamed(i) \/ Activated(i) \/ Booted(i) \/ Refused(i)
    BY <2>1, <2>2 DEF Created, Deleted, Renamed, Activated, Booted, Refused, Settle, bounds
  <2>3. CASE LoadDetail(i) \/ LoadTalk(i) \/ LoadTrack(i)
    <3>1. Fails \/ UNCHANGED bounds
      BY <2>3 DEF LoadDetail, LoadTalk, LoadTrack
    <3>2. fails' \in Nat /\ acts' \in Nat
      BY <3>1 DEF Fails, bounds
    <3>3. muddled' \in {muddled, TRUE, ~ops[i].clean, ~FALSE}
      BY <2>3 DEF LoadDetail, LoadTalk, LoadTrack, Restored
    <3> QED
      BY <2>1, <3>2, <3>3
  <2> QED
    BY <1>5, <2>2, <2>3
<1>6. CASE UNCHANGED vars
  BY <1>6 DEF vars, bounds
<1> QED
  BY <1>1, <1>2, <1>3, <1>4, <1>5, <1>6
     DEF Next, User, Answer, BackendA, Create, Activate, Delete, Rename

(* Every variable of the switch has its type: a title is that of a task,   *)
(* the rows of the panel are tasks.                                        *)
THEOREM TasksTypeCorrect == Spec => []TypeOK
<1> DEFINE Inv == ShownTypes /\ ListTypes /\ CountTypes
<1>1. Init => Inv
  <2> SUFFICES ASSUME Init PROVE Inv
    OBVIOUS
  <2>1. ShownTypes
    BY DEF Init, ShownTypes
  <2>2. ListTypes
    BY DEF Init, ListTypes
  <2>3. CountTypes
    BY DEF Init, CountTypes
  <2> QED
    BY <2>1, <2>2, <2>3
<1>2. Inv /\ SwitchInv /\ [Next]_vars => Inv'
  BY ShownStep, ListTypeStep, CountStep
<1>3. Inv /\ SwitchInv => TypeOK
  BY DEF TypeOK, ShownTypes, ListTypes, CountTypes, SwitchInv, RecordTypes
<1> HIDE DEF Inv
<1> QED
  BY <1>1, <1>2, <1>3, SwitchInvInductive, PTL DEF Spec

-------------------------------------------------------------------------------
(* The list.  What was under way when the page was loaded refreshes no     *)
(* list when it ends, the mark of an open list is the current task, and    *)
(* its rows are those of A.                                                *)
BootCrosses == panel /\ (\E i \in Slots : ops[i].kind = "boot") => crossed
MarkCurrent == panel /\ ~crossed => list.mark = sessionId
RowsFresh == panel /\ ~crossed /\ Quiet /\ lists = 0 => list.rows = Rows

ListInv == BootCrosses /\ MarkCurrent /\ RowsFresh

(* No step but the loading of the page begins with such an operation.      *)
LEMMA NoNewBoot ==
    ASSUME SwitchInv, [Next]_vars, ~Reload, NEW j \in Slots, ops'[j].kind = "boot"
    PROVE  ops[j].kind = "boot"
<1>1. /\ Idle.kind = "idle" /\ ops \in [Slots -> Operation]
      /\ \A t, c : Op("create", t, c).kind = "create"
  BY IdleFacts DEF SwitchInv, OpsTyped, Op
<1>3. \A i \in Slots : [ops[i] EXCEPT !.clean = FALSE].kind = ops[i].kind
  BY <1>1 DEF Operation
<1>4. ASSUME NEW i \in Slots, NEW s, Goto(i, s) PROVE ops[j].kind = "boot"
  BY <1>1, <1>4 DEF Goto, Put, Operation
<1>5. ASSUME NEW i \in Slots, NEW s, NEW c, Put(i, [ops[i] EXCEPT !.step = s, !.clean = c])
      PROVE  ops[j].kind = "boot"
  BY <1>1, <1>5 DEF Put, Operation
<1>6. ASSUME NEW i \in Slots, NEW s, NEW t, Put(i, [ops[i] EXCEPT !.task = t, !.step = s])
      PROVE  ops[j].kind = "boot"
  BY <1>1, <1>6 DEF Put, Operation
<1>7. ASSUME NEW i \in Slots, NEW c, Put(i, Idle) \/ Put(i, Op("create", NoTask, c))
      PROVE  ops[j].kind = "boot"
  BY <1>1, <1>7 DEF Put
<1>8. CASE UNCHANGED ops
  BY <1>8
<1>9. CASE \E t \in TaskIds : Untold(t) \/ Named(t)
  BY <1>1, <1>3, <1>9 DEF Untold, Named, Unseen
<1>10. ASSUME NEW kind \in {"create", "activate", "delete", "rename"}, NEW t, Begin(kind, t)
       PROVE  ops[j].kind = "boot"
  BY <1>1, <1>3, <1>10 DEF Begin, Op
<1>11. CASE Create \/ \E t \in TaskIds : Activate(t) \/ Delete(t) \/ Rename(t)
  BY <1>10, <1>11 DEF Create, Activate, Delete, Rename
<1>12. ASSUME NEW i \in Slots, Handle(i) PROVE ops[j].kind = "boot"
  <2>1. CASE ops[i].kind = "boot"
    BY <1>6, <1>12, <2>1 DEF Handle
  <2>2. CASE ops[i].kind = "create"
    BY <1>6, <1>12, <2>2 DEF Handle
  <2>3. CASE ops[i].kind \notin {"boot", "create"}
    BY <1>4, <1>12, <2>3 DEF Handle
  <2> QED
    BY <2>1, <2>2, <2>3
<1>13. ASSUME NEW i \in Slots, Lose(i) \/ Activated(i) \/ Booted(i)
       PROVE  ops[j].kind = "boot"
  BY <1>4, <1>7, <1>13 DEF Lose, Activated, Booted
<1>14. ASSUME NEW i \in Slots, LoadDetail(i) \/ LoadTalk(i)
       PROVE  ops[j].kind = "boot"
  BY <1>4, <1>5, <1>14 DEF LoadDetail, LoadTalk
<1>15. ASSUME NEW i \in Slots,
              Created(i) \/ Deleted(i) \/ Renamed(i) \/ Refused(i) \/ LoadTrack(i)
       PROVE  ops[j].kind = "boot"
  BY <1>7, <1>15 DEF Created, Deleted, Renamed, Refused, LoadTrack, Restored
<1> QED
  BY <1>8, <1>9, <1>11, <1>12, <1>13, <1>14, <1>15
     DEF Next, User, Answer, BackendA, OpenPanel, ClosePanel, ListAnswer, ListFails, Pose, vars

(* A refresh is under way, and the mark is set: nothing else is said.      *)
LEMMA AskStep ==
    ASSUME TypeOK, SwitchInv, [Next]_vars, ~Reload, NEW t \in TaskIds \cup {NoTask},
           ListAsk(panel', t), sessionId' = t
    PROVE  ListInv'
<1>1. /\ lists' # 0 /\ crossed' = (lists > 0 \/ \E i \in Slots : ops[i].kind = "boot")
      /\ panel' => list'.mark = t
  BY DEF ListAsk, TypeOK
<1>2. BootCrosses'
  BY <1>1, NoNewBoot DEF BootCrosses, Slots
<1> QED
  BY <1>1, <1>2 DEF ListInv, MarkCurrent, RowsFresh

(* A step that leaves the list alone, and an operation under way.          *)
LEMMA BusyStep ==
    ASSUME ListInv, SwitchInv, [Next]_vars, ~Reload,
           UNCHANGED <<panel, list, crossed, sessionId>>, ~Quiet'
    PROVE  ListInv'
<1>1. BootCrosses'
  BY NoNewBoot DEF ListInv, BootCrosses, Slots
<1> QED
  BY <1>1 DEF ListInv, MarkCurrent, RowsFresh

(* A change that the list does not follow, or a closed panel.              *)
LEMMA CrossedStep ==
    ASSUME panel' => crossed'
    PROVE  ListInv'
BY DEF ListInv, BootCrosses, MarkCurrent, RowsFresh

(* Every step keeps what is said of the list.                              *)
LEMMA ListStep ==
    ASSUME TypeOK, SwitchInv, ListInv, [Next]_vars
    PROVE  ListInv'
<1>1. CASE ClosePanel \/ Reload
  BY <1>1, CrossedStep DEF ClosePanel, Reload
<1> SUFFICES ASSUME ~Reload PROVE ListInv'
  BY <1>1
<1>2. /\ ops \in [Slots -> Operation] /\ Idle.step = "idle"
      /\ \A k, t, c : Op(k, t, c).step = "sent"
      /\ \A i \in Slots : ops'[i] # Idle => ~Quiet'
  BY IdleFacts DEF SwitchInv, OpsTyped, Op, Quiet
<1>3. ASSUME NEW i \in Slots, NEW s, s # "idle", Goto(i, s) PROVE ~Quiet'
  BY <1>2, <1>3 DEF Goto, Put, Operation
<1>4. ASSUME NEW i \in Slots, NEW s, s # "idle",
             \/ \E c : Put(i, [ops[i] EXCEPT !.step = s, !.clean = c])
             \/ \E t : Put(i, [ops[i] EXCEPT !.task = t, !.step = s])
      PROVE  ~Quiet'
  BY <1>2, <1>4 DEF Put, Operation
<1>5. ASSUME NEW i \in Slots, NEW c, Put(i, Op("create", NoTask, c)) PROVE ~Quiet'
  BY <1>2, <1>5 DEF Put
<1>6. CASE OpenPanel
  BY <1>6, AskStep DEF OpenPanel, shown, TypeOK
<1>7. ASSUME NEW kind, NEW t, Begin(kind, t) PROVE ListInv'
  <2>1. UNCHANGED <<panel, list, crossed, sessionId>>
    BY <1>7 DEF Begin, lines, shown
  <2>2. PICK i \in Slots : ops'[i] = Op(kind, t, Quiet)
    BY <1>7 DEF Begin
  <2> QED
    BY <1>2, <2>1, <2>2, BusyStep
<1>8. ASSUME NEW i \in Slots, Handle(i) PROVE ListInv'
  <2>1. UNCHANGED <<panel, list, crossed, sessionId>>
    BY <1>8 DEF Handle, lines, shown
  <2>2. ~Quiet'
    <3>1. CASE ops[i].kind = "boot"
      BY <1>4, <1>8, <3>1 DEF Handle
    <3>2. CASE ops[i].kind = "create"
      BY <1>4, <1>8, <3>2 DEF Handle
    <3>3. CASE ops[i].kind \notin {"boot", "create"}
      BY <1>3, <1>8, <3>3 DEF Handle
    <3> QED
      BY <3>1, <3>2, <3>3
  <2> QED
    BY <2>1, <2>2, BusyStep
<1>9. ASSUME NEW i \in Slots, Lose(i) \/ Activated(i) PROVE ListInv'
  <2>1. UNCHANGED <<panel, list, crossed, sessionId>>
    BY <1>9 DEF Lose, Activated, lines, shown
  <2>2. ~Quiet'
    BY <1>3, <1>9 DEF Lose, Activated
  <2> QED
    BY <2>1, <2>2, BusyStep
<1>10. ASSUME NEW i \in Slots, LoadDetail(i) \/ LoadTalk(i) PROVE ListInv'
  <2>1. UNCHANGED <<panel, list, crossed, sessionId>>
    BY <1>10 DEF LoadDetail, LoadTalk, lines
  <2>2. ~Quiet'
    BY <1>3, <1>4, <1>10 DEF LoadDetail, LoadTalk
  <2> QED
    BY <2>1, <2>2, BusyStep
<1>11. ASSUME NEW i \in Slots, Created(i) PROVE ListInv'
  BY <1>11, AskStep, AtHand DEF Created
<1>12. ASSUME NEW i \in Slots, Deleted(i) PROVE ListInv'
  <2>1. UNCHANGED <<panel, sessionId>>
    BY <1>12 DEF Deleted, shown
  <2>2. CASE ListAsk(panel, sessionId)
    BY <2>1, <2>2, AskStep DEF TypeOK
  <2>3. CASE Put(i, Op("create", NoTask, ops[i].clean)) /\ UNCHANGED <<list, lists, crossed>>
    BY <1>5, <2>1, <2>3, BusyStep
  <2> QED
    BY <1>12, <2>2, <2>3 DEF Deleted
<1>13. ASSUME NEW i \in Slots, Renamed(i) PROVE ListInv'
  BY <1>13, AskStep DEF Renamed, TypeOK
<1>14. ASSUME NEW i \in Slots, Booted(i) PROVE ListInv'
  <2>1. panel => crossed
    BY <1>14 DEF Booted, ListInv, BootCrosses
  <2> QED
    BY <1>14, <2>1, CrossedStep DEF Booted
<1>15. ASSUME NEW i \in Slots, LoadTrack(i) PROVE ListInv'
  <2>1. UNCHANGED panel /\ ops[i].kind \in {"boot", "activate"}
    BY <1>15, AtHand DEF LoadTrack, Fits, Loading
  <2>2. CASE ops[i].kind = "activate"
    <3>1. sessionId' = ops[i].task /\ ListAsk(panel, ops[i].task)
      BY <1>15, <2>2 DEF LoadTrack, Restored
    <3> QED
      BY <2>1, <3>1, AtHand, AskStep
  <2>3. CASE ops[i].kind = "boot"
    <3>1. panel => crossed
      BY <2>3 DEF ListInv, BootCrosses
    <3>2. UNCHANGED crossed
      BY <1>15, <2>3 DEF LoadTrack, Restored
    <3> QED
      BY <2>1, <3>1, <3>2, CrossedStep
  <2> QED
    BY <2>1, <2>2, <2>3
<1>16. ASSUME ListFails \/ (\E i \in Slots : Refused(i)) \/ \E t \in TaskIds : Untold(t) \/ Named(t)
       PROVE  ListInv'
  BY <1>16, CrossedStep DEF ListFails, Refused, Untold, Named, Unseen
<1>17. CASE ListAnswer
  <2>1. PICK rows \in IF crossed THEN {Rows, list.rows} ELSE {Rows} :
            list' = [rows |-> rows, mark |-> IF panel THEN sessionId ELSE list.mark]
    BY <1>17 DEF ListAnswer
  <2>2. UNCHANGED <<record, name, ops, panel, crossed, sessionId>>
    BY <1>17 DEF ListAnswer, atA, shown
  <2>3. Rows' = Rows
    BY <2>2 DEF Rows
  <2>4. BootCrosses'
    BY <2>2 DEF ListInv, BootCrosses
  <2>5. panel /\ ~crossed => list'.mark = sessionId /\ list'.rows = Rows
    BY <2>1
  <2> QED
    BY <2>2, <2>3, <2>4, <2>5 DEF ListInv, MarkCurrent, RowsFresh
<1>18. CASE Pose \/ UNCHANGED vars
  <2>1. UNCHANGED <<record, name, ops, panel, crossed, sessionId, list, lists>>
    BY <1>18 DEF Pose, vars, atA, lines, shown
  <2> QED
    BY <2>1 DEF ListInv, BootCrosses, MarkCurrent, RowsFresh, Rows, Quiet
<1> QED
  BY <1>1, <1>6, <1>7, <1>8, <1>9, <1>10, <1>11, <1>12, <1>13, <1>14, <1>15, <1>16, <1>17, <1>18
     DEF Next, User, Answer, BackendA, Create, Activate, Delete, Rename

(* The open panel lists the tasks of A under their names and marks the     *)
(* current one, once nothing is under way, whatever was switched, renamed  *)
(* or deleted, and however the answers of the list came in; unless two of  *)
(* them overlapped, or the page was not told.                              *)
THEOREM ListIsFresh == Spec => []ListFresh
<1>1. Init => ListInv
  BY DEF Init, ListInv, BootCrosses, MarkCurrent, RowsFresh
<1>2. TypeOK /\ SwitchInv /\ ListInv /\ [Next]_vars => ListInv'
  BY ListStep
<1>3. TypeOK /\ ListInv => ListFresh
  BY DEF TypeOK, ListInv, MarkCurrent, RowsFresh, ListFresh
<1> QED
  BY <1>1, <1>2, <1>3, SwitchInvInductive, TasksTypeCorrect, PTL DEF Spec
===============================================================================
