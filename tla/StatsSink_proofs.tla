------------------------- MODULE StatsSink_proofs -------------------------
(***************************************************************************)
(* Proofs about StatsSink, for any workers, callers of Snapshot and events.*)
(***************************************************************************)
EXTENDS StatsSink, FiniteSetTheorems, WellFoundedInduction, TLAPS

-----------------------------------------------------------------------------
(* The inductive invariant.                                                *)

Labels ==
    {"idle", "bytes", "error", "latency", "samples", "loadMin", "casMin",
     "loadMax", "casMax", "l3", "l4"}

TypeOK ==
    /\ counter \in [Counters -> Nat]
    /\ pending \subseteq Pool
    /\ pc \in [Workers -> Labels]
    /\ event = [w \in Workers |-> event[w]]
    /\ cur \in [Workers -> Nat]
    /\ mu \in Readers \cup {NoReader}
    /\ pos \in [Readers -> 0 .. Len(LoadOrder) + 1]
    /\ snap \in [Readers -> [Counters -> Nat]]
    /\ last \in [Rated -> Nat]
    /\ rated \in [Rated -> Nat]
    /\ published \in [Counters -> Nat]
    /\ started \in Nat

Done == Pool \ pending

\* An event i leads OnEvent to this label, with c in curMin or curMax: a
\* compare-and-swap is tried only with a sample better than what was loaded.
Fits(label, i, c) ==
    /\ label = "error" => i.error
    /\ label \in {"latency", "samples", "loadMin", "casMin", "loadMax", "casMax"} =>
          i.latency > 0
    /\ label = "casMin" => c = 0 \/ i.latency < c
    /\ label = "casMax" => c < i.latency
    /\ label = "l3" => i.l3 # "none" /\ i.l4 # "SerialCount"

\* Every worker in a call has an event of its own that leads to where it is.
CallsInv ==
    /\ \A w \in InCall : event[w] \in Done
    /\ \A v, w \in InCall : event[v] = event[w] => v = w
    /\ \A w \in InCall : Fits(pc[w], Its(w), cur[w])

\* How far a call of OnEvent has come: it is past stage n once the field that
\* stage n brings up to date shows its event.
Stage(label) ==
    CASE label = "bytes" -> 1
      [] label = "error" -> 2
      [] label = "latency" -> 3
      [] label = "samples" -> 4
      [] label \in {"loadMin", "casMin"} -> 5
      [] label \in {"loadMax", "casMax"} -> 6
      [] label = "l3" -> 7
      [] label = "l4" -> 8
      [] OTHER -> 9

Booked(n) ==
    {e \in Done : \A w \in Workers : event[w] = e => Stage(pc[w]) > n}

\* The fields that add something up, the stage that does it, and the share of
\* an event.
Tallied == Counters \ {"DroppedEvents", "minLatencyNs", "maxLatencyNs"}

Due(c) ==
    CASE c = "TotalProcessed" -> 0
      [] c = "TotalBytes" -> 1
      [] c = "ErrorEvents" -> 2
      [] c = "totalLatencyNs" -> 3
      [] c = "countLatency" -> 4
      [] c \in L3 -> 7
      [] OTHER -> 8

Flag(b) == IF b THEN 1 ELSE 0

ShareOf(c, i) ==
    CASE c = "TotalProcessed" -> 1
      [] c = "TotalBytes" -> i.bytes
      [] c = "ErrorEvents" -> Flag(i.error)
      [] c = "totalLatencyNs" -> i.latency
      [] c = "countLatency" -> Flag(i.latency > 0)
      [] c \in L3 -> Flag(i.l3 = c /\ i.l4 # "SerialCount")
      [] OTHER -> Flag(i.l4 = c)

Share(c) == [e \in Pool |-> ShareOf(c, Info[e])]

Sum(f, S) == MapThenSumSet(LAMBDA e : f[e], S)

\* At every moment each field is the sum over the calls that are past it, and
\* the extremes are those of their samples.
TalliesInv ==
    /\ IsFiniteSet(Done)
    /\ \A c \in Tallied : counter[c] = Sum(Share(c), Booked(Due(c)))

IsMinOf(m, S) ==
    /\ m = 0 => \A e \in S : Info[e].latency = 0
    /\ m # 0 => /\ \E e \in S : Info[e].latency = m
                /\ \A e \in S : Info[e].latency = 0 \/ m <= Info[e].latency

IsMaxOf(m, S) ==
    /\ \A e \in S : Info[e].latency <= m
    /\ m # 0 => \E e \in S : Info[e].latency = m

ExtremesInv ==
    /\ IsMinOf(counter["minLatencyNs"], Booked(5))
    /\ IsMaxOf(counter["maxLatencyNs"], Booked(6))

\* Only the holder of s.mu is in Snapshot; what it has loaded is between the
\* previous snapshot and the present.
SnapshotInv ==
    /\ \A r \in Readers : pos[r] # 0 => mu = r
    /\ \A d \in Rated : last[d] <= counter[d]
    /\ \A c \in Counters \ {"minLatencyNs"} : published[c] <= counter[c]
    /\ \A r \in Readers : \A i \in 1 .. Len(LoadOrder) : i < pos[r] =>
          LET c == LoadOrder[i]
          IN  c # "minLatencyNs" =>
                /\ published[c] <= snap[r][c]
                /\ snap[r][c] <= counter[c]
    /\ \A r \in Readers :
          pos[r] = 2 => last["TotalProcessed"] <= snap[r]["TotalProcessed"]

SinkInv == TypeOK /\ CallsInv /\ TalliesInv /\ ExtremesInv /\ SnapshotInv

-----------------------------------------------------------------------------
(* Sums over finite sets.  The fold of MapThenSumSet takes one element after   *)
(* the other; what it adds up is a number of units, whatever the order.        *)

\* The fold on the subsets of S.
Folded(f, S, g) ==
  g = [s \in SUBSET S |->
        IF s = {} THEN 0
        ELSE LET x == CHOOSE x \in s : TRUE IN f[x] + g[s \ {x}]]

Units(f, S) == UNION {{e} \X (1 .. f[e]) : e \in S}

\* Induction over a finite set: among bad subsets one is minimal.
LEMMA MinimalSubset ==
    ASSUME NEW S, IsFiniteSet(S), NEW B, B \subseteq SUBSET S, B # {}
    PROVE  \E s \in B : \A x \in s : s \ {x} \notin B
<1>1. FiniteSubsetsOf(S) = SUBSET S
  BY FS_FiniteSubsetsOfFinite
<1>2. IsWellFoundedOn(StrictSubsetOrdering(S), SUBSET S)
  BY <1>1, FS_StrictSubsetOrderingWellFounded
<1>3. PICK s \in B : \A t \in B : ~ (<<t, s>> \in StrictSubsetOrdering(S))
  BY <1>2, WFMin
<1>4. ASSUME NEW x \in s, s \ {x} \in B
      PROVE  FALSE
  <2>1. <<s \ {x}, s>> \in StrictSubsetOrdering(S)
    BY <1>4 DEF StrictSubsetOrdering
  <2> QED
    BY <1>3, <1>4, <2>1
<1> QED
  BY <1>4

\* One more element brings its own units.
LEMMA UnitsAdd ==
    ASSUME NEW f, NEW S, NEW x, x \notin S, f[x] \in Nat, IsFiniteSet(Units(f, S))
    PROVE  /\ IsFiniteSet(Units(f, S \cup {x}))
           /\ Cardinality(Units(f, S \cup {x})) = f[x] + Cardinality(Units(f, S))
<1> DEFINE new == {x} \X (1 .. f[x])
<1>1. Units(f, S \cup {x}) = Units(f, S) \cup new
  BY DEF Units
<1>2. Units(f, S) \cap new = {}
  BY DEF Units
<1>3. IsFiniteSet(new) /\ Cardinality(new) = f[x]
  <2>1. IsFiniteSet(1 .. f[x]) /\ Cardinality(1 .. f[x]) = f[x]
    BY FS_Interval
  <2>2. IsFiniteSet({x}) /\ Cardinality({x}) = 1
    BY FS_Singleton
  <2>3. PICK a, b : a = {x} /\ b = 1 .. f[x]
    OBVIOUS
  <2>4. IsFiniteSet(a \X b) /\ Cardinality(a \X b) = Cardinality(a) * Cardinality(b)
    BY <2>1, <2>2, <2>3, FS_Product
  <2> QED
    BY <2>1, <2>2, <2>3, <2>4
<1>4. IsFiniteSet({}) /\ Cardinality({}) = 0
  BY FS_EmptySet
<1> HIDE DEF new
<1>5. PICK old : old = Units(f, S)
  OBVIOUS
<1>6. IsFiniteSet(old) /\ Cardinality(old) \in Nat
  BY <1>5, FS_CardinalityType
<1>7. /\ IsFiniteSet(old \cup new)
      /\ Cardinality(old \cup new) =
            Cardinality(old) + Cardinality(new) - Cardinality(old \cap new)
  BY <1>3, <1>6, FS_Union
<1>8. Cardinality(old \cup new) = f[x] + Cardinality(old)
  <2>1. old \cap new = {}
    BY <1>2, <1>5
  <2>2. Cardinality(old \cap new) = 0
    BY <1>4, <2>1, Zenon
  <2> QED
    BY <1>3, <1>6, <1>7, <2>2
<1> QED
  BY <1>1, <1>5, <1>7, <1>8

\* The empty set has no units.
LEMMA UnitsEmpty == \A f : Units(f, {}) = {}
BY DEF Units

\* Whatever element the fold takes next, it counts units.
LEMMA FoldCounts ==
    ASSUME NEW S, IsFiniteSet(S), NEW f, \A e \in S : f[e] \in Nat,
           NEW g, Folded(f, S, g)
    PROVE  \A s \in SUBSET S : IsFiniteSet(Units(f, s)) /\ g[s] = Cardinality(Units(f, s))
<1> DEFINE Good(s) == IsFiniteSet(Units(f, s)) /\ g[s] = Cardinality(Units(f, s))
           B == {s \in SUBSET S : ~ Good(s)}
<1>1. SUFFICES ASSUME B # {} PROVE FALSE
  OBVIOUS
<1>2. PICK s \in B : \A x \in s : s \ {x} \notin B
  <2> HIDE DEF Good
  <2>1. B \subseteq SUBSET S
    OBVIOUS
  <2> HIDE DEF B
  <2> QED
    BY <1>1, <2>1, MinimalSubset
<1>3. CASE s = {}
  <2>1. g[s] = 0
    BY <1>3 DEF Folded
  <2> QED
    BY <1>3, <2>1, UnitsEmpty, FS_EmptySet
<1>4. CASE s # {}
  <2>1. PICK x : x = CHOOSE y \in s : TRUE
    OBVIOUS
  <2>2. x \in s
    BY <1>4, <2>1
  <2>3. g[s] = f[x] + g[s \ {x}]
    BY <1>4, <2>1 DEF Folded
  <2>4. Good(s \ {x})
    BY <1>2, <2>2
  <2>5. s = (s \ {x}) \cup {x} /\ f[x] \in Nat
    BY <2>2
  <2>6. Good(s)
    BY <2>3, <2>4, <2>5, UnitsAdd
  <2> QED
    BY <2>6
<1> QED
  BY <1>3, <1>4

\* There is such a fold: the number of units.
LEMMA FoldExists ==
    ASSUME NEW S, IsFiniteSet(S), NEW f, \A e \in S : f[e] \in Nat
    PROVE  \E g : Folded(f, S, g)
<1> DEFINE g == [s \in SUBSET S |-> Cardinality(Units(f, s))]
<1>1. \A s \in SUBSET S : IsFiniteSet(Units(f, s))
  <2> DEFINE B == {s \in SUBSET S : ~ IsFiniteSet(Units(f, s))}
  <2>1. SUFFICES ASSUME B # {} PROVE FALSE
    OBVIOUS
  <2>2. PICK s \in B : \A x \in s : s \ {x} \notin B
    BY <2>1, MinimalSubset
  <2>3. s # {}
    BY UnitsEmpty, FS_EmptySet
  <2>4. PICK x \in s : TRUE
    BY <2>3
  <2>5. IsFiniteSet(Units(f, s \ {x}))
    BY <2>2
  <2>6. s = (s \ {x}) \cup {x} /\ f[x] \in Nat
    OBVIOUS
  <2> QED
    BY <2>5, <2>6, UnitsAdd
<1>2. ASSUME NEW s \in SUBSET S
      PROVE  g[s] = IF s = {} THEN 0
                    ELSE LET x == CHOOSE x \in s : TRUE IN f[x] + g[s \ {x}]
  <2>1. CASE s = {}
    BY <2>1, UnitsEmpty, FS_EmptySet
  <2>2. CASE s # {}
    <3>1. PICK x : x = CHOOSE y \in s : TRUE
      OBVIOUS
    <3>2. x \in s
      BY <2>2, <3>1
    <3>3. s = (s \ {x}) \cup {x} /\ f[x] \in Nat /\ s \ {x} \in SUBSET S
      BY <3>2
    <3>4. IsFiniteSet(Units(f, s \ {x}))
      BY <1>1, <3>3
    <3>5. Cardinality(Units(f, s)) = f[x] + Cardinality(Units(f, s \ {x}))
      BY <3>3, <3>4, UnitsAdd
    <3> QED
      BY <2>2, <3>1, <3>3, <3>5
  <2> QED
    BY <2>1, <2>2
<1>3. Folded(f, S, g)
  <2>1. g = [s \in SUBSET S |-> g[s]]
    OBVIOUS
  <2> HIDE DEF g
  <2> QED
    BY <1>2, <2>1 DEF Folded
<1> QED
  BY <1>3

\* A sum is its number of units.
LEMMA SumCounts ==
    ASSUME NEW S, IsFiniteSet(S), NEW f, \A e \in S : f[e] \in Nat
    PROVE  IsFiniteSet(Units(f, S)) /\ Sum(f, S) = Cardinality(Units(f, S))
<1>1. Sum(f, S) = (CHOOSE g : Folded(f, S, g))[S]
  BY DEF Sum, MapThenSumSet, MapThenFoldSet, Folded
<1>2. PICK g : g = CHOOSE h : Folded(f, S, h)
  OBVIOUS
<1>3. Folded(f, S, g)
  BY <1>2, FoldExists
<1> QED
  BY <1>1, <1>2, <1>3, FoldCounts

\* A sum with one more element.
LEMMA SumAdd ==
    ASSUME NEW S, IsFiniteSet(S), NEW x, x \notin S,
           NEW f, \A e \in S \cup {x} : f[e] \in Nat
    PROVE  Sum(f, S \cup {x}) = f[x] + Sum(f, S)
<1>1. IsFiniteSet(S \cup {x})
  BY FS_AddElement
<1>2. Sum(f, S \cup {x}) = Cardinality(Units(f, S \cup {x}))
  BY <1>1, SumCounts
<1>3. Sum(f, S) = Cardinality(Units(f, S)) /\ IsFiniteSet(Units(f, S))
  BY SumCounts
<1>4. f[x] \in Nat
  OBVIOUS
<1>5. Cardinality(Units(f, S \cup {x})) = f[x] + Cardinality(Units(f, S))
  BY <1>3, <1>4, UnitsAdd
<1> QED
  BY <1>2, <1>3, <1>5

\* The sum over nothing.
LEMMA SumEmpty == \A f : Sum(f, {}) = 0
BY SumCounts, UnitsEmpty, FS_EmptySet

\* A sum of ones and zeros counts the ones.
LEMMA SumOfFlags ==
    ASSUME NEW S, IsFiniteSet(S), NEW f, \A e \in S : f[e] \in {0, 1}
    PROVE  Sum(f, S) = Cardinality({e \in S : f[e] = 1})
<1> DEFINE set == {e \in S : f[e] = 1}
<1>1. Units(f, S) = set \X (1 .. 1)
  <2>1. \A e \in S : 1 .. f[e] = IF f[e] = 1 THEN 1 .. 1 ELSE {}
    <3>1. 1 .. 0 = {}
      OBVIOUS
    <3>2. \A e \in S : f[e] = 0 \/ f[e] = 1
      OBVIOUS
    <3> QED
      BY <3>1, <3>2
  <2> QED
    BY <2>1 DEF Units
<1>2. IsFiniteSet(set)
  BY FS_Subset
<1>3. IsFiniteSet(1 .. 1) /\ Cardinality(1 .. 1) = 1
  <2>1. 1 .. 1 = {1}
    OBVIOUS
  <2> QED
    BY <2>1, FS_Singleton
<1>4. Cardinality(set) \in Nat
  BY <1>2, FS_CardinalityType
<1>5. Cardinality(set \X (1 .. 1)) = Cardinality(set) * 1
  <2> HIDE DEF set
  <2> QED BY <1>2, <1>3, FS_Product
<1>6. \A e \in S : f[e] \in Nat
  OBVIOUS
<1>7. Sum(f, S) = Cardinality(Units(f, S))
  BY <1>6, SumCounts
<1> QED
  BY <1>1, <1>4, <1>5, <1>7
-----------------------------------------------------------------------------
(* Type correctness and the calls under way.                               *)

\* What OnEvent reads of an event.
LEMMA InfoFacts ==
    \A e \in Pool :
       /\ Info[e].bytes \in Nat
       /\ Info[e].error \in BOOLEAN
       /\ Info[e].latency \in Nat
       /\ Info[e].l3 \in L3 \cup {"none"}
       /\ Info[e].l4 \in L4 \cup {"SerialCount"}
BY InfoAssumption

\* Each counter the code names is a field of the sink.
LEMMA CounterNames ==
    /\ {"TotalProcessed", "TotalBytes", "DroppedEvents", "ErrorEvents",
        "SerialCount", "totalLatencyNs", "minLatencyNs", "maxLatencyNs",
        "countLatency"} \subseteq Counters
    /\ L3 \subseteq Counters
    /\ L4 \cup {"SerialCount"} \subseteq Counters
BY DEF Counters

\* An atomic addition changes one field.
LEMMA AddFacts ==
    ASSUME counter \in [Counters -> Nat], NEW c \in Counters, NEW n \in Nat, Add(c, n)
    PROVE  /\ counter' \in [Counters -> Nat]
           /\ counter'[c] = counter[c] + n
           /\ \A d \in Counters : d # c => counter'[d] = counter[d]
<1>1. counter[c] + n \in Nat
  OBVIOUS
<1> QED
  BY <1>1 DEF Add

\* A move of one worker leaves the others where they are.
LEMMA GotoFacts ==
    ASSUME pc \in [Workers -> Labels], NEW w \in Workers, NEW l \in Labels, Goto(w, l)
    PROVE  /\ pc' \in [Workers -> Labels]
           /\ pc'[w] = l
           /\ \A v \in Workers : v # w => pc'[v] = pc[v]
BY DEF Goto

\* The load order names each field once.
LEMMA LoadOrderFacts ==
    /\ Len(LoadOrder) = 16
    /\ \A i \in 1 .. 16 : LoadOrder[i] \in Counters
    /\ LoadOrder[1] = "TotalProcessed"
    /\ LoadOrder[2] = "TotalBytes"
    /\ \A i \in 1 .. 16 : LoadOrder[i] = "TotalBytes" => i = 2
    /\ \A i, j \in 1 .. 16 : LoadOrder[i] = LoadOrder[j] => i = j
    /\ \A c \in Counters : \E i \in 1 .. 16 : LoadOrder[i] = c
<1> USE DEF LoadOrder, Counters, L3, L4
<1>1. Len(LoadOrder) = 16
  OBVIOUS
<1>2. \A i \in 1 .. 16 : LoadOrder[i] \in Counters
  OBVIOUS
<1>3. LoadOrder[1] = "TotalProcessed" /\ LoadOrder[2] = "TotalBytes"
  OBVIOUS
<1>4. \A i, j \in 1 .. 16 : LoadOrder[i] = LoadOrder[j] => i = j
  OBVIOUS
<1>5. \A c \in Counters : \E i \in 1 .. 16 : LoadOrder[i] = c
  OBVIOUS
<1> QED
  BY <1>1, <1>2, <1>3, <1>4, <1>5

\* What OnEvent reads in a call, and where it goes after the latency samples.
LEMMA InCallFacts ==
    ASSUME CallsInv, NEW w \in Workers, pc[w] # "idle"
    PROVE  /\ w \in InCall
           /\ event[w] \in Done
           /\ event[w] \in Pool
           /\ Its(w).bytes \in Nat
           /\ Its(w).latency \in Nat
           /\ Its(w).l3 \in L3 \cup {"none"}
           /\ Its(w).l4 \in L4 \cup {"SerialCount"}
           /\ Category(w) \in {"l3", "l4"}
           /\ Fits(Category(w), Its(w), cur'[w])
           /\ Fits(pc[w], Its(w), cur[w])
<1>1. w \in InCall
  BY DEF InCall
<1>2. event[w] \in Done /\ event[w] \in Pool /\ Fits(pc[w], Its(w), cur[w])
  BY <1>1 DEF CallsInv, Done
<1>3. /\ Category(w) \in {"l3", "l4"}
      /\ Fits(Category(w), Its(w), cur'[w])
  BY DEF Category, Fits
<1> QED
  BY <1>1, <1>2, <1>3, InfoFacts DEF Its

\* A worker that goes on with its call, or returns, keeps the calls in order.
LEMMA CallGoesOn ==
    ASSUME TypeOK, CallsInv, NEW w \in Workers, pc[w] # "idle",
           NEW l \in Labels, Goto(w, l), event' = event, pending' = pending,
           l # "idle" => Fits(l, Its(w), cur'[w]),
           \A v \in Workers : v # w => cur'[v] = cur[v]
    PROVE  CallsInv'
<1>1. /\ pc'[w] = l
      /\ \A v \in Workers : v # w => pc'[v] = pc[v]
  BY GotoFacts DEF TypeOK
<1>2. InCall' \subseteq InCall
  BY <1>1 DEF InCall
<1>3. \A v \in InCall' : event'[v] \in Done'
  BY <1>2 DEF CallsInv, Done
<1>4. \A u, v \in InCall' : event'[u] = event'[v] => u = v
  BY <1>2 DEF CallsInv
<1>5. ASSUME NEW v \in InCall'
      PROVE  Fits(pc'[v], Its(v)', cur'[v])
  <2>1. Its(v)' = Its(v) /\ v \in Workers
    BY DEF Its, InCall
  <2>2. CASE v = w
    BY <1>1, <2>1, <2>2, <1>5 DEF InCall
  <2>3. CASE v # w
    BY <1>1, <1>2, <2>1, <2>3 DEF CallsInv
  <2> QED
    BY <2>2, <2>3
<1> QED
  BY <1>3, <1>4, <1>5 DEF CallsInv

\* Every step of OnEvent keeps the types and the calls in order.
LEMMA WorkerKeepsCalls ==
    ASSUME TypeOK, CallsInv, NEW w \in Workers, OnEvent(w)
    PROVE  TypeOK' /\ CallsInv'
<1> USE DEF Labels
<1>0. /\ counter \in [Counters -> Nat]
      /\ pc \in [Workers -> Labels]
      /\ cur \in [Workers -> Nat]
      /\ LoadOrder' = LoadOrder
  BY DEF TypeOK, LoadOrder
<1>1. CASE CountProcessed(w)
  <2>1. PICK e \in pending : event' = [event EXCEPT ![w] = e] /\ pending' = pending \ {e}
    BY <1>1 DEF CountProcessed
  <2>2. /\ pc[w] = "idle" /\ Add("TotalProcessed", 1) /\ Goto(w, "bytes")
        /\ UNCHANGED <<cur, readerVars>>
    BY <1>1 DEF CountProcessed
  <2>3. /\ pc' \in [Workers -> Labels] /\ pc'[w] = "bytes"
        /\ \A v \in Workers : v # w => pc'[v] = pc[v]
    BY <1>0, <2>2, GotoFacts
  <2>4. counter' \in [Counters -> Nat]
    BY <1>0, <2>2, AddFacts, CounterNames
  <2>5. e \in Pool /\ Done' = Done \cup {e} /\ e \notin Done
    BY <2>1 DEF Done, TypeOK
  <2>6. /\ event'[w] = e
        /\ \A v \in Workers : v # w => event'[v] = event[v]
        /\ event' = [v \in Workers |-> event'[v]]
    BY <2>1 DEF TypeOK
  <2>7. TypeOK'
    <3>1. pending' \subseteq Pool
      BY <2>1 DEF TypeOK
    <3> QED
      BY <1>0, <2>2, <2>3, <2>4, <2>6, <3>1 DEF TypeOK, readerVars
  <2>8. /\ w \notin InCall /\ InCall' = InCall \cup {w}
    BY <2>2, <2>3 DEF InCall
  <2>9. \A v \in InCall : v # w /\ v \in Workers
    BY <2>8 DEF InCall
  <2>10. \A v \in InCall' : event'[v] \in Done'
    BY <2>5, <2>6, <2>8, <2>9 DEF CallsInv
  <2>11. \A u, v \in InCall' : event'[u] = event'[v] => u = v
    BY <2>5, <2>6, <2>8, <2>9 DEF CallsInv
  <2>12. ASSUME NEW v \in InCall'
         PROVE  Fits(pc'[v], Its(v)', cur'[v])
    <3>1. CASE v = w
      BY <2>3, <3>1 DEF Fits
    <3>2. CASE v # w
      BY <2>2, <2>3, <2>6, <2>8, <2>9, <3>2 DEF CallsInv, Its
    <3> QED
      BY <3>1, <3>2
  <2> QED
    BY <2>7, <2>10, <2>11, <2>12 DEF CallsInv
<1>2. ASSUME pc[w] # "idle", Keep,
             NEW l \in Labels, Goto(w, l), l # "idle" => Fits(l, Its(w), cur'[w]),
             counter' \in [Counters -> Nat], cur' \in [Workers -> Nat],
             \A v \in Workers : v # w => cur'[v] = cur[v]
      PROVE  TypeOK' /\ CallsInv'
  <2>1. event' = event /\ pending' = pending /\ UNCHANGED readerVars
    BY <1>2 DEF Keep
  <2>2. CallsInv'
    BY <1>2, <2>1, CallGoesOn
  <2>3. pc' \in [Workers -> Labels]
    BY <1>0, <1>2, GotoFacts
  <2> QED
    BY <1>0, <1>2, <2>1, <2>2, <2>3 DEF TypeOK, readerVars
<1>3. ASSUME pc[w] # "idle", Keep, UNCHANGED cur,
             NEW l \in Labels, Goto(w, l), l # "idle" => Fits(l, Its(w), cur'[w]),
             NEW c \in Counters, NEW n \in Nat, Add(c, n)
      PROVE  TypeOK' /\ CallsInv'
  <2>1. counter' \in [Counters -> Nat]
    BY <1>0, <1>3, AddFacts
  <2>2. cur' \in [Workers -> Nat] /\ \A v \in Workers : v # w => cur'[v] = cur[v]
    BY <1>0, <1>3
  <2> QED
    BY <1>2, <1>3, <2>1, <2>2
<1>4. CASE CountBytes(w)
  <2>1. PICK l : l = IF Its(w).error THEN "error"
                     ELSE IF Its(w).latency > 0 THEN "latency" ELSE Category(w)
    OBVIOUS
  <2>2. /\ pc[w] # "idle" /\ Keep /\ UNCHANGED cur /\ Goto(w, l)
        /\ Add("TotalBytes", Its(w).bytes)
    BY <1>4, <2>1 DEF CountBytes
  <2>3. l \in Labels /\ Fits(l, Its(w), cur'[w]) /\ Its(w).bytes \in Nat
    BY <2>1, <2>2, InCallFacts DEF Fits
  <2> QED
    BY <1>3, <2>2, <2>3, CounterNames
<1>5. CASE CountError(w)
  <2>1. PICK l : l = IF Its(w).latency > 0 THEN "latency" ELSE Category(w)
    OBVIOUS
  <2>2. /\ pc[w] # "idle" /\ Keep /\ UNCHANGED cur /\ Goto(w, l)
        /\ Add("ErrorEvents", 1)
    BY <1>5, <2>1 DEF CountError
  <2>3. l \in Labels /\ Fits(l, Its(w), cur'[w])
    BY <2>1, <2>2, InCallFacts DEF Fits
  <2> QED
    BY <1>3, <2>2, <2>3, CounterNames
<1>6. CASE AddLatency(w)
  <2>1. /\ pc[w] = "latency" /\ Keep /\ UNCHANGED cur /\ Goto(w, "samples")
        /\ Add("totalLatencyNs", Its(w).latency)
    BY <1>6 DEF AddLatency
  <2>2. Fits("samples", Its(w), cur'[w]) /\ Its(w).latency \in Nat
    BY <2>1, InCallFacts DEF Fits
  <2> QED
    BY <1>3, <2>1, <2>2, CounterNames
<1>7. CASE CountLatency(w)
  <2>1. /\ pc[w] = "samples" /\ Keep /\ UNCHANGED cur /\ Goto(w, "loadMin")
        /\ Add("countLatency", 1)
    BY <1>7 DEF CountLatency
  <2>2. Fits("loadMin", Its(w), cur'[w])
    BY <2>1, InCallFacts DEF Fits
  <2> QED
    BY <1>3, <2>1, <2>2, CounterNames
<1>8. CASE LoadMin(w)
  <2>1. PICK m, l : /\ m = counter["minLatencyNs"]
                    /\ l = IF m # 0 /\ m <= Its(w).latency THEN "loadMax" ELSE "casMin"
    OBVIOUS
  <2>2. /\ pc[w] = "loadMin" /\ Keep /\ UNCHANGED counter /\ Goto(w, l)
        /\ cur' = [cur EXCEPT ![w] = m]
    BY <1>8, <2>1 DEF LoadMin
  <2>3. m \in Nat
    BY <1>0, <2>1, CounterNames
  <2>4. /\ cur' \in [Workers -> Nat] /\ cur'[w] = m
        /\ \A v \in Workers : v # w => cur'[v] = cur[v]
    BY <1>0, <2>2, <2>3
  <2>5. l \in Labels /\ Fits(l, Its(w), cur'[w])
    BY <2>1, <2>2, <2>3, <2>4, InCallFacts DEF Fits
  <2> QED
    BY <1>0, <1>2, <2>2, <2>4, <2>5
<1>9. CASE LoadMax(w)
  <2>1. PICK m, l : /\ m = counter["maxLatencyNs"]
                    /\ l = IF m >= Its(w).latency THEN Category(w) ELSE "casMax"
    OBVIOUS
  <2>2. /\ pc[w] = "loadMax" /\ Keep /\ UNCHANGED counter /\ Goto(w, l)
        /\ cur' = [cur EXCEPT ![w] = m]
    BY <1>9, <2>1 DEF LoadMax
  <2>3. m \in Nat
    BY <1>0, <2>1, CounterNames
  <2>4. /\ cur' \in [Workers -> Nat] /\ cur'[w] = m
        /\ \A v \in Workers : v # w => cur'[v] = cur[v]
    BY <1>0, <2>2, <2>3
  <2>5. l \in Labels /\ Fits(l, Its(w), cur'[w])
    BY <2>1, <2>2, <2>3, <2>4, InCallFacts DEF Fits
  <2> QED
    BY <1>0, <1>2, <2>2, <2>4, <2>5
<1>10. CASE CasMin(w)
  <2>1. pc[w] = "casMin" /\ Keep /\ UNCHANGED cur
    BY <1>10 DEF CasMin
  <2>2. PICK l \in {"loadMin", "loadMax"} : Goto(w, l)
    BY <1>10 DEF CasMin
  <2>3. Fits(l, Its(w), cur'[w]) /\ Its(w).latency \in Nat
    BY <2>1, <2>2, InCallFacts DEF Fits
  <2>4. counter' \in [Counters -> Nat]
    BY <1>0, <1>10, <2>3 DEF CasMin
  <2> QED
    BY <1>0, <1>2, <2>1, <2>2, <2>3, <2>4
<1>11. CASE CasMax(w)
  <2>1. pc[w] = "casMax" /\ Keep /\ UNCHANGED cur
    BY <1>11 DEF CasMax
  <2>2. PICK l \in {"loadMax", "l3", "l4"} : Goto(w, l) /\ (l = "loadMax" \/ l = Category(w))
    <3>1. Category(w) \in {"l3", "l4"}
      BY <2>1, InCallFacts
    <3> QED
      BY <1>11, <3>1 DEF CasMax
  <2>3. Fits(l, Its(w), cur'[w]) /\ Its(w).latency \in Nat
    <3>1. l = "loadMax" => Fits(l, Its(w), cur'[w])
      BY <2>1, InCallFacts DEF Fits
    <3> QED
      BY <2>1, <2>2, <3>1, InCallFacts
  <2>4. counter' \in [Counters -> Nat]
    BY <1>0, <1>11, <2>3 DEF CasMax
  <2> QED
    BY <1>0, <1>2, <2>1, <2>2, <2>3, <2>4
<1>12. CASE CountL3(w)
  <2>1. /\ pc[w] = "l3" /\ Keep /\ UNCHANGED cur /\ Goto(w, "l4")
        /\ Add(Its(w).l3, 1)
    BY <1>12 DEF CountL3
  <2>2. Fits("l4", Its(w), cur'[w]) /\ Its(w).l3 \in L3
    BY <2>1, InCallFacts DEF Fits
  <2> QED
    BY <1>3, <2>1, <2>2, CounterNames
<1>13. CASE CountL4(w)
  <2>1. /\ pc[w] = "l4" /\ Keep /\ UNCHANGED cur /\ Goto(w, "idle")
        /\ Add(Its(w).l4, 1)
    BY <1>13 DEF CountL4
  <2>2. Its(w).l4 \in L4 \cup {"SerialCount"}
    BY <2>1, InCallFacts
  <2> QED
    BY <1>3, <2>1, <2>2, CounterNames
<1> QED
  BY <1>1, <1>4, <1>5, <1>6, <1>7, <1>8, <1>9, <1>10, <1>11, <1>12, <1>13 DEF OnEvent

-----------------------------------------------------------------------------
(* The tallies.                                                            *)

\* The step of a worker from stage n to a later one adds to each field what
\* the event owes it in between.
Paid(c, i, from, to) ==
    IF Stage(from) <= Due(c) /\ Due(c) < Stage(to) THEN ShareOf(c, i) ELSE 0

Pays(w) ==
    /\ pc[w] # "idle" /\ event' = event /\ pending' = pending
    /\ pc' \in [Workers -> Labels]
    /\ \A v \in Workers : v # w => pc'[v] = pc[v]
    /\ Stage(pc[w]) <= Stage(pc'[w])
    /\ \A c \in Tallied : counter'[c] = counter[c] + Paid(c, Its(w), pc[w], pc'[w])
    /\ counter'["DroppedEvents"] = counter["DroppedEvents"]

\* Every step of a call that has begun pays what it owes, no more.
LEMMA WorkerPays ==
    ASSUME TypeOK, CallsInv, NEW w \in Workers, OnEvent(w), ~ CountProcessed(w)
    PROVE  Pays(w)
<1> DEFINE Owes(from, to, c, n) ==
             \A d \in Tallied : Paid(d, Its(w), from, to) = IF d = c THEN n ELSE 0
<1>0. /\ counter \in [Counters -> Nat]
      /\ pc \in [Workers -> Labels]
      /\ Tallied \subseteq Counters
  BY DEF TypeOK, Tallied
<1>1. ASSUME pc[w] # "idle", Keep,
             NEW l \in Labels, Goto(w, l), Stage(pc[w]) <= Stage(l),
             NEW c \in Tallied, NEW n \in Nat, Add(c, n), Owes(pc[w], l, c, n)
      PROVE  Pays(w)
  <2>1. /\ pc' \in [Workers -> Labels] /\ pc'[w] = l
        /\ \A v \in Workers : v # w => pc'[v] = pc[v]
    BY <1>0, <1>1, GotoFacts
  <2>2. \A d \in Counters : counter'[d] = IF d = c THEN counter[d] + n ELSE counter[d]
    BY <1>0, <1>1, AddFacts
  <2>3. counter'["DroppedEvents"] = counter["DroppedEvents"]
    BY <2>2, CounterNames DEF Tallied
  <2>4. \A d \in Tallied : counter'[d] = counter[d] + Paid(d, Its(w), pc[w], pc'[w])
    BY <1>0, <1>1, <2>1, <2>2
  <2> QED
    BY <1>1, <2>1, <2>3, <2>4 DEF Pays, Keep
<1>2. ASSUME pc[w] # "idle", Keep,
             NEW l \in Labels, Goto(w, l), Stage(pc[w]) <= Stage(l),
             counter'["DroppedEvents"] = counter["DroppedEvents"],
             \A d \in Tallied : counter'[d] = counter[d] /\ Paid(d, Its(w), pc[w], l) = 0
      PROVE  Pays(w)
  <2>1. /\ pc' \in [Workers -> Labels] /\ pc'[w] = l
        /\ \A v \in Workers : v # w => pc'[v] = pc[v]
    BY <1>0, <1>2, GotoFacts
  <2>2. \A d \in Tallied : counter'[d] = counter[d] + Paid(d, Its(w), pc[w], pc'[w])
    BY <1>0, <1>2, <2>1
  <2> QED
    BY <1>2, <2>1, <2>2 DEF Pays, Keep
<1>3. PICK i : i = Its(w)
  OBVIOUS
<1>4. pc[w] # "idle" => /\ i.bytes \in Nat /\ i.latency \in Nat
                        /\ i.l3 \in L3 \cup {"none"}
                        /\ i.l4 \in L4 \cup {"SerialCount"}
                        /\ Fits(pc[w], i, cur[w])
                        /\ Category(w) = IF i.l3 # "none" /\ i.l4 # "SerialCount"
                                         THEN "l3" ELSE "l4"
  BY <1>3, InCallFacts DEF Category
<1> USE DEF Labels, Stage, Due, ShareOf, Flag, Tallied, Counters, L3, L4, Paid
<1>5. CASE CountBytes(w)
  <2>1. PICK l : l = IF i.error THEN "error"
                     ELSE IF i.latency > 0 THEN "latency" ELSE Category(w)
    OBVIOUS
  <2>2. /\ pc[w] = "bytes" /\ Keep /\ Goto(w, l) /\ Add("TotalBytes", i.bytes)
    BY <1>3, <1>5, <2>1 DEF CountBytes
  <2>3. l \in Labels /\ Stage(pc[w]) <= Stage(l)
    BY <1>4, <2>1, <2>2
  <2>4. Owes("bytes", l, "TotalBytes", i.bytes)
    BY <1>3, <1>4, <2>1, <2>2
  <2> QED
    BY <1>1, <1>4, <2>2, <2>3, <2>4
<1>6. CASE CountError(w)
  <2>1. PICK l : l = IF i.latency > 0 THEN "latency" ELSE Category(w)
    OBVIOUS
  <2>2. /\ pc[w] = "error" /\ Keep /\ Goto(w, l) /\ Add("ErrorEvents", 1)
    BY <1>3, <1>6, <2>1 DEF CountError
  <2>3. l \in Labels /\ Stage(pc[w]) <= Stage(l)
    BY <1>4, <2>1, <2>2
  <2>4. Owes("error", l, "ErrorEvents", 1)
    BY <1>3, <1>4, <2>1, <2>2 DEF Fits
  <2>5. pc[w] # "idle" /\ Owes(pc[w], l, "ErrorEvents", 1)
    BY <2>2, <2>4
  <2>6. "ErrorEvents" \in Tallied /\ 1 \in Nat
    OBVIOUS
  <2> HIDE DEF Owes, Labels, Stage, Due, ShareOf, Flag, Tallied, Counters, L3, L4, Paid
  <2> QED
    BY <1>1, <2>2, <2>3, <2>5, <2>6
<1>7. CASE AddLatency(w)
  <2>1. /\ pc[w] = "latency" /\ Keep /\ Goto(w, "samples")
        /\ Add("totalLatencyNs", i.latency)
    BY <1>3, <1>7 DEF AddLatency
  <2>2. Owes("latency", "samples", "totalLatencyNs", i.latency)
    BY <1>3, <1>4, <2>1
  <2> QED
    BY <1>1, <1>4, <2>1, <2>2
<1>8. CASE CountLatency(w)
  <2>1. /\ pc[w] = "samples" /\ Keep /\ Goto(w, "loadMin") /\ Add("countLatency", 1)
    BY <1>8 DEF CountLatency
  <2>2. Owes("samples", "loadMin", "countLatency", 1)
    BY <1>3, <1>4, <2>1 DEF Fits
  <2> QED
    BY <1>1, <2>1, <2>2
<1>9. CASE LoadMin(w)
  <2>1. /\ pc[w] = "loadMin" /\ Keep /\ UNCHANGED counter
        /\ \E l \in {"loadMax", "casMin"} : Goto(w, l)
    BY <1>9 DEF LoadMin
  <2> QED
    BY <1>2, <2>1
<1>10. CASE CasMin(w)
  <2>1. /\ pc[w] = "casMin" /\ Keep
        /\ \E l \in {"loadMax", "loadMin"} : Goto(w, l)
    BY <1>10 DEF CasMin
  <2>2. \A d \in Tallied \cup {"DroppedEvents"} : counter'[d] = counter[d]
    BY <1>0, <1>10 DEF CasMin
  <2> QED
    BY <1>2, <2>1, <2>2
<1>11. CASE LoadMax(w)
  <2>1. /\ pc[w] = "loadMax" /\ Keep /\ UNCHANGED counter
    BY <1>11 DEF LoadMax
  <2>2. PICK l \in {"l3", "l4", "casMax"} : Goto(w, l) /\ l \in {Category(w), "casMax"}
    BY <1>4, <1>11, <2>1 DEF LoadMax
  <2>3. \A d \in Tallied : Paid(d, Its(w), "loadMax", l) = 0
    BY <1>3, <1>4, <2>1, <2>2
  <2> QED
    BY <1>2, <2>1, <2>2, <2>3
<1>12. CASE CasMax(w)
  <2>1. pc[w] = "casMax" /\ Keep
    BY <1>12 DEF CasMax
  <2>2. PICK l \in {"l3", "l4", "loadMax"} : Goto(w, l) /\ l \in {Category(w), "loadMax"}
    BY <1>4, <1>12, <2>1 DEF CasMax
  <2>3. \A d \in Tallied : Paid(d, Its(w), "casMax", l) = 0
    BY <1>3, <1>4, <2>1, <2>2
  <2>4. \A d \in Tallied \cup {"DroppedEvents"} : counter'[d] = counter[d]
    BY <1>0, <1>12 DEF CasMax
  <2> QED
    BY <1>2, <2>1, <2>2, <2>3, <2>4
<1>13. CASE CountL3(w)
  <2>1. /\ pc[w] = "l3" /\ Keep /\ Goto(w, "l4") /\ Add(i.l3, 1)
    BY <1>3, <1>13 DEF CountL3
  <2>2. i.l3 \in L3 /\ i.l4 # "SerialCount"
    BY <1>4, <2>1 DEF Fits
  <2>3. Owes("l3", "l4", i.l3, 1)
    BY <1>3, <2>2
  <2> QED
    BY <1>1, <2>1, <2>2, <2>3
<1>14. CASE CountL4(w)
  <2>1. /\ pc[w] = "l4" /\ Keep /\ Goto(w, "idle") /\ Add(i.l4, 1)
    BY <1>3, <1>14 DEF CountL4
  <2>2. Owes("l4", "idle", i.l4, 1)
    BY <1>3, <1>4, <2>1
  <2> QED
    BY <1>1, <1>4, <2>1, <2>2
<1> QED
  BY <1>5, <1>6, <1>7, <1>8, <1>9, <1>10, <1>11, <1>12, <1>13, <1>14 DEF OnEvent

\* The stages are in the order OnEvent goes through them.
LEMMA StageRange ==
    /\ \A l \in Labels : Stage(l) \in 1 .. 9
    /\ \A l \in Labels : Stage(l) = 9 <=> l = "idle"
BY DEF Labels, Stage

\* An event is booked at a stage when its worker moves past it, and only then.
LEMMA BookedStep ==
    ASSUME TypeOK, CallsInv, NEW w \in Workers, Pays(w), NEW n \in 0 .. 8
    PROVE  /\ Booked(n)' = IF Stage(pc[w]) <= n /\ n < Stage(pc'[w])
                             THEN Booked(n) \cup {event[w]} ELSE Booked(n)
           /\ Stage(pc[w]) <= n => event[w] \notin Booked(n)
<1>1. /\ pc[w] # "idle" /\ event' = event /\ Done' = Done
      /\ \A v \in Workers : v # w => pc'[v] = pc[v]
      /\ pc[w] \in Labels /\ pc'[w] \in Labels
      /\ Stage(pc[w]) <= Stage(pc'[w])
  BY DEF Pays, Done, TypeOK
<1>2. event[w] \in Done
  BY <1>1 DEF CallsInv, InCall
<1>3. /\ Stage(pc[w]) \in 1 .. 9 /\ Stage(pc'[w]) \in 1 .. 9
      /\ \A v \in Workers : pc[v] = "idle" => Stage(pc[v]) = 9
  BY <1>1, StageRange DEF TypeOK
<1>4. \A v \in Workers : v # w /\ event[v] = event[w] => Stage(pc[v]) > n
  <2> SUFFICES ASSUME NEW v \in Workers, v # w, event[v] = event[w]
               PROVE  Stage(pc[v]) > n
    OBVIOUS
  <2>1. pc[v] = "idle"
    BY <1>1 DEF CallsInv, InCall
  <2> QED
    BY <1>3, <2>1
<1>5. ASSUME NEW e \in Done
      PROVE  /\ e # event[w] => (e \in Booked(n)' <=> e \in Booked(n))
             /\ event[w] \in Booked(n)' <=> Stage(pc'[w]) > n
             /\ event[w] \in Booked(n) <=> Stage(pc[w]) > n
  <2>1. event[w] \in Booked(n)' <=> Stage(pc'[w]) > n
    BY <1>1, <1>2, <1>4 DEF Booked
  <2>2. event[w] \in Booked(n) <=> Stage(pc[w]) > n
    BY <1>1, <1>2, <1>4 DEF Booked
  <2>3. ASSUME e # event[w]
        PROVE  e \in Booked(n)' <=> e \in Booked(n)
    BY <1>1, <2>3 DEF Booked
  <2> QED
    BY <2>1, <2>2, <2>3
<1>6. Booked(n) \subseteq Done /\ Booked(n)' \subseteq Done
  BY <1>1 DEF Booked
<1>7. \/ Stage(pc[w]) <= n /\ n < Stage(pc'[w])
      \/ (Stage(pc[w]) > n <=> Stage(pc'[w]) > n)
  BY <1>1, <1>3
<1>8. Stage(pc[w]) <= n <=> ~ (Stage(pc[w]) > n)
  BY <1>3
<1> HIDE DEF Booked
<1> QED
  BY <1>2, <1>5, <1>6, <1>7, <1>8

\* A call that starts counts its event among those processed and books it nowhere else.
LEMMA BookedStart ==
    ASSUME TypeOK, CallsInv, NEW w \in Workers, CountProcessed(w)
    PROVE  /\ \E e \in Pool \ Done : Done' = Done \cup {e}
           /\ \A n \in 1 .. 8 : Booked(n)' = Booked(n)
           /\ Booked(0) = Done /\ Booked(0)' = Done'
<1>1. PICK e \in pending : event' = [event EXCEPT ![w] = e] /\ pending' = pending \ {e}
  BY DEF CountProcessed
<1>2. /\ pc[w] = "idle"
      /\ pc' \in [Workers -> Labels] /\ pc'[w] = "bytes"
      /\ \A v \in Workers : v # w => pc'[v] = pc[v]
  BY GotoFacts DEF CountProcessed, TypeOK, Labels
<1>3. e \in Pool /\ e \notin Done /\ Done' = Done \cup {e}
  BY <1>1 DEF Done, TypeOK
<1>4. /\ event'[w] = e
      /\ \A v \in Workers : v # w => event'[v] = event[v]
  BY <1>1 DEF TypeOK
<1>5. Stage("bytes") = 1 /\ Stage("idle") = 9
  BY DEF Stage
<1>6. ASSUME NEW n \in 1 .. 8
      PROVE  Booked(n)' = Booked(n)
  <2>1. e \notin Booked(n)'
    BY <1>2, <1>4, <1>5 DEF Booked
  <2>2. e \notin Booked(n)
    BY <1>3 DEF Booked
  <2>3. ASSUME NEW d \in Done
        PROVE  d \in Booked(n)' <=> d \in Booked(n)
    <3>1. d \in Done' /\ d # e
      BY <1>3
    <3>2. Stage(pc[w]) > n
      BY <1>2, <1>5
    <3>3. \A v \in Workers : (event[v] = d => Stage(pc[v]) > n)
                                <=> (event'[v] = d => Stage(pc'[v]) > n)
      BY <1>2, <1>4, <3>1, <3>2
    <3> QED
      BY <3>1, <3>3 DEF Booked
  <2>4. Booked(n) \subseteq Done /\ Booked(n)' \subseteq Done \cup {e}
    BY <1>3 DEF Booked
  <2> HIDE DEF Booked
  <2> QED
    BY <2>1, <2>2, <2>3, <2>4
<1>7. Booked(0) = Done /\ Booked(0)' = Done'
  <2>1. ASSUME NEW v \in Workers
        PROVE  Stage(pc[v]) > 0 /\ Stage(pc'[v]) > 0
    <3>1. pc[v] \in Labels /\ pc'[v] \in Labels
      BY <1>2 DEF TypeOK
    <3>2. Stage(pc[v]) \in 1 .. 9 /\ Stage(pc'[v]) \in 1 .. 9
      BY <3>1, StageRange
    <3> QED
      BY <3>2
  <2> QED
    BY <2>1 DEF Booked
<1> QED
  BY <1>3, <1>6, <1>7

\* A share is a natural number, and every tally has its stage.
LEMMA ShareFacts ==
    /\ \A c \in Tallied, e \in Pool : Share(c)[e] = ShareOf(c, Info[e]) /\ Share(c)[e] \in Nat
    /\ \A c \in Tallied : Due(c) \in 0 .. 8
    /\ \A c \in Tallied : Due(c) = 0 <=> c = "TotalProcessed"
    /\ \A e \in Pool : Share("TotalProcessed")[e] = 1
    /\ Due("TotalProcessed") = 0 /\ "TotalProcessed" \in Tallied
<1>1. ASSUME NEW c \in Tallied, NEW e \in Pool
      PROVE  Share(c)[e] = ShareOf(c, Info[e]) /\ Share(c)[e] \in Nat
  BY InfoFacts DEF Share, ShareOf, Flag
<1>2. /\ \A c \in Tallied : Due(c) \in 0 .. 8
      /\ \A c \in Tallied : Due(c) = 0 <=> c = "TotalProcessed"
      /\ Due("TotalProcessed") = 0 /\ "TotalProcessed" \in Tallied
  BY DEF Due, Tallied, Counters, L3, L4
<1>3. \A e \in Pool : Share("TotalProcessed")[e] = 1
  BY DEF Share, ShareOf, L3
<1> QED
  BY <1>1, <1>2, <1>3

\* Adding one event to a sum of shares.
LEMMA ShareAdd ==
    ASSUME NEW S, S \subseteq Pool, IsFiniteSet(S), NEW e \in Pool, e \notin S,
           NEW c \in Tallied
    PROVE  Sum(Share(c), S \cup {e}) = ShareOf(c, Info[e]) + Sum(Share(c), S)
<1>1. PICK f : f = Share(c)
  OBVIOUS
<1>2. \A d \in S \cup {e} : f[d] \in Nat
  BY <1>1, ShareFacts
<1>3. Sum(f, S \cup {e}) = f[e] + Sum(f, S)
  BY <1>2, SumAdd
<1> QED
  BY <1>1, <1>3, ShareFacts

\* Every step of OnEvent keeps the tallies exact.
LEMMA WorkerKeepsTallies ==
    ASSUME TypeOK, CallsInv, TalliesInv, NEW w \in Workers, OnEvent(w)
    PROVE  TalliesInv'
<1>1. CASE CountProcessed(w)
  <2>1. PICK e \in Pool \ Done : Done' = Done \cup {e}
    BY <1>1, BookedStart
  <2>2. IsFiniteSet(Done')
    BY <2>1, FS_AddElement DEF TalliesInv
  <2>3. ASSUME NEW c \in Tallied
        PROVE  counter'[c] = Sum(Share(c), Booked(Due(c))')
    <3>0. c \in Counters /\ "TotalProcessed" \in Counters /\ Due(c) \in 0 .. 8
      BY ShareFacts, CounterNames DEF Tallied
    <3>1. CASE c = "TotalProcessed"
      <4>1. counter'[c] = counter[c] + 1 /\ counter[c] \in Nat
        BY <1>1, <3>0, <3>1, AddFacts DEF TypeOK, CountProcessed
      <4>2. counter[c] = Sum(Share(c), Done)
        BY <1>1, <3>1, ShareFacts, BookedStart DEF TalliesInv
      <4>3. Sum(Share(c), Done') = ShareOf(c, Info[e]) + Sum(Share(c), Done)
        BY <2>1, ShareAdd DEF TalliesInv, Done
      <4>4. Booked(Due(c))' = Done'
        BY <1>1, <3>1, ShareFacts, BookedStart
      <4>5. ShareOf(c, Info[e]) = 1
        BY <3>1 DEF ShareOf, L3
      <4> QED
        BY <4>1, <4>2, <4>3, <4>4, <4>5
    <3>2. CASE c # "TotalProcessed"
      <4>1. counter'[c] = counter[c]
        BY <1>1, <3>0, <3>2, AddFacts DEF TypeOK, CountProcessed
      <4>2. Due(c) \in 1 .. 8
        BY <3>0, <3>2, ShareFacts
      <4>3. Booked(Due(c))' = Booked(Due(c))
        BY <1>1, <4>2, BookedStart
      <4> QED
        BY <4>1, <4>3 DEF TalliesInv
    <3> QED
      BY <3>1, <3>2
  <2> QED
    BY <2>2, <2>3 DEF TalliesInv, Share
<1>2. CASE ~ CountProcessed(w)
  <2>1. Pays(w)
    BY <1>2, WorkerPays
  <2>2. Done' = Done
    BY <2>1 DEF Pays, Done
  <2>3. event[w] \in Pool
    BY <2>1, InCallFacts DEF Pays
  <2>4. ASSUME NEW c \in Tallied
        PROVE  counter'[c] = Sum(Share(c), Booked(Due(c))')
    <3>1. PICK n \in 0 .. 8 : n = Due(c)
      BY ShareFacts
    <3>2. counter[c] = Sum(Share(c), Booked(n)) /\ counter[c] \in Nat
      BY <3>1 DEF TalliesInv, TypeOK, Tallied
    <3>3. counter'[c] = counter[c] + Paid(c, Its(w), pc[w], pc'[w])
      BY <2>1 DEF Pays
    <3>4. IsFiniteSet(Booked(n)) /\ Booked(n) \subseteq Pool
      BY FS_Subset DEF TalliesInv, Booked, Done
    <3>5. CASE Stage(pc[w]) <= n /\ n < Stage(pc'[w])
      <4>1. Booked(n)' = Booked(n) \cup {event[w]} /\ event[w] \notin Booked(n)
        BY <2>1, <3>5, BookedStep
      <4>2. Sum(Share(c), Booked(n) \cup {event[w]}) =
              ShareOf(c, Info[event[w]]) + Sum(Share(c), Booked(n))
        BY <2>3, <3>4, <4>1, ShareAdd
      <4>3. Paid(c, Its(w), pc[w], pc'[w]) = ShareOf(c, Info[event[w]])
        BY <3>1, <3>5 DEF Paid, Its
      <4>4. ShareOf(c, Info[event[w]]) \in Nat
        BY <2>3, ShareFacts
      <4> QED
        BY <3>1, <3>2, <3>3, <4>1, <4>2, <4>3, <4>4
    <3>6. CASE ~ (Stage(pc[w]) <= n /\ n < Stage(pc'[w]))
      <4>1. Booked(n)' = Booked(n)
        BY <2>1, <3>6, BookedStep
      <4>2. Paid(c, Its(w), pc[w], pc'[w]) = 0
        BY <3>1, <3>6 DEF Paid
      <4> QED
        BY <3>1, <3>2, <3>3, <4>1, <4>2
    <3> QED
      BY <3>5, <3>6
  <2> QED
    BY <2>2, <2>4 DEF TalliesInv, Share
<1> QED
  BY <1>1, <1>2

-----------------------------------------------------------------------------
(* The extremes.                                                           *)

\* A step of a call past stage n, where its sample of latency is taken up.
Passes(w, n) == Stage(pc[w]) <= n /\ n < Stage(pc'[w])

\* The minimum changes only to a better sample, by the worker whose it is; a
\* worker that goes on without changing it has none better.
MinStep(w) ==
    LET old == counter["minLatencyNs"]
        new == counter'["minLatencyNs"]
        own == Its(w).latency
    IN  \/ /\ new = old
           /\ Passes(w, 5) => own = 0 \/ (old # 0 /\ old <= own)
        \/ /\ Passes(w, 5) /\ new = own /\ own > 0
           /\ old = 0 \/ own < old

MaxStep(w) ==
    LET old == counter["maxLatencyNs"]
        new == counter'["maxLatencyNs"]
        own == Its(w).latency
    IN  \/ new = old /\ (Passes(w, 6) => own <= old)
        \/ Passes(w, 6) /\ new = own /\ old < own

\* Every step of a call that has begun treats the extremes so.
LEMMA WorkerExtremes ==
    ASSUME TypeOK, CallsInv, NEW w \in Workers, OnEvent(w), ~ CountProcessed(w)
    PROVE  MinStep(w) /\ MaxStep(w)
<1>1. PICK own, min, max : /\ own = Its(w).latency
                           /\ min = counter["minLatencyNs"]
                           /\ max = counter["maxLatencyNs"]
  OBVIOUS
<1>2. /\ min \in Nat /\ max \in Nat
      /\ counter \in [Counters -> Nat]
      /\ pc \in [Workers -> Labels]
  BY <1>1, CounterNames DEF TypeOK
<1>3. ASSUME pc[w] # "idle"
      PROVE  /\ own \in Nat
             /\ Category(w) \in {"l3", "l4"}
             /\ Fits(pc[w], Its(w), cur[w])
  BY <1>1, <1>3, InCallFacts
<1>4. ASSUME NEW c \in Tallied, NEW n \in Nat, Add(c, n)
      PROVE  counter'["minLatencyNs"] = min /\ counter'["maxLatencyNs"] = max
  BY <1>1, <1>2, <1>4, AddFacts, CounterNames DEF Tallied
<1>5. ASSUME NEW l \in Labels, Goto(w, l)
      PROVE  pc'[w] = l
  BY <1>2, <1>5, GotoFacts
<1> USE DEF Labels, Stage, Passes, MinStep, MaxStep
<1>6. CASE CountBytes(w)
  <2>1. pc[w] = "bytes" /\ Add("TotalBytes", Its(w).bytes)
    BY <1>6 DEF CountBytes
  <2>2. counter'["minLatencyNs"] = min /\ counter'["maxLatencyNs"] = max
    BY <1>4, <2>1, InCallFacts DEF Tallied, Counters
  <2>3. PICK l : /\ Goto(w, l)
                 /\ l = IF Its(w).error THEN "error"
                        ELSE IF Its(w).latency > 0 THEN "latency" ELSE Category(w)
    BY <1>6 DEF CountBytes
  <2>4. l \in {"error", "latency"} \/ (l \in {"l3", "l4"} /\ own = 0)
    BY <1>1, <1>3, <2>1, <2>3
  <2>5. pc'[w] = l
    BY <1>5, <2>3, <2>4
  <2> QED
    BY <1>1, <1>2, <2>1, <2>2, <2>4, <2>5
<1>7. CASE CountError(w)
  <2>1. pc[w] = "error" /\ Add("ErrorEvents", 1)
    BY <1>7 DEF CountError
  <2>2. counter'["minLatencyNs"] = min /\ counter'["maxLatencyNs"] = max
    BY <1>4, <2>1 DEF Tallied, Counters
  <2>3. PICK l : /\ Goto(w, l)
                 /\ l = IF Its(w).latency > 0 THEN "latency" ELSE Category(w)
    BY <1>7 DEF CountError
  <2>4. l = "latency" \/ (l \in {"l3", "l4"} /\ own = 0)
    BY <1>1, <1>3, <2>1, <2>3
  <2>5. pc'[w] = l
    BY <1>5, <2>3, <2>4
  <2> QED
    BY <1>1, <1>2, <2>1, <2>2, <2>4, <2>5
<1>8. CASE AddLatency(w)
  <2>1. pc[w] = "latency" /\ Add("totalLatencyNs", Its(w).latency) /\ Goto(w, "samples")
    BY <1>8 DEF AddLatency
  <2>2. counter'["minLatencyNs"] = min /\ counter'["maxLatencyNs"] = max
    BY <1>1, <1>3, <1>4, <2>1 DEF Tallied, Counters
  <2> QED
    BY <1>1, <1>5, <2>1, <2>2
<1>9. CASE CountLatency(w)
  <2>1. pc[w] = "samples" /\ Add("countLatency", 1) /\ Goto(w, "loadMin")
    BY <1>9 DEF CountLatency
  <2>2. counter'["minLatencyNs"] = min /\ counter'["maxLatencyNs"] = max
    BY <1>4, <2>1 DEF Tallied, Counters
  <2> QED
    BY <1>1, <1>5, <2>1, <2>2
<1>10. CASE LoadMin(w)
  <2>1. pc[w] = "loadMin" /\ counter' = counter
        /\ Goto(w, IF min # 0 /\ min <= own THEN "loadMax" ELSE "casMin")
    BY <1>1, <1>10 DEF LoadMin
  <2>2. pc'[w] = IF min # 0 /\ min <= own THEN "loadMax" ELSE "casMin"
    BY <1>5, <2>1
  <2> QED
    BY <1>1, <2>1, <2>2
<1>11. CASE CasMin(w)
  <2>1. pc[w] = "casMin" /\ (cur[w] = 0 \/ own < cur[w]) /\ own > 0 /\ own \in Nat
    BY <1>1, <1>3, <1>11 DEF CasMin, Fits
  <2>2. CASE min = cur[w]
    <3>1. counter' = [counter EXCEPT !["minLatencyNs"] = own] /\ Goto(w, "loadMax")
      BY <1>1, <1>11, <2>2 DEF CasMin
    <3>2. counter'["minLatencyNs"] = own /\ counter'["maxLatencyNs"] = max
      BY <1>1, <1>2, <3>1, CounterNames
    <3>3. pc'[w] = "loadMax"
      BY <1>5, <3>1
    <3> QED
      BY <1>1, <1>2, <2>1, <2>2, <3>2, <3>3
  <2>3. CASE min # cur[w]
    <3>1. counter' = counter /\ Goto(w, "loadMin")
      BY <1>1, <1>11, <2>3 DEF CasMin
    <3> QED
      BY <1>1, <1>5, <2>1, <3>1
  <2> QED
    BY <2>2, <2>3
<1>12. CASE LoadMax(w)
  <2>1. pc[w] = "loadMax" /\ counter' = counter
        /\ Goto(w, IF max >= own THEN Category(w) ELSE "casMax")
    BY <1>1, <1>12 DEF LoadMax
  <2>2. pc'[w] = IF max >= own THEN Category(w) ELSE "casMax"
    BY <1>3, <1>5, <2>1
  <2>3. own \in Nat /\ Category(w) \in {"l3", "l4"}
    BY <1>3, <2>1
  <2> QED
    BY <1>1, <1>2, <2>1, <2>2, <2>3
<1>13. CASE CasMax(w)
  <2>1. /\ pc[w] = "casMax" /\ cur[w] < own /\ own \in Nat
        /\ Category(w) \in {"l3", "l4"}
    BY <1>1, <1>3, <1>13 DEF CasMax, Fits
  <2>2. CASE max = cur[w]
    <3>1. counter' = [counter EXCEPT !["maxLatencyNs"] = own] /\ Goto(w, Category(w))
      BY <1>1, <1>13, <2>2 DEF CasMax
    <3>2. counter'["minLatencyNs"] = min /\ counter'["maxLatencyNs"] = own
      BY <1>1, <1>2, <3>1, CounterNames
    <3>3. pc'[w] \in {"l3", "l4"}
      BY <1>5, <2>1, <3>1
    <3> QED
      BY <1>1, <1>2, <2>1, <2>2, <3>2, <3>3
  <2>3. CASE max # cur[w]
    <3>1. counter' = counter /\ Goto(w, "loadMax")
      BY <1>1, <1>13, <2>3 DEF CasMax
    <3> QED
      BY <1>1, <1>5, <2>1, <3>1
  <2> QED
    BY <2>2, <2>3
<1>14. CASE CountL3(w)
  <2>1. pc[w] = "l3" /\ Add(Its(w).l3, 1) /\ Goto(w, "l4")
    BY <1>14 DEF CountL3
  <2>2. Its(w).l3 \in Tallied
    BY <1>3, <2>1, InCallFacts DEF Tallied, Counters, L3, Fits
  <2>3. counter'["minLatencyNs"] = min /\ counter'["maxLatencyNs"] = max
    BY <1>4, <2>1, <2>2
  <2> QED
    BY <1>1, <1>5, <2>1, <2>3
<1>15. CASE CountL4(w)
  <2>1. pc[w] = "l4" /\ Add(Its(w).l4, 1) /\ Goto(w, "idle")
    BY <1>15 DEF CountL4
  <2>2. Its(w).l4 \in Tallied
    BY <2>1, InCallFacts DEF Tallied, Counters, L4
  <2>3. counter'["minLatencyNs"] = min /\ counter'["maxLatencyNs"] = max
    BY <1>4, <2>1, <2>2
  <2> QED
    BY <1>1, <1>5, <2>1, <2>3
<1> QED
  BY <1>6, <1>7, <1>8, <1>9, <1>10, <1>11, <1>12, <1>13, <1>14, <1>15 DEF OnEvent

\* Every step of OnEvent keeps the extremes those of the samples taken up.
LEMMA WorkerKeepsExtremes ==
    ASSUME TypeOK, CallsInv, ExtremesInv, NEW w \in Workers, OnEvent(w)
    PROVE  ExtremesInv'
<1>1. CASE CountProcessed(w)
  <2>1. /\ counter'["minLatencyNs"] = counter["minLatencyNs"]
        /\ counter'["maxLatencyNs"] = counter["maxLatencyNs"]
    <3>1. Add("TotalProcessed", 1) /\ 1 \in Nat
      BY <1>1 DEF CountProcessed
    <3> QED
      BY <3>1, AddFacts, CounterNames DEF TypeOK
  <2>2. Booked(5)' = Booked(5) /\ Booked(6)' = Booked(6)
    BY <1>1, BookedStart
  <2> QED
    BY <2>1, <2>2 DEF ExtremesInv, IsMinOf, IsMaxOf
<1>2. CASE ~ CountProcessed(w)
  <2>1. Pays(w) /\ MinStep(w) /\ MaxStep(w)
    BY <1>2, WorkerPays, WorkerExtremes
  <2>2. PICK own, min, max : /\ own = Its(w).latency
                             /\ min = counter["minLatencyNs"]
                             /\ max = counter["maxLatencyNs"]
    OBVIOUS
  <2>3. PICK min1, max1 : /\ min1 = counter'["minLatencyNs"]
                          /\ max1 = counter'["maxLatencyNs"]
    OBVIOUS
  <2>4. event[w] \in Pool /\ own \in Nat /\ own = Info[event[w]].latency
    BY <2>1, <2>2, InCallFacts DEF Pays, Its
  <2>5. min \in Nat /\ max \in Nat
    BY <2>2, CounterNames DEF TypeOK
  <2>6. /\ Booked(5)' = IF Passes(w, 5) THEN Booked(5) \cup {event[w]} ELSE Booked(5)
        /\ Booked(6)' = IF Passes(w, 6) THEN Booked(6) \cup {event[w]} ELSE Booked(6)
    BY <2>1, BookedStep DEF Passes
  <2>7. PICK five, six : five = Booked(5) /\ six = Booked(6)
    OBVIOUS
  <2>8. /\ \A e \in five : Info[e].latency \in Nat
        /\ \A e \in six : Info[e].latency \in Nat
    BY <2>7, InfoFacts DEF Booked, Done
  <2>9. IsMinOf(min1, Booked(5)')
    <3>1. IsMinOf(min, five)
      BY <2>2, <2>7 DEF ExtremesInv
    <3>2. CASE Passes(w, 5)
      <4>1. \/ min1 = min /\ (own = 0 \/ (min # 0 /\ min <= own))
            \/ min1 = own /\ own > 0 /\ (min = 0 \/ own < min)
        BY <2>1, <2>2, <2>3, <3>2 DEF MinStep
      <4>2. IsMinOf(min1, five \cup {event[w]})
        BY <2>4, <2>5, <2>8, <3>1, <4>1 DEF IsMinOf
      <4> QED
        BY <2>6, <2>7, <3>2, <4>2
    <3>3. CASE ~ Passes(w, 5)
      BY <2>1, <2>2, <2>3, <2>6, <2>7, <3>1, <3>3 DEF MinStep
    <3> QED
      BY <3>2, <3>3
  <2>10. IsMaxOf(max1, Booked(6)')
    <3>1. IsMaxOf(max, six)
      BY <2>2, <2>7 DEF ExtremesInv
    <3>2. CASE Passes(w, 6)
      <4>1. (max1 = max /\ own <= max) \/ (max1 = own /\ max < own)
        BY <2>1, <2>2, <2>3, <3>2 DEF MaxStep
      <4>2. IsMaxOf(max1, six \cup {event[w]})
        BY <2>4, <2>5, <2>8, <3>1, <4>1 DEF IsMaxOf
      <4> QED
        BY <2>6, <2>7, <3>2, <4>2
    <3>3. CASE ~ Passes(w, 6)
      BY <2>1, <2>2, <2>3, <2>6, <2>7, <3>1, <3>3 DEF MaxStep
    <3> QED
      BY <3>2, <3>3
  <2> QED
    BY <2>3, <2>9, <2>10 DEF ExtremesInv, IsMinOf, IsMaxOf
<1> QED
  BY <1>1, <1>2

-----------------------------------------------------------------------------
(* Snapshots.                                                              *)

\* No field but the minimum ever goes back.
CountersGrow ==
    \A c \in Counters \ {"minLatencyNs"} : counter[c] <= counter'[c]

\* OnEvent only ever adds.
LEMMA WorkerGrows ==
    ASSUME TypeOK, CallsInv, NEW w \in Workers, OnEvent(w)
    PROVE  CountersGrow
<1>1. counter \in [Counters -> Nat]
  BY DEF TypeOK
<1>2. CASE CountProcessed(w)
  <2>1. Add("TotalProcessed", 1) /\ 1 \in Nat
    BY <1>2 DEF CountProcessed
  <2>2. \A c \in Counters : counter'[c] = counter[c] \/ counter'[c] = counter[c] + 1
    BY <1>1, <2>1, AddFacts, CounterNames
  <2> QED
    BY <1>1, <2>2 DEF CountersGrow
<1>3. CASE ~ CountProcessed(w)
  <2>1. Pays(w) /\ MaxStep(w)
    BY <1>3, WorkerPays, WorkerExtremes
  <2>2. event[w] \in Pool /\ Its(w).latency \in Nat
    BY <2>1, InCallFacts DEF Pays
  <2>3. ASSUME NEW c \in Tallied
        PROVE  counter[c] <= counter'[c]
    <3>1. counter'[c] = counter[c] + Paid(c, Its(w), pc[w], pc'[w])
      BY <2>1 DEF Pays
    <3>2. ShareOf(c, Its(w)) \in Nat
      BY <2>2, ShareFacts DEF Its
    <3>3. Paid(c, Its(w), pc[w], pc'[w]) \in Nat
      BY <3>2 DEF Paid
    <3> QED
      BY <1>1, <3>1, <3>3 DEF Tallied
  <2>4. counter["DroppedEvents"] <= counter'["DroppedEvents"]
    BY <1>1, <2>1, CounterNames DEF Pays
  <2>5. counter["maxLatencyNs"] <= counter'["maxLatencyNs"]
    BY <1>1, <2>1, <2>2, CounterNames DEF MaxStep
  <2> QED
    BY <2>3, <2>4, <2>5 DEF CountersGrow, Tallied
<1> QED
  BY <1>2, <1>3

\* The workers and the dispatcher do not disturb a snapshot under way.
LEMMA GrowthKeepsSnapshots ==
    ASSUME TypeOK, TypeOK', SnapshotInv, CountersGrow, UNCHANGED readerVars
    PROVE  SnapshotInv'
<1>1. /\ pos' = pos /\ mu' = mu /\ last' = last /\ published' = published /\ snap' = snap
      /\ LoadOrder' = LoadOrder
  BY DEF readerVars, LoadOrder
<1>2. /\ counter \in [Counters -> Nat] /\ counter' \in [Counters -> Nat]
      /\ last \in [Rated -> Nat] /\ published \in [Counters -> Nat]
      /\ snap \in [Readers -> [Counters -> Nat]]
  BY DEF TypeOK
<1>3. \A d \in Rated : d \in Counters \ {"minLatencyNs"}
  BY DEF Rated, Counters
<1>4. \A r \in Readers : pos'[r] # 0 => mu' = r
  BY <1>1 DEF SnapshotInv
<1>5. \A d \in Rated : last'[d] <= counter'[d]
  BY <1>1, <1>2, <1>3 DEF SnapshotInv, CountersGrow
<1>6. \A c \in Counters \ {"minLatencyNs"} : published'[c] <= counter'[c]
  BY <1>1, <1>2 DEF SnapshotInv, CountersGrow
<1>7. ASSUME NEW r \in Readers, NEW i \in 1 .. Len(LoadOrder), i < pos[r],
             NEW c, c = LoadOrder[i], c # "minLatencyNs"
      PROVE  published[c] <= snap[r][c] /\ snap[r][c] <= counter'[c]
  <2>1. c \in Counters
    BY <1>7, LoadOrderFacts
  <2>2. published[c] <= snap[r][c] /\ snap[r][c] <= counter[c]
    BY <1>7 DEF SnapshotInv
  <2>3. counter[c] <= counter'[c]
    BY <1>7, <2>1 DEF CountersGrow
  <2>4. snap[r][c] \in Nat /\ counter[c] \in Nat /\ counter'[c] \in Nat
    BY <1>2, <2>1
  <2> QED
    BY <2>2, <2>3, <2>4
<1>8. \A r \in Readers :
        pos'[r] = 2 => last'["TotalProcessed"] <= snap'[r]["TotalProcessed"]
  BY <1>1 DEF SnapshotInv
<1> QED
  BY <1>1, <1>4, <1>5, <1>6, <1>7, <1>8 DEF SnapshotInv

\* The holder of s.mu alone takes its snapshot on, and the rates and the totals
\* it leaves never go back.
LEMMA ReaderKeepsSnapshots ==
    ASSUME TypeOK, SnapshotInv, NEW r \in Readers, Snapshot(r)
    PROVE  /\ TypeOK' /\ SnapshotInv'
           /\ \A d \in Rated : rated'[d] >= rated[d]
           /\ \A c \in Counters \ {"minLatencyNs"} : published'[c] >= published[c]
<1>1. /\ pos \in [Readers -> 0 .. 17]
      /\ mu \in Readers \cup {NoReader}
      /\ snap \in [Readers -> [Counters -> Nat]]
      /\ last \in [Rated -> Nat] /\ rated \in [Rated -> Nat]
      /\ published \in [Counters -> Nat]
      /\ counter \in [Counters -> Nat]
      /\ started \in Nat
      /\ LoadOrder' = LoadOrder
      /\ Rated \subseteq Counters \ {"minLatencyNs"}
      /\ Rated = {"TotalProcessed", "TotalBytes"}
  BY LoadOrderFacts DEF TypeOK, LoadOrder, Rated, Counters
<1>2. CASE SnapshotLock(r)
  <2>1. /\ mu = NoReader /\ mu' = r /\ pos' = [pos EXCEPT ![r] = 1]
        /\ started' = started + 1
        /\ UNCHANGED <<counter, pending, pc, event, cur, snap, last, rated, published>>
    BY <1>2 DEF SnapshotLock, workerVars
  <2>2. \A q \in Readers : pos[q] = 0
    BY <2>1, ReadersAssumption DEF SnapshotInv
  <2>3. pos' \in [Readers -> 0 .. 17] /\ \A q \in Readers : pos'[q] = IF q = r THEN 1 ELSE 0
    BY <1>1, <2>1, <2>2
  <2>4. TypeOK'
    BY <1>1, <2>1, <2>3, LoadOrderFacts DEF TypeOK
  <2>5. SnapshotInv'
    <3>1. \A q \in Readers : pos'[q] # 0 => mu' = q
      BY <2>1, <2>3
    <3>2. \A q \in Readers : \A i \in 1 .. Len(LoadOrder) : ~ (i < pos'[q])
      BY <2>3, LoadOrderFacts
    <3>3. \A q \in Readers : pos'[q] # 2
      BY <2>3
    <3> QED
      BY <1>1, <2>1, <3>1, <3>2, <3>3 DEF SnapshotInv
  <2> QED
    BY <1>1, <2>1, <2>4, <2>5
<1>3. CASE SnapshotLoad(r)
  <2>1. PICK k \in 1 .. 16 : k = pos[r]
    BY <1>3, LoadOrderFacts DEF SnapshotLoad
  <2>2. PICK c \in Counters : c = LoadOrder[k]
    BY <2>1, LoadOrderFacts
  <2>3. /\ snap' = [snap EXCEPT ![r][c] = counter[c]]
        /\ pos' = [pos EXCEPT ![r] = @ + 1]
        /\ UNCHANGED <<counter, pending, pc, event, cur, mu, published, started>>
    BY <1>3, <2>1, <2>2 DEF SnapshotLoad, workerVars
  <2>4. /\ snap' \in [Readers -> [Counters -> Nat]]
        /\ snap'[r][c] = counter[c]
        /\ \A d \in Counters : d # c => snap'[r][d] = snap[r][d]
        /\ \A q \in Readers : q # r => snap'[q] = snap[q]
    BY <1>1, <2>3
  <2>5. /\ pos' \in [Readers -> 0 .. 17] /\ pos'[r] = k + 1
        /\ \A q \in Readers : q # r => pos'[q] = pos[q]
    BY <1>1, <2>1, <2>3
  <2>6. mu = r /\ \A q \in Readers : q # r => pos[q] = 0
    <3>1. \A q \in Readers : pos[q] # 0 => mu = q
      BY DEF SnapshotInv
    <3>2. pos[r] # 0
      BY <2>1
    <3> QED
      BY <3>1, <3>2
  <2>7. /\ last' \in [Rated -> Nat] /\ rated' \in [Rated -> Nat]
        /\ \A d \in Rated : last'[d] <= counter[d] /\ rated[d] <= rated'[d]
        /\ k = 1 => last' = last
    <3>1. CASE c # "TotalBytes"
      <4>1. last' = last /\ rated' = rated
        BY <1>3, <2>1, <2>2, <3>1 DEF SnapshotLoad
      <4> QED
        BY <1>1, <4>1 DEF SnapshotInv
    <3>2. CASE c = "TotalBytes"
      <4>1. k = 2
        BY <2>2, <3>2, LoadOrderFacts
      <4>2. /\ last' = [d \in Rated |-> snap'[r][d]]
            /\ rated' = [d \in Rated |-> rated[d] + (last'[d] - last[d])]
        BY <1>3, <2>1, <2>2, <3>2 DEF SnapshotLoad
      <4>3. /\ last' \in [Rated -> Nat]
            /\ \A d \in Rated : last'[d] = snap'[r][d]
        BY <1>1, <2>4, <4>2
      <4>4. last["TotalProcessed"] <= snap[r]["TotalProcessed"]
        BY <2>1, <4>1 DEF SnapshotInv
      <4>5. snap[r]["TotalProcessed"] <= counter["TotalProcessed"]
        <5>1. 1 \in 1 .. Len(LoadOrder) /\ 1 < pos[r]
          BY <2>1, <4>1, LoadOrderFacts
        <5> QED
          BY <5>1, LoadOrderFacts DEF SnapshotInv
      <4>6. last["TotalBytes"] <= counter["TotalBytes"]
        BY <1>1 DEF SnapshotInv
      <4>7. \A d \in Rated : last[d] <= last'[d] /\ last'[d] <= counter[d]
        BY <1>1, <2>4, <3>2, <4>3, <4>4, <4>5, <4>6
      <4>8. \A d \in Rated : rated'[d] \in Nat /\ rated[d] <= rated'[d]
        BY <1>1, <4>2, <4>3, <4>7
      <4> QED
        BY <4>1, <4>2, <4>3, <4>7, <4>8
    <3> QED
      BY <3>1, <3>2
  <2>8. TypeOK'
    BY <1>1, <2>3, <2>4, <2>5, <2>7, LoadOrderFacts DEF TypeOK
  <2>9. SnapshotInv'
    <3>1. \A q \in Readers : pos'[q] # 0 => mu' = q
      BY <2>3, <2>5, <2>6
    <3>2. \A d \in Rated : last'[d] <= counter'[d]
      BY <2>3, <2>7
    <3>3. \A d \in Counters \ {"minLatencyNs"} : published'[d] <= counter'[d]
      BY <2>3 DEF SnapshotInv
    <3>4. ASSUME NEW q \in Readers, NEW i \in 1 .. Len(LoadOrder), i < pos'[q],
                 NEW d, d = LoadOrder[i], d # "minLatencyNs"
          PROVE  published'[d] <= snap'[q][d] /\ snap'[q][d] <= counter'[d]
      <4>1. q = r /\ i \in 1 .. 16 /\ i < k + 1 /\ d \in Counters
        BY <2>5, <2>6, <3>4, LoadOrderFacts
      <4>2. CASE i = k
        <5>1. d = c /\ snap'[q][d] = counter[d]
          BY <2>2, <2>4, <3>4, <4>1, <4>2
        <5>2. published[d] <= counter[d] /\ counter[d] \in Nat
          BY <1>1, <3>4, <4>1 DEF SnapshotInv
        <5> QED
          BY <2>3, <5>1, <5>2
      <4>3. CASE i # k
        <5>1. d # c
          BY <2>2, <3>4, <4>1, <4>3, LoadOrderFacts
        <5>2. i < pos[r]
          BY <2>1, <4>1, <4>3
        <5>3. published[d] <= snap[r][d] /\ snap[r][d] <= counter[d]
          BY <3>4, <5>2 DEF SnapshotInv
        <5> QED
          BY <2>3, <2>4, <4>1, <5>1, <5>3
      <4> QED
        BY <4>2, <4>3
    <3>5. ASSUME NEW q \in Readers, pos'[q] = 2
          PROVE  last'["TotalProcessed"] <= snap'[q]["TotalProcessed"]
      <4>1. q = r /\ k = 1
        BY <2>1, <2>5, <2>6, <3>5
      <4>2. c = "TotalProcessed" /\ last' = last
        BY <2>2, <2>7, <4>1, LoadOrderFacts
      <4> QED
        BY <1>1, <2>4, <4>1, <4>2 DEF SnapshotInv
    <3> QED
      BY <1>1, <3>1, <3>2, <3>3, <3>4, <3>5 DEF SnapshotInv
  <2>10. \A d \in Rated : rated'[d] >= rated[d]
    BY <1>1, <2>7
  <2>11. \A d \in Counters \ {"minLatencyNs"} : published'[d] >= published[d]
    BY <1>1, <2>3
  <2> QED
    BY <2>8, <2>9, <2>10, <2>11
<1>4. CASE SnapshotReturn(r)
  <2>1. /\ pos[r] = 17 /\ published' = snap[r] /\ mu' = NoReader
        /\ pos' = [pos EXCEPT ![r] = 0] /\ snap' = [snap EXCEPT ![r] = Zero]
        /\ UNCHANGED <<counter, pending, pc, event, cur, last, rated, started>>
    BY <1>4, LoadOrderFacts DEF SnapshotReturn, workerVars
  <2>2. \A q \in Readers : q # r => pos[q] = 0
    BY <1>1, <2>1 DEF SnapshotInv
  <2>3. pos' \in [Readers -> 0 .. 17] /\ \A q \in Readers : pos'[q] = 0
    BY <1>1, <2>1, <2>2
  <2>4. snap' \in [Readers -> [Counters -> Nat]] /\ published' \in [Counters -> Nat]
    BY <1>1, <2>1 DEF Zero
  <2>5. ASSUME NEW c \in Counters \ {"minLatencyNs"}
        PROVE  published[c] <= published'[c] /\ published'[c] <= counter[c]
    <3>1. PICK i \in 1 .. 16 : LoadOrder[i] = c
      BY LoadOrderFacts
    <3>2. i \in 1 .. Len(LoadOrder) /\ i < pos[r]
      BY <2>1, LoadOrderFacts
    <3> QED
      BY <2>1, <3>1, <3>2 DEF SnapshotInv
  <2>6. TypeOK'
    BY <1>1, <2>1, <2>3, <2>4, LoadOrderFacts DEF TypeOK
  <2>7. SnapshotInv'
    <3>1. \A d \in Rated : last'[d] <= counter'[d]
      BY <2>1 DEF SnapshotInv
    <3>2. \A q \in Readers : \A i \in 1 .. Len(LoadOrder) : ~ (i < pos'[q])
      BY <2>3, LoadOrderFacts
    <3> QED
      BY <1>1, <2>1, <2>3, <2>5, <3>1, <3>2 DEF SnapshotInv
  <2>8. \A d \in Counters \ {"minLatencyNs"} : published'[d] >= published[d]
    BY <1>1, <2>4, <2>5
  <2> QED
    BY <1>1, <2>1, <2>6, <2>7, <2>8
<1> QED
  BY <1>2, <1>3, <1>4 DEF Snapshot

-----------------------------------------------------------------------------
(* The invariant is inductive.                                             *)

\* A new sink has counted nothing.
LEMMA SinkInvInit == Init => SinkInv
<1> SUFFICES ASSUME Init PROVE SinkInv
  OBVIOUS
<1>1. Done = {} /\ InCall = {}
  BY DEF Init, Done, InCall
<1>2. \A n : Booked(n) = {}
  BY <1>1 DEF Booked
<1>3. /\ counter = [c \in Counters |-> 0] /\ published = counter
      /\ \A r \in Readers : pos[r] = 0
      /\ last = [c \in Rated |-> 0]
      /\ Rated \subseteq Counters
      /\ 0 \in 0 .. Len(LoadOrder) + 1
  BY LoadOrderFacts DEF Init, Zero, Rated, Counters
<1>4. TypeOK
  BY <1>3 DEF Init, TypeOK, Labels, Zero
<1>5. CallsInv
  BY <1>1 DEF CallsInv
<1>6. TalliesInv
  BY <1>1, <1>2, <1>3, SumEmpty, FS_EmptySet DEF TalliesInv, Tallied
<1>7. ExtremesInv
  BY <1>2, <1>3, CounterNames DEF ExtremesInv, IsMinOf, IsMaxOf
<1>8. SnapshotInv
  <2>1. \A r \in Readers : \A i \in 1 .. Len(LoadOrder) : ~ (i < pos[r])
    BY <1>3, LoadOrderFacts
  <2> QED
    BY <1>3, <2>1 DEF SnapshotInv
<1> QED
  BY <1>4, <1>5, <1>6, <1>7, <1>8 DEF SinkInv

\* Everything OnEvent's part of the invariant speaks of.
LEMMA WorkersUnchanged ==
    ASSUME UNCHANGED <<pending, pc, event, cur>>,
           \A c \in Tallied \cup {"minLatencyNs", "maxLatencyNs"} : counter'[c] = counter[c]
    PROVE  /\ CallsInv => CallsInv'
           /\ TalliesInv => TalliesInv'
           /\ ExtremesInv => ExtremesInv'
<1>1. Done' = Done /\ InCall' = InCall /\ \A w : Its(w)' = Its(w)
  BY DEF Done, InCall, Its
<1>2. \A n : Booked(n)' = Booked(n)
  BY <1>1 DEF Booked
<1>3. CallsInv => CallsInv'
  BY <1>1 DEF CallsInv
<1>4. TalliesInv => TalliesInv'
  BY <1>1, <1>2 DEF TalliesInv, Share
<1>5. ExtremesInv => ExtremesInv'
  BY <1>2 DEF ExtremesInv, IsMinOf, IsMaxOf
<1> QED
  BY <1>3, <1>4, <1>5

\* What any step of the system does, besides keeping the invariant.
LEMMA StepFacts ==
    SinkInv /\ [Next]_vars =>
       /\ SinkInv'
       /\ \/ \E w \in Workers : OnEvent(w)
          \/ \A c \in Counters \ {"DroppedEvents"} : counter'[c] = counter[c]
       /\ \A d \in Rated : rated'[d] >= rated[d]
       /\ \A c \in Counters \ {"minLatencyNs"} : published'[c] >= published[c]
<1> DEFINE Grows == /\ \A d \in Rated : rated'[d] >= rated[d]
                    /\ \A c \in Counters \ {"minLatencyNs"} : published'[c] >= published[c]
           Counts == \/ \E w \in Workers : OnEvent(w)
                     \/ \A c \in Counters \ {"DroppedEvents"} : counter'[c] = counter[c]
<1> SUFFICES ASSUME SinkInv, [Next]_vars PROVE SinkInv' /\ Counts /\ Grows
  OBVIOUS
<1>1. TypeOK /\ CallsInv /\ TalliesInv /\ ExtremesInv /\ SnapshotInv
  BY DEF SinkInv
<1>2. ASSUME UNCHANGED readerVars
      PROVE  Grows
  BY <1>1, <1>2 DEF readerVars, TypeOK, Rated
<1>3. CASE \E w \in Workers : OnEvent(w)
  <2>1. PICK w \in Workers : OnEvent(w)
    BY <1>3
  <2>2. TypeOK' /\ CallsInv'
    BY <1>1, <2>1, WorkerKeepsCalls
  <2>3. TalliesInv'
    BY <1>1, <2>1, WorkerKeepsTallies
  <2>4. ExtremesInv'
    BY <1>1, <2>1, WorkerKeepsExtremes
  <2>5. UNCHANGED readerVars
    BY <2>1 DEF OnEvent, CountProcessed, CountBytes, CountError, AddLatency, CountLatency,
                LoadMin, CasMin, LoadMax, CasMax, CountL3, CountL4, Keep
  <2>6. SnapshotInv'
    BY <1>1, <2>1, <2>2, <2>5, WorkerGrows, GrowthKeepsSnapshots
  <2> QED
    BY <1>2, <1>3, <2>2, <2>3, <2>4, <2>5, <2>6 DEF SinkInv
<1>4. CASE \E r \in Readers : Snapshot(r)
  <2>1. PICK r \in Readers : Snapshot(r)
    BY <1>4
  <2>2. UNCHANGED <<counter, pending, pc, event, cur>>
    BY <2>1 DEF Snapshot, SnapshotLock, SnapshotLoad, SnapshotReturn, workerVars
  <2>3. CallsInv' /\ TalliesInv' /\ ExtremesInv'
    BY <1>1, <2>2, WorkersUnchanged
  <2>4. TypeOK' /\ SnapshotInv' /\ Grows
    BY <1>1, <2>1, ReaderKeepsSnapshots
  <2>5. Counts
    BY <2>2
  <2> QED
    BY <2>3, <2>4, <2>5 DEF SinkInv
<1>5. CASE RecordDrop
  <2>1. Add("DroppedEvents", 1) /\ UNCHANGED workerVars /\ UNCHANGED readerVars
    BY <1>5 DEF RecordDrop
  <2>2. UNCHANGED <<pending, pc, event, cur>>
    BY <2>1 DEF workerVars
  <2>3. /\ counter' \in [Counters -> Nat]
        /\ counter'["DroppedEvents"] = counter["DroppedEvents"] + 1
        /\ \A c \in Counters : c # "DroppedEvents" => counter'[c] = counter[c]
    BY <1>1, <2>1, AddFacts, CounterNames DEF TypeOK
  <2>4. CallsInv' /\ TalliesInv' /\ ExtremesInv'
    BY <1>1, <2>2, <2>3, WorkersUnchanged, CounterNames DEF Tallied
  <2>5. TypeOK'
    BY <1>1, <2>1, <2>2, <2>3, LoadOrderFacts DEF TypeOK, readerVars, LoadOrder
  <2>6. CountersGrow
    <3>1. \A c \in Counters : counter[c] \in Nat
      BY <1>1 DEF TypeOK
    <3>2. \A c \in Counters : counter'[c] = counter[c] \/ counter'[c] = counter[c] + 1
      BY <2>3
    <3> QED
      BY <3>1, <3>2 DEF CountersGrow
  <2>7. SnapshotInv'
    BY <1>1, <2>1, <2>5, <2>6, GrowthKeepsSnapshots
  <2> QED
    BY <1>2, <2>1, <2>3, <2>4, <2>5, <2>7 DEF SinkInv
<1>6. CASE UNCHANGED vars
  <2>1. UNCHANGED <<counter, pending, pc, event, cur>> /\ UNCHANGED readerVars
    BY <1>6 DEF vars, workerVars
  <2>2. CallsInv' /\ TalliesInv' /\ ExtremesInv'
    BY <1>1, <2>1, WorkersUnchanged
  <2>3. TypeOK'
    BY <1>1, <2>1, LoadOrderFacts DEF TypeOK, readerVars, LoadOrder
  <2>4. CountersGrow
    BY <1>1, <2>1 DEF CountersGrow, TypeOK
  <2>5. SnapshotInv'
    BY <1>1, <2>1, <2>3, <2>4, GrowthKeepsSnapshots
  <2> QED
    BY <1>2, <2>1, <2>2, <2>3, <2>5 DEF SinkInv
<1> QED
  BY <1>3, <1>4, <1>5, <1>6 DEF Next, AllDone

\* Whatever the interleaving of workers, callers of Snapshot and the dispatcher,
\* each field holds exactly what the calls past it have contributed.
THEOREM SinkInvariance == Spec => []SinkInv
<1>1. SinkInv /\ [Next]_vars => SinkInv'
  BY StepFacts
<1> QED
  BY SinkInvInit, <1>1, PTL DEF Spec

-----------------------------------------------------------------------------
(* The properties of the runs.                                             *)

\* Once no OnEvent is under way every event processed is booked everywhere.
LEMMA BookedAtRest ==
    ASSUME TypeOK, InCall = {}, NEW n \in 0 .. 8
    PROVE  Booked(n) = Done
<1>1. \A w \in Workers : pc[w] = "idle"
  BY DEF InCall
<1>2. Stage("idle") = 9
  BY DEF Stage
<1> QED
  BY <1>1, <1>2 DEF Booked

\* The field of an event a tally sums up.
FieldOf(c) == IF c = "TotalBytes" THEN "bytes" ELSE "latency"

\* The sum of a field over events, in the order the fold takes them.
LEMMA FieldSum ==
    ASSUME NEW S \in SUBSET Pool, IsFiniteSet(S), NEW c \in {"TotalBytes", "totalLatencyNs"}
    PROVE  Sum(Share(c), S) = MapThenSumSet(LAMBDA e : Info[e][FieldOf(c)], S)
<1> DEFINE Fold(g) == g = [s \in SUBSET S |->
                 IF s = {} THEN 0
                 ELSE LET x == CHOOSE x \in s : TRUE IN Info[x][FieldOf(c)] + g[s \ {x}]]
<1>1. PICK f : f = Share(c)
  OBVIOUS
<1>2. \A e \in Pool : f[e] = Info[e][FieldOf(c)] /\ f[e] \in Nat
  BY <1>1, InfoFacts DEF Share, ShareOf, L3, FieldOf
<1>3. MapThenSumSet(LAMBDA e : Info[e][FieldOf(c)], S) = (CHOOSE g : Fold(g))[S]
  BY DEF MapThenSumSet, MapThenFoldSet
<1>4. \A g : Fold(g) <=> Folded(f, S, g)
  <2>1. ASSUME NEW g
        PROVE  [s \in SUBSET S |->
                  IF s = {} THEN 0
                  ELSE LET x == CHOOSE x \in s : TRUE IN Info[x][FieldOf(c)] + g[s \ {x}]]
             = [s \in SUBSET S |->
                  IF s = {} THEN 0
                  ELSE LET x == CHOOSE x \in s : TRUE IN f[x] + g[s \ {x}]]
    <3>1. ASSUME NEW s \in SUBSET S, s # {}, NEW x, x = CHOOSE y \in s : TRUE
          PROVE  Info[x][FieldOf(c)] = f[x]
      BY <1>2, <3>1
    <3> QED
      BY <3>1
  <2> QED
    BY <2>1 DEF Folded
<1> HIDE DEF Fold
<1>5. \E g : Fold(g)
  BY <1>2, <1>4, FoldExists
<1>6. PICK g : g = CHOOSE h : Fold(h)
  OBVIOUS
<1>7. Folded(f, S, g)
  BY <1>4, <1>5, <1>6
<1>8. g[S] = Cardinality(Units(f, S))
  BY <1>2, <1>7, FoldCounts
<1>9. Sum(f, S) = Cardinality(Units(f, S))
  BY <1>2, SumCounts
<1> QED
  BY <1>1, <1>3, <1>6, <1>8, <1>9

\* The sums of ExactAtRest.
LEMMA BytesSum ==
    ASSUME NEW S \in SUBSET Pool, IsFiniteSet(S)
    PROVE  Sum(Share("TotalBytes"), S) = MapThenSumSet(LAMBDA e : Info[e].bytes, S)
<1>1. FieldOf("TotalBytes") = "bytes"
  BY DEF FieldOf
<1>2. Sum(Share("TotalBytes"), S) = MapThenSumSet(LAMBDA e : Info[e][FieldOf("TotalBytes")], S)
  BY FieldSum
<1> QED
  BY <1>1, <1>2 DEF MapThenSumSet, MapThenFoldSet

\* The same for the latencies.
LEMMA LatencySum ==
    ASSUME NEW S \in SUBSET Pool, IsFiniteSet(S)
    PROVE  Sum(Share("totalLatencyNs"), S) = MapThenSumSet(LAMBDA e : Info[e].latency, S)
<1>1. FieldOf("totalLatencyNs") = "latency"
  BY DEF FieldOf
<1>2. Sum(Share("totalLatencyNs"), S) =
        MapThenSumSet(LAMBDA e : Info[e][FieldOf("totalLatencyNs")], S)
  BY FieldSum
<1> QED
  BY <1>1, <1>2 DEF MapThenSumSet, MapThenFoldSet

\* A tally of ones and zeros is the number of the events it counts.
LEMMA TallyCounts ==
    ASSUME TalliesInv, NEW c \in Tallied \ {"TotalBytes", "totalLatencyNs"}
    PROVE  /\ IsFiniteSet(Booked(Due(c)))
           /\ counter[c] = Cardinality({e \in Booked(Due(c)) : ShareOf(c, Info[e]) = 1})
<1>1. PICK f, S : f = Share(c) /\ S = Booked(Due(c))
  OBVIOUS
<1>2. S \subseteq Done /\ S \subseteq Pool
  BY <1>1 DEF Booked, Done
<1>3. IsFiniteSet(S)
  BY <1>2, FS_Subset DEF TalliesInv
<1>4. \A e \in S : f[e] = ShareOf(c, Info[e]) /\ f[e] \in {0, 1}
  <2>1. \A i : ShareOf(c, i) \in {0, 1}
    BY DEF ShareOf, Flag, Tallied, Counters, L3, L4
  <2> QED
    BY <1>1, <1>2, <2>1, ShareFacts
<1>5. Sum(f, S) = Cardinality({e \in S : f[e] = 1})
  BY <1>3, <1>4, SumOfFlags
<1>6. {e \in S : f[e] = 1} = {e \in S : ShareOf(c, Info[e]) = 1}
  BY <1>4
<1> QED
  BY <1>1, <1>3, <1>5, <1>6 DEF TalliesInv

\* The fields by what they count.
LEMMA TallyMeanings ==
    ASSUME TalliesInv
    PROVE  /\ counter["TotalProcessed"] = Cardinality(Booked(0))
           /\ counter["ErrorEvents"] = Cardinality({e \in Booked(2) : Info[e].error})
           /\ counter["countLatency"] = Cardinality({e \in Booked(4) : Info[e].latency > 0})
           /\ \A c \in L3 : counter[c] =
                Cardinality({e \in Booked(7) : Info[e].l3 = c /\ Info[e].l4 # "SerialCount"})
           /\ \A c \in L4 \cup {"SerialCount"} :
                counter[c] = Cardinality({e \in Booked(8) : Info[e].l4 = c})
<1> USE DEF Tallied, Counters, L3, L4, Due
<1>1. counter["TotalProcessed"] = Cardinality(Booked(0))
  <2>1. {e \in Booked(0) : ShareOf("TotalProcessed", Info[e]) = 1} = Booked(0)
    BY DEF ShareOf
  <2> QED
    BY <2>1, TallyCounts
<1>2. counter["ErrorEvents"] = Cardinality({e \in Booked(2) : Info[e].error})
  <2>1. {e \in Booked(2) : ShareOf("ErrorEvents", Info[e]) = 1}
          = {e \in Booked(2) : Info[e].error}
    <3>1. \A i : ShareOf("ErrorEvents", i) = 1 <=> i.error
      BY DEF ShareOf, Flag
    <3> QED
      BY <3>1
  <2> QED
    BY <2>1, TallyCounts
<1>3. counter["countLatency"] = Cardinality({e \in Booked(4) : Info[e].latency > 0})
  <2>1. {e \in Booked(4) : ShareOf("countLatency", Info[e]) = 1}
          = {e \in Booked(4) : Info[e].latency > 0}
    <3>1. \A i : ShareOf("countLatency", i) = 1 <=> i.latency > 0
      BY DEF ShareOf, Flag
    <3> QED
      BY <3>1
  <2> QED
    BY <2>1, TallyCounts
<1>4. ASSUME NEW c \in L3
      PROVE  counter[c] =
               Cardinality({e \in Booked(7) : Info[e].l3 = c /\ Info[e].l4 # "SerialCount"})
  <2>1. {e \in Booked(7) : ShareOf(c, Info[e]) = 1}
          = {e \in Booked(7) : Info[e].l3 = c /\ Info[e].l4 # "SerialCount"}
    <3>1. \A i : ShareOf(c, i) = 1 <=> i.l3 = c /\ i.l4 # "SerialCount"
      BY DEF ShareOf, Flag
    <3> QED
      BY <3>1
  <2>2. Due(c) = 7 /\ c \in Tallied \ {"TotalBytes", "totalLatencyNs"}
    OBVIOUS
  <2> QED
    BY <2>1, <2>2, TallyCounts
<1>5. ASSUME NEW c \in L4 \cup {"SerialCount"}
      PROVE  counter[c] = Cardinality({e \in Booked(8) : Info[e].l4 = c})
  <2>1. {e \in Booked(8) : ShareOf(c, Info[e]) = 1} = {e \in Booked(8) : Info[e].l4 = c}
    <3>1. \A i : ShareOf(c, i) = 1 <=> i.l4 = c
      BY DEF ShareOf, Flag
    <3> QED
      BY <3>1
  <2>2. Due(c) = 8 /\ c \in Tallied \ {"TotalBytes", "totalLatencyNs"}
    OBVIOUS
  <2> QED
    BY <2>1, <2>2, TallyCounts
<1> QED
  BY <1>1, <1>2, <1>3, <1>4, <1>5

\* The extremes of the samples, as the property writes them.
LEMMA ExtremeValues ==
    ASSUME NEW S \in SUBSET Pool, NEW T, NEW m \in Nat, NEW M \in Nat,
           T = {Info[e].latency : e \in {d \in S : Info[d].latency > 0}},
           IsMinOf(m, S), IsMaxOf(M, S)
    PROVE  /\ m = IF T = {} THEN 0 ELSE Min(T)
           /\ M = IF T = {} THEN 0 ELSE Max(T)
<1>1. \A e \in S : Info[e].latency \in Nat
  BY InfoFacts
<1>2. T \subseteq Nat \ {0}
  BY <1>1
<1>3. /\ m = 0 => T = {}
      /\ m # 0 => m \in T /\ \A x \in T : m <= x
  BY <1>1 DEF IsMinOf
<1>4. /\ M = 0 => T = {}
      /\ M # 0 => M \in T /\ \A x \in T : x <= M
  BY <1>1 DEF IsMaxOf
<1>5. ASSUME T # {}
      PROVE  Min(T) = m
  <2>1. m \in T /\ \A x \in T : m <= x
    BY <1>3, <1>5
  <2>2. \A y \in T : (\A x \in T : y <= x) => y = m
    BY <1>2, <2>1
  <2> QED
    BY <2>1, <2>2 DEF Min
<1>6. ASSUME T # {}
      PROVE  Max(T) = M
  <2>1. M \in T /\ \A x \in T : M >= x
    BY <1>2, <1>4, <1>6
  <2>2. \A y \in T : (\A x \in T : y >= x) => y = M
    BY <1>2, <2>1
  <2> QED
    BY <2>1, <2>2 DEF Max
<1> QED
  BY <1>3, <1>4, <1>5, <1>6

\* The invariant, read when no call is under way.
LEMMA InvGivesExactAtRest == SinkInv => ExactAtRest
<1> SUFFICES ASSUME SinkInv, InCall = {} PROVE ExactAtRest
  BY DEF ExactAtRest
<1>1. TypeOK /\ TalliesInv /\ ExtremesInv
  BY DEF SinkInv
<1>2. \A n \in 0 .. 8 : Booked(n) = Done
  BY <1>1, BookedAtRest
<1>3. PICK done : done = Pool \ pending
  OBVIOUS
<1>4. done = Done /\ IsFiniteSet(done) /\ done \in SUBSET Pool
  BY <1>1, <1>3 DEF Done, TalliesInv
<1>5. counter["TotalProcessed"] = Cardinality(done)
  BY <1>1, <1>2, <1>4, TallyMeanings
<1>6. counter["ErrorEvents"] = Cardinality({e \in done : Info[e].error})
  <2>1. Booked(2) = done
    BY <1>2, <1>4
  <2> QED
    BY <1>1, <2>1, TallyMeanings
<1>7. counter["countLatency"] = Cardinality({e \in done : Info[e].latency > 0})
  <2>1. Booked(4) = done
    BY <1>2, <1>4
  <2> QED
    BY <1>1, <2>1, TallyMeanings
<1>8. counter["TotalBytes"] = Sum(Share("TotalBytes"), done)
      /\ counter["totalLatencyNs"] = Sum(Share("totalLatencyNs"), done)
  <2>1. /\ "TotalBytes" \in Tallied /\ "totalLatencyNs" \in Tallied
        /\ Due("TotalBytes") = 1 /\ Due("totalLatencyNs") = 3
    BY DEF Tallied, Counters, Due, L3
  <2> QED
    BY <1>1, <1>2, <1>4, <2>1 DEF TalliesInv
<1>9. PICK timed : timed = {Info[e].latency : e \in {d \in done : Info[d].latency > 0}}
  OBVIOUS
<1>10. /\ counter["minLatencyNs"] = IF timed = {} THEN 0 ELSE Min(timed)
       /\ counter["maxLatencyNs"] = IF timed = {} THEN 0 ELSE Max(timed)
  <2>1. counter["minLatencyNs"] \in Nat /\ counter["maxLatencyNs"] \in Nat
    BY <1>1, CounterNames DEF TypeOK
  <2>2. IsMinOf(counter["minLatencyNs"], done) /\ IsMaxOf(counter["maxLatencyNs"], done)
    BY <1>1, <1>2, <1>4 DEF ExtremesInv
  <2> QED
    BY <1>4, <1>9, <2>1, <2>2, ExtremeValues
<1>11. counter["TotalBytes"] = MapThenSumSet(LAMBDA e : Info[e].bytes, done)
  BY <1>4, <1>8, BytesSum
<1>12. counter["totalLatencyNs"] = MapThenSumSet(LAMBDA e : Info[e].latency, done)
  BY <1>4, <1>8, LatencySum
<1> QED
  BY <1>3, <1>5, <1>6, <1>7, <1>9, <1>10, <1>11, <1>12 DEF ExactAtRest

\* For any number of workers, callers of Snapshot and events: when no OnEvent is
\* under way, the fields are those of a sequential execution, no increment and
\* no extreme lost.
THEOREM StatsExactAtRest == Spec => []ExactAtRest
BY SinkInvariance, InvGivesExactAtRest, PTL

-----------------------------------------------------------------------------
(* The partition by protocol.                                              *)

\* Two sets of events that have none in common.
LEMMA DisjointUnion ==
    ASSUME NEW A, NEW B, IsFiniteSet(A), IsFiniteSet(B), A \cap B = {}
    PROVE  /\ IsFiniteSet(A \cup B)
           /\ Cardinality(A \cup B) = Cardinality(A) + Cardinality(B)
<1>1. Cardinality(A) \in Nat /\ Cardinality(B) \in Nat
  BY FS_CardinalityType
<1>2. Cardinality(A \cap B) = 0
  BY FS_EmptySet, Zenon
<1>3. /\ IsFiniteSet(A \cup B)
      /\ Cardinality(A \cup B) = Cardinality(A) + Cardinality(B) - Cardinality(A \cap B)
  BY FS_Union
<1> QED
  BY <1>1, <1>2, <1>3

\* The sums of ProtocolPartition, written out.
LEMMA ProtocolSums ==
    ASSUME TypeOK
    PROVE  /\ MapThenSumSet(LAMBDA c : counter[c], L4 \cup {"SerialCount"}) =
                counter["TCPCount"] + counter["UDPCount"] + counter["ICMPCount"]
                + counter["OtherCount"] + counter["SerialCount"]
           /\ MapThenSumSet(LAMBDA c : counter[c], L3) =
                counter["IPv4Count"] + counter["IPv6Count"] + counter["ARPCount"]
<1>1. PICK f : f = counter
  OBVIOUS
<1>2. \A c \in Counters : f[c] \in Nat
  BY <1>1 DEF TypeOK
<1>3. ASSUME NEW S \in SUBSET Counters, IsFiniteSet(S), NEW c \in Counters, c \notin S
      PROVE  IsFiniteSet(S \cup {c}) /\ Sum(f, S \cup {c}) = f[c] + Sum(f, S)
  BY <1>2, <1>3, SumAdd, FS_AddElement
<1>4. IsFiniteSet({}) /\ Sum(f, {}) = 0
  BY FS_EmptySet, SumEmpty
<1>5. L3 \subseteq Counters /\ L4 \cup {"SerialCount"} \subseteq Counters
  BY CounterNames
<1>6. Sum(f, L3) = f["IPv4Count"] + f["IPv6Count"] + f["ARPCount"]
  <2>1. PICK A : A = {} \cup {"ARPCount"}
    OBVIOUS
  <2>2. IsFiniteSet(A) /\ Sum(f, A) = f["ARPCount"]
    BY <1>2, <1>3, <1>4, <1>5, <2>1 DEF L3
  <2>3. PICK B : B = A \cup {"IPv6Count"}
    OBVIOUS
  <2>4. IsFiniteSet(B) /\ Sum(f, B) = f["IPv6Count"] + Sum(f, A)
    BY <1>3, <1>5, <2>1, <2>2, <2>3 DEF L3
  <2>5. Sum(f, B \cup {"IPv4Count"}) = f["IPv4Count"] + Sum(f, B)
    BY <1>3, <1>5, <2>1, <2>3, <2>4 DEF L3
  <2>6. L3 = B \cup {"IPv4Count"}
    BY <2>1, <2>3 DEF L3
  <2>7. Sum(f, L3) = f["IPv4Count"] + Sum(f, B)
    BY <2>5, <2>6
  <2>8. f["IPv4Count"] \in Nat /\ f["IPv6Count"] \in Nat /\ f["ARPCount"] \in Nat
    BY <1>2, <1>5 DEF L3
  <2> QED
    BY <2>2, <2>4, <2>7, <2>8
<1>7. Sum(f, L4 \cup {"SerialCount"}) =
        f["TCPCount"] + f["UDPCount"] + f["ICMPCount"] + f["OtherCount"] + f["SerialCount"]
  <2>1. PICK A : A = {} \cup {"SerialCount"}
    OBVIOUS
  <2>2. IsFiniteSet(A) /\ Sum(f, A) = f["SerialCount"]
    BY <1>2, <1>3, <1>4, <1>5, <2>1
  <2>3. PICK B : B = A \cup {"OtherCount"}
    OBVIOUS
  <2>4. IsFiniteSet(B) /\ Sum(f, B) = f["OtherCount"] + Sum(f, A)
    BY <1>3, <1>5, <2>1, <2>2, <2>3 DEF L4
  <2>5. PICK C : C = B \cup {"ICMPCount"}
    OBVIOUS
  <2>6. IsFiniteSet(C) /\ Sum(f, C) = f["ICMPCount"] + Sum(f, B)
    BY <1>3, <1>5, <2>1, <2>3, <2>4, <2>5 DEF L4
  <2>7. PICK D : D = C \cup {"UDPCount"}
    OBVIOUS
  <2>8. IsFiniteSet(D) /\ Sum(f, D) = f["UDPCount"] + Sum(f, C)
    BY <1>3, <1>5, <2>1, <2>3, <2>5, <2>6, <2>7 DEF L4
  <2>9. Sum(f, D \cup {"TCPCount"}) = f["TCPCount"] + Sum(f, D)
    BY <1>3, <1>5, <2>1, <2>3, <2>5, <2>7, <2>8 DEF L4
  <2>10. L4 \cup {"SerialCount"} = D \cup {"TCPCount"}
    BY <2>1, <2>3, <2>5, <2>7 DEF L4
  <2>11. Sum(f, L4 \cup {"SerialCount"}) = f["TCPCount"] + Sum(f, D)
    BY <2>9, <2>10
  <2>12. /\ f["TCPCount"] \in Nat /\ f["UDPCount"] \in Nat /\ f["ICMPCount"] \in Nat
         /\ f["OtherCount"] \in Nat /\ f["SerialCount"] \in Nat
    BY <1>2, <1>5 DEF L4
  <2> QED
    BY <2>2, <2>4, <2>6, <2>8, <2>11, <2>12
<1> QED
  BY <1>1, <1>6, <1>7 DEF Sum

\* The events processed are those whose calls have returned and one per call.
LEMMA ReturnedAndInCall ==
    ASSUME TypeOK, CallsInv, TalliesInv
    PROVE  /\ Cardinality(Booked(8)) = Cardinality(Done) - Cardinality(InCall)
           /\ Cardinality(InCall) \in Nat
<1> DEFINE f == [w \in InCall |-> event[w]]
           T == {event[w] : w \in InCall}
<1>1. T \subseteq Done /\ IsFiniteSet(Done)
  BY DEF CallsInv, TalliesInv
<1>2. IsFiniteSet(T)
  BY <1>1, FS_Subset
<1>3. f \in Injection(InCall, T) /\ f \in Surjection(InCall, T)
  BY DEF CallsInv, Injection, Surjection, IsInjective
<1>4. IsFiniteSet(InCall) /\ Cardinality(InCall) = Cardinality(T)
  <2> HIDE DEF f, T
  <2> QED
    BY <1>2, <1>3, FS_Injection
<1>5. Booked(8) = Done \ T
  <2>1. ASSUME NEW w \in Workers
        PROVE  Stage(pc[w]) > 8 <=> w \notin InCall
    <3>1. pc[w] \in Labels
      BY DEF TypeOK
    <3>2. Stage(pc[w]) \in 1 .. 9 /\ (Stage(pc[w]) = 9 <=> pc[w] = "idle")
      BY <3>1, StageRange
    <3> QED
      BY <3>2 DEF InCall
  <2>2. InCall \subseteq Workers
    BY DEF InCall
  <2> QED
    BY <2>1, <2>2 DEF Booked
<1>6. Done \cap T = T
  BY <1>1
<1>7. Cardinality(Done \ T) = Cardinality(Done) - Cardinality(T)
  <2> HIDE DEF T
  <2>1. Cardinality(Done \ T) = Cardinality(Done) - Cardinality(Done \cap T)
    BY <1>1, FS_Difference
  <2> QED
    BY <1>6, <2>1
<1> QED
  BY <1>4, <1>5, <1>7, FS_CardinalityType

\* The invariant, summed over the protocols.
LEMMA InvGivesPartition == SinkInv => ProtocolPartition
<1> SUFFICES ASSUME SinkInv PROVE ProtocolPartition
  OBVIOUS
<1>1. TypeOK /\ CallsInv /\ TalliesInv
  BY DEF SinkInv
<1> DEFINE ByL4(c) == {e \in Booked(8) : Info[e].l4 = c}
           ByL3(c) == {e \in Booked(7) : Info[e].l3 = c /\ Info[e].l4 # "SerialCount"}
<1>2. \A n : Booked(n) \subseteq Done /\ IsFiniteSet(Booked(n))
  BY <1>1, FS_Subset DEF TalliesInv, Booked
<1>3. \A S \in SUBSET Done : IsFiniteSet(S) /\ Cardinality(S) \in Nat
  BY <1>1, FS_Subset, FS_CardinalityType DEF TalliesInv
<1>4. Booked(0) = Done
  <2>1. \A w \in Workers : Stage(pc[w]) > 0
    <3>1. \A w \in Workers : pc[w] \in Labels
      BY <1>1 DEF TypeOK
    <3>2. \A w \in Workers : Stage(pc[w]) \in 1 .. 9
      BY <3>1, StageRange
    <3> QED
      BY <3>2
  <2> QED
    BY <2>1 DEF Booked
<1>5. counter["TotalProcessed"] = Cardinality(Done)
  BY <1>1, <1>4, TallyMeanings
<1>6. /\ \A c \in L4 \cup {"SerialCount"} : counter[c] = Cardinality(ByL4(c))
      /\ \A c \in L3 : counter[c] = Cardinality(ByL3(c))
  BY <1>1, TallyMeanings
<1>7. /\ \A c : ByL4(c) \in SUBSET Done
      /\ \A c : ByL3(c) \in SUBSET Done
  BY <1>2
<1>8. \A c, d : c # d => ByL4(c) \cap ByL4(d) = {} /\ ByL3(c) \cap ByL3(d) = {}
  OBVIOUS
<1>9. \A c : ByL3(c) \cap ByL4("SerialCount") = {}
  OBVIOUS
<1>10. Booked(8) = ByL4("TCPCount") \cup ByL4("UDPCount") \cup ByL4("ICMPCount")
                   \cup ByL4("OtherCount") \cup ByL4("SerialCount")
  <2>1. \A e \in Booked(8) : Info[e].l4 \in L4 \cup {"SerialCount"}
    BY InfoFacts DEF Booked, Done
  <2> QED
    BY <2>1 DEF L4
<1> HIDE DEF ByL4, ByL3
<1>11. Cardinality(Booked(8)) =
         Cardinality(ByL4("TCPCount")) + Cardinality(ByL4("UDPCount"))
         + Cardinality(ByL4("ICMPCount")) + Cardinality(ByL4("OtherCount"))
         + Cardinality(ByL4("SerialCount"))
  <2>1. PICK a, b, c, d, e : /\ a = ByL4("TCPCount") /\ b = ByL4("UDPCount")
                             /\ c = ByL4("ICMPCount") /\ d = ByL4("OtherCount")
                             /\ e = ByL4("SerialCount")
    OBVIOUS
  <2>2. /\ IsFiniteSet(a) /\ IsFiniteSet(b) /\ IsFiniteSet(c) /\ IsFiniteSet(d)
        /\ IsFiniteSet(e)
    BY <1>3, <1>7, <2>1
  <2>3. /\ a \cap b = {} /\ (a \cup b) \cap c = {} /\ (a \cup b \cup c) \cap d = {}
        /\ (a \cup b \cup c \cup d) \cap e = {}
    BY <1>8, <2>1
  <2>4. IsFiniteSet(a \cup b) /\ Cardinality(a \cup b) = Cardinality(a) + Cardinality(b)
    BY <2>2, <2>3, DisjointUnion
  <2>5. /\ IsFiniteSet(a \cup b \cup c)
        /\ Cardinality(a \cup b \cup c) = Cardinality(a \cup b) + Cardinality(c)
    BY <2>2, <2>3, <2>4, DisjointUnion
  <2>6. /\ IsFiniteSet(a \cup b \cup c \cup d)
        /\ Cardinality(a \cup b \cup c \cup d) = Cardinality(a \cup b \cup c) + Cardinality(d)
    BY <2>2, <2>3, <2>5, DisjointUnion
  <2>7. Cardinality(a \cup b \cup c \cup d \cup e)
          = Cardinality(a \cup b \cup c \cup d) + Cardinality(e)
    BY <2>2, <2>3, <2>6, DisjointUnion
  <2>8. Booked(8) = a \cup b \cup c \cup d \cup e
    BY <1>10, <2>1
  <2> QED
    BY <2>1, <2>4, <2>5, <2>6, <2>7, <2>8
<1>12. Cardinality(ByL3("IPv4Count")) + Cardinality(ByL3("IPv6Count"))
         + Cardinality(ByL3("ARPCount")) + Cardinality(ByL4("SerialCount"))
         <= Cardinality(Done)
  <2>1. PICK a, b, c, d : /\ a = ByL3("IPv4Count") /\ b = ByL3("IPv6Count")
                          /\ c = ByL3("ARPCount") /\ d = ByL4("SerialCount")
    OBVIOUS
  <2>2. IsFiniteSet(a) /\ IsFiniteSet(b) /\ IsFiniteSet(c) /\ IsFiniteSet(d)
    BY <1>3, <1>7, <2>1
  <2>3. a \cap b = {} /\ (a \cup b) \cap c = {} /\ (a \cup b \cup c) \cap d = {}
    BY <1>8, <1>9, <2>1
  <2>4. IsFiniteSet(a \cup b) /\ Cardinality(a \cup b) = Cardinality(a) + Cardinality(b)
    BY <2>2, <2>3, DisjointUnion
  <2>5. /\ IsFiniteSet(a \cup b \cup c)
        /\ Cardinality(a \cup b \cup c) = Cardinality(a \cup b) + Cardinality(c)
    BY <2>2, <2>3, <2>4, DisjointUnion
  <2>6. Cardinality(a \cup b \cup c \cup d) = Cardinality(a \cup b \cup c) + Cardinality(d)
    BY <2>2, <2>3, <2>5, DisjointUnion
  <2>7. a \cup b \cup c \cup d \in SUBSET Done
    BY <1>7, <2>1
  <2>8. Cardinality(a \cup b \cup c \cup d) <= Cardinality(Done)
    BY <1>1, <2>7, FS_Subset DEF TalliesInv
  <2> QED
    BY <2>1, <2>4, <2>5, <2>6, <2>8
<1>13. counter["ErrorEvents"] <= counter["TotalProcessed"]
  <2>1. PICK S : S = {e \in Booked(2) : Info[e].error}
    OBVIOUS
  <2>2. S \in SUBSET Done
    BY <1>2, <2>1
  <2>3. Cardinality(S) <= Cardinality(Done)
    BY <1>1, <2>2, FS_Subset DEF TalliesInv
  <2> QED
    BY <1>1, <1>5, <2>1, <2>3, TallyMeanings
<1>14. MapThenSumSet(LAMBDA c : counter[c], L4 \cup {"SerialCount"})
         = counter["TotalProcessed"] - Cardinality(InCall)
  <2>1. MapThenSumSet(LAMBDA c : counter[c], L4 \cup {"SerialCount"}) =
          counter["TCPCount"] + counter["UDPCount"] + counter["ICMPCount"]
          + counter["OtherCount"] + counter["SerialCount"]
    BY <1>1, ProtocolSums
  <2>2. /\ counter["TCPCount"] = Cardinality(ByL4("TCPCount"))
        /\ counter["UDPCount"] = Cardinality(ByL4("UDPCount"))
        /\ counter["ICMPCount"] = Cardinality(ByL4("ICMPCount"))
        /\ counter["OtherCount"] = Cardinality(ByL4("OtherCount"))
        /\ counter["SerialCount"] = Cardinality(ByL4("SerialCount"))
    BY <1>6 DEF L4
  <2>3. Cardinality(Booked(8)) = Cardinality(Done) - Cardinality(InCall)
    BY <1>1, ReturnedAndInCall
  <2> QED
    BY <1>5, <1>11, <2>1, <2>2, <2>3
<1>15. MapThenSumSet(LAMBDA c : counter[c], L3)
         <= counter["TotalProcessed"] - counter["SerialCount"]
  <2>1. MapThenSumSet(LAMBDA c : counter[c], L3) =
          counter["IPv4Count"] + counter["IPv6Count"] + counter["ARPCount"]
    BY <1>1, ProtocolSums
  <2>2. /\ counter["IPv4Count"] = Cardinality(ByL3("IPv4Count"))
        /\ counter["IPv6Count"] = Cardinality(ByL3("IPv6Count"))
        /\ counter["ARPCount"] = Cardinality(ByL3("ARPCount"))
        /\ counter["SerialCount"] = Cardinality(ByL4("SerialCount"))
    BY <1>6 DEF L3
  <2>3. \A c : Cardinality(ByL3(c)) \in Nat /\ Cardinality(ByL4(c)) \in Nat
    BY <1>3, <1>7
  <2>4. Cardinality(Done) \in Nat
    BY <1>3
  <2> QED
    BY <1>5, <1>12, <2>1, <2>2, <2>3, <2>4
<1> QED
  BY <1>13, <1>14, <1>15 DEF ProtocolPartition

\* At every moment, for any number of workers, the transport-layer counters and
\* SerialCount count each event whose OnEvent has returned once.
THEOREM StatsPartition == Spec => []ProtocolPartition
BY SinkInvariance, InvGivesPartition, PTL

-----------------------------------------------------------------------------
(* What a step never does.                                                 *)

\* The compare-and-swap loops never replace an extreme by a worse sample.
THEOREM StatsExtremesMonotone == Spec => ExtremesMonotone
<1> DEFINE Keeps == /\ counter["minLatencyNs"] # 0 =>
                          counter'["minLatencyNs"] \in 1 .. counter["minLatencyNs"]
                    /\ counter'["maxLatencyNs"] >= counter["maxLatencyNs"]
<1>1. SinkInv /\ [Next]_vars => [Keeps]_vars
  <2> SUFFICES ASSUME SinkInv, [Next]_vars PROVE Keeps
    OBVIOUS
  <2>1. TypeOK /\ CallsInv
    BY DEF SinkInv
  <2>2. counter["minLatencyNs"] \in Nat /\ counter["maxLatencyNs"] \in Nat
    BY <2>1, CounterNames DEF TypeOK
  <2>3. CASE \A c \in Counters \ {"DroppedEvents"} : counter'[c] = counter[c]
    BY <2>2, <2>3, CounterNames
  <2>4. CASE \E w \in Workers : OnEvent(w)
    <3>1. PICK w \in Workers : OnEvent(w)
      BY <2>4
    <3>2. CASE CountProcessed(w)
      <4>1. Add("TotalProcessed", 1) /\ 1 \in Nat
        BY <3>2 DEF CountProcessed
      <4>2. /\ counter'["minLatencyNs"] = counter["minLatencyNs"]
            /\ counter'["maxLatencyNs"] = counter["maxLatencyNs"]
        BY <2>1, <4>1, AddFacts, CounterNames DEF TypeOK
      <4> QED
        BY <2>2, <4>2
    <3>3. CASE ~ CountProcessed(w)
      <4>1. Pays(w) /\ MinStep(w) /\ MaxStep(w)
        BY <2>1, <3>1, <3>3, WorkerPays, WorkerExtremes
      <4>2. Its(w).latency \in Nat
        BY <2>1, <4>1, InCallFacts DEF Pays
      <4>3. counter["minLatencyNs"] # 0 =>
              counter'["minLatencyNs"] \in 1 .. counter["minLatencyNs"]
        BY <2>2, <4>1, <4>2 DEF MinStep
      <4>4. counter'["maxLatencyNs"] >= counter["maxLatencyNs"]
        BY <2>2, <4>1, <4>2 DEF MaxStep
      <4> QED
        BY <4>3, <4>4
    <3> QED
      BY <3>2, <3>3
  <2> QED
    BY <2>3, <2>4, StepFacts
<1> QED
  BY <1>1, SinkInvariance, PTL DEF Spec, ExtremesMonotone

\* However many goroutines call Snapshot, no rate is computed from a negative
\* difference: s.mu keeps lastProcessed and lastBytes behind the counters.
THEOREM StatsRatesNeverUnderflow == Spec => RatesNeverUnderflow
<1>1. SinkInv /\ [Next]_vars => [\A d \in Rated : rated'[d] >= rated[d]]_vars
  BY StepFacts
<1> QED
  BY <1>1, SinkInvariance, PTL DEF Spec, RatesNeverUnderflow

\* Whoever calls Snapshot, no total shown is below one shown before.
THEOREM StatsSnapshotsMonotone == Spec => SnapshotsMonotone
<1>1. SinkInv /\ [Next]_vars =>
        [\A c \in Counters \ {"minLatencyNs"} : published'[c] >= published[c]]_vars
  BY StepFacts
<1> QED
  BY <1>1, SinkInvariance, PTL DEF Spec, SnapshotsMonotone
=============================================================================
