------------------------ MODULE PipelineRing_proofs ------------------------
(***************************************************************************)
(* Proofs about RingBuffer, for every capacity, and about PipelineRing,    *)
(* for every number of events, workers and sinks.                          *)
(***************************************************************************)
EXTENDS PipelineRing, PipelineEngine_proofs, FiniteSetTheorems, TLAPS

-----------------------------------------------------------------------------
(* The ring buffer on its own.                                             *)

\* An index wraps at most once: all the code takes modulo the capacity is below
\* twice the capacity.
LEMMA Wrap ==
    ASSUME NEW x \in 0 .. 2 * Capacity - 1
    PROVE  x % Capacity = IF x < Capacity THEN x ELSE x - Capacity
<1>1. Capacity \in Nat /\ Capacity > 0
  BY CapacityAssumption
<1>2. CASE x < Capacity
  BY <1>1, <1>2, SMT
<1>3. CASE x >= Capacity
  BY <1>1, <1>3, SMT
<1> QED
  BY <1>1, <1>2, <1>3

\* The head moves on by one slot, and from the last one to the first.
LEMMA NextHead ==
    ASSUME head \in Slots, NEW e \in Event, OnEvent(e)
    PROVE  head' = IF head + 1 < Capacity THEN head + 1 ELSE 0
<1> DEFINE next == head + 1
<1>1. next \in 0 .. 2 * Capacity - 1 /\ next <= Capacity
  BY CapacityAssumption DEF Slots
<1>2. head' = next % Capacity
  BY Zenon DEF OnEvent
<1>3. head' = IF next < Capacity THEN next ELSE next - Capacity
  <2> HIDE DEF next
  <2> QED
    BY <1>1, <1>2, Wrap
<1> QED
  BY <1>1, <1>3, CapacityAssumption

\* An empty ring.
LEMMA RBInvInit == RBInit => RBInv
BY CapacityAssumption, NoEventAssumption
   DEF RBInit, RBInv, RBTypeOK, WindowWritten, Slots

\* OnEvent writes the slot at head and moves it on: the window before it is written.
LEMMA RBInvStep == RBInv /\ [RBNext]_rbVars => RBInv'
<1> SUFFICES ASSUME RBInv, [RBNext]_rbVars PROVE RBInv'
  OBVIOUS
<1> USE DEF RBInv, RBTypeOK, WindowWritten
<1>1. ASSUME NEW e \in Event, OnEvent(e)
      PROVE  RBInv'
  <2>1. head' = IF head + 1 < Capacity THEN head + 1 ELSE 0
    BY <1>1, NextHead
  <2>2. head' \in Slots /\ count' \in 0 .. Capacity
    BY <1>1, <2>1, CapacityAssumption DEF OnEvent, Slots
  <2>3. buffer' \in [Slots -> Event \cup {NoEvent}]
    BY <1>1 DEF OnEvent
  <2>4. count' < Capacity => head' = count'
    BY <1>1, <2>1, CapacityAssumption DEF OnEvent, Slots
  <2>5. \A i \in Slots : buffer'[i] = NoEvent <=> i >= count'
    BY <1>1, CapacityAssumption, NoEventAssumption DEF OnEvent, Slots
  <2> QED
    BY <2>2, <2>3, <2>4, <2>5
<1>2. CASE UNCHANGED rbVars
  BY <1>2 DEF rbVars, Slots
<1> QED
  BY <1>1, <1>2 DEF RBNext

\* Whatever the capacity and however often the buffer has wrapped, exactly the
\* count slots before head have been written by OnEvent.
THEOREM RingInvariance == RBSpec => []RBInv
BY RBInvInit, RBInvStep, PTL DEF RBSpec

-----------------------------------------------------------------------------
(* The ring implements RecentLog.                                          *)

\* The window by position.
WindowContent ==
    /\ Window \in Seq(Event)
    /\ Len(Window) = count
    /\ count < Capacity => \A i \in 1 .. count : Window[i] = buffer[i - 1]
    /\ count = Capacity => \A i \in 1 .. count :
          Window[i] = buffer[IF head + i - 1 < Capacity THEN head + i - 1
                             ELSE head + i - 1 - Capacity]

\* The window lies in the buffer from slot 0 on while the ring is not full, then from the head.
LEMMA WindowAt == RBInv => WindowContent
<1> SUFFICES ASSUME RBInv PROVE WindowContent
  OBVIOUS
<1>1. /\ Capacity \in Nat /\ Capacity > 0
      /\ count \in Nat /\ count <= Capacity
      /\ head \in Nat /\ head < Capacity
      /\ count < Capacity => head = count
      /\ buffer \in [Slots -> Event \cup {NoEvent}]
      /\ \A i \in Slots : buffer[i] = NoEvent <=> i >= count
  BY CapacityAssumption DEF RBInv, RBTypeOK, WindowWritten, Slots
<1>2. ASSUME NEW i \in 1 .. count
      PROVE  /\ Window[i] \in Event
             /\ count < Capacity => Window[i] = buffer[i - 1]
             /\ count = Capacity =>
                   Window[i] = buffer[IF head + i - 1 < Capacity THEN head + i - 1
                                      ELSE head + i - 1 - Capacity]
  <2> DEFINE x == head - count + i - 1 + Capacity
  <2>1. x \in 0 .. 2 * Capacity - 1
    BY <1>1
  <2>2. Window[i] = buffer[IF x < Capacity THEN x ELSE x - Capacity]
    BY <2>1, Wrap DEF Window
  <2>3. CASE count < Capacity
    <3>1. (IF x < Capacity THEN x ELSE x - Capacity) = i - 1
      BY <1>1, <2>3
    <3>2. i - 1 \in Slots /\ ~(i - 1 >= count)
      BY <1>1 DEF Slots
    <3> QED
      BY <1>1, <2>2, <2>3, <3>1, <3>2
  <2>4. CASE count = Capacity
    <3>1. x = head + i - 1
      BY <1>1, <2>4
    <3>2. (IF x < Capacity THEN x ELSE x - Capacity) \in Slots
      BY <1>1, <2>1 DEF Slots
    <3>3. \A j \in Slots : buffer[j] \in Event
      BY <1>1, <2>4 DEF Slots
    <3> QED
      BY <1>1, <2>2, <2>4, <3>1, <3>2, <3>3
  <2> QED
    BY <1>1, <2>3, <2>4
<1>3. Window = [i \in 1 .. count |-> Window[i]]
  BY DEF Window
<1>4. Window \in [1 .. count -> Event]
  BY <1>2, <1>3
<1>5. Window \in Seq(Event) /\ Len(Window) = count
  BY <1>1, <1>4, SeqDef, LenProperties
<1> QED
  BY <1>2, <1>5 DEF WindowContent

\* The same after a step.
LEMMA WindowAtAfter ==
    ASSUME RBInv'
    PROVE  WindowContent'
<1>1. WindowContent'
  BY WindowAt, PTL
<1> QED
  BY <1>1

\* OnEvent records its event behind the others, the oldest one making room.
LEMMA RecordRefines ==
    ASSUME RBInv, RBInv', NEW e \in Event, OnEvent(e)
    PROVE  Log!Record(e)
<1>1. /\ Capacity \in Nat /\ Capacity > 0
      /\ count \in Nat /\ count <= Capacity
      /\ head \in Nat /\ head < Capacity
      /\ count < Capacity => head = count
      /\ buffer \in [Slots -> Event \cup {NoEvent}]
  BY CapacityAssumption DEF RBInv, RBTypeOK, WindowWritten, Slots
<1>2. /\ \A j \in Slots : buffer'[j] = IF j = head THEN e ELSE buffer[j]
      /\ count' = IF count < Capacity THEN count + 1 ELSE count
      /\ head' = IF head + 1 < Capacity THEN head + 1 ELSE 0
  <2>1. head' = IF head + 1 < Capacity THEN head + 1 ELSE 0
    BY NextHead DEF RBInv, RBTypeOK
  <2> QED
    BY <1>1, <2>1 DEF OnEvent
<1>3. Window \in Seq(Event) /\ Len(Window) = count
  BY WindowAt DEF WindowContent
<1>4. Window' \in Seq(Event) /\ Len(Window') = count'
  BY WindowAtAfter DEF WindowContent
<1>5. CASE count < Capacity
  <2> DEFINE new == Append(Window, e)
  <2>1. /\ new \in Seq(Event) /\ Len(new) = count + 1
        /\ \A i \in 1 .. count : new[i] = Window[i]
        /\ new[count + 1] = e
    BY <1>3, AppendProperties
  <2>2. \A i \in 1 .. count : Window[i] = buffer[i - 1]
    BY <1>5, WindowAt DEF WindowContent
  <2>3. \A i \in 1 .. count + 1 : Window'[i] = buffer'[i - 1]
    <3>1. CASE count + 1 < Capacity
      BY <1>1, <1>2, <1>5, <3>1, WindowAtAfter DEF WindowContent
    <3>2. CASE count + 1 = Capacity
      <4>1. head' = 0 /\ count' = Capacity
        BY <1>1, <1>2, <1>5, <3>2
      <4>2. ASSUME NEW i \in 1 .. count + 1
            PROVE  Window'[i] = buffer'[i - 1]
        <5>1. (IF head' + i - 1 < Capacity THEN head' + i - 1
               ELSE head' + i - 1 - Capacity) = i - 1
          BY <1>1, <3>2, <4>1
        <5> QED
          BY <3>2, <4>1, <5>1, WindowAtAfter DEF WindowContent
      <4> QED
        BY <4>2
    <3> QED
      BY <1>1, <1>5, <3>1, <3>2
  <2>4. ASSUME NEW i \in 1 .. count + 1
        PROVE  Window'[i] = new[i]
    <3>1. i - 1 \in Slots
      BY <1>1, <1>5 DEF Slots
    <3>2. CASE i = count + 1
      <4>1. buffer'[i - 1] = e
        BY <1>1, <1>2, <1>5, <3>1, <3>2
      <4> QED
        BY <2>1, <2>3, <3>2, <4>1
    <3>3. CASE i # count + 1
      <4>1. i \in 1 .. count /\ i - 1 # head
        BY <1>1, <1>5, <3>3
      <4>2. buffer'[i - 1] = buffer[i - 1]
        BY <1>2, <3>1, <4>1
      <4> QED
        BY <2>1, <2>2, <2>3, <4>1, <4>2
    <3> QED
      BY <3>2, <3>3
  <2>5. Len(Window') = Len(new)
    BY <1>2, <1>4, <1>5, <2>1
  <2>6. Window' = new
    <3> HIDE DEF new
    <3> QED
      BY <1>4, <2>1, <2>4, <2>5, SeqEqual
  <2> QED
    BY <1>3, <1>5, <2>6 DEF Log!Record
<1>6. CASE count = Capacity
  <2> DEFINE rest == Tail(Window)
             new  == Append(rest, e)
  <2>1. /\ rest \in Seq(Event) /\ Len(rest) = count - 1
        /\ \A i \in 1 .. count - 1 : rest[i] = Window[i + 1]
    <3>1. Window # <<>>
      BY <1>1, <1>3, <1>6, EmptySeq
    <3> QED
      BY <1>1, <1>3, <3>1, HeadTailProperties
  <2>2. /\ new \in Seq(Event) /\ Len(new) = count
        /\ \A i \in 1 .. count - 1 : new[i] = rest[i]
        /\ new[count] = e
    <3> HIDE DEF rest
    <3>1. Len(rest) + 1 = count
      BY <1>1, <2>1
    <3> QED
      BY <2>1, <3>1, AppendProperties
  <2>3. count' = Capacity
    BY <1>1, <1>2, <1>6
  <2> DEFINE At(h, i) == IF h + i - 1 < Capacity THEN h + i - 1 ELSE h + i - 1 - Capacity
  <2>4. \A i \in 1 .. count : Window[i] = buffer[At(head, i)]
    BY <1>6, WindowAt DEF WindowContent
  <2>5. \A i \in 1 .. count : Window'[i] = buffer'[At(head', i)]
    BY <1>6, <2>3, WindowAtAfter DEF WindowContent
  <2>6. ASSUME NEW i \in 1 .. count
        PROVE  Window'[i] = new[i]
    <3>1. CASE i = count
      <4>1. At(head', i) = head /\ head \in Slots
        BY <1>1, <1>2, <1>6, <3>1 DEF Slots
      <4>2. buffer'[head] = e
        BY <1>2, <4>1
      <4> QED
        BY <2>2, <2>5, <3>1, <4>1, <4>2
    <3>2. CASE i # count
      <4>1. /\ i \in 1 .. count - 1 /\ i + 1 \in 1 .. count
            /\ At(head', i) = At(head, i + 1)
            /\ At(head, i + 1) \in Slots /\ At(head, i + 1) # head
        BY <1>1, <1>2, <1>6, <3>2 DEF Slots
      <4>2. buffer'[At(head, i + 1)] = buffer[At(head, i + 1)]
        BY <1>2, <4>1
      <4>3. new[i] = Window[i + 1]
        BY <2>1, <2>2, <4>1
      <4>4. Window'[i] = buffer[At(head, i + 1)] /\ Window[i + 1] = buffer[At(head, i + 1)]
        <5> HIDE DEF At
        <5> QED
          BY <2>4, <2>5, <4>1, <4>2
      <4> QED
        BY <4>3, <4>4
    <3> QED
      BY <3>1, <3>2
  <2>7. Window' = new
    <3> HIDE DEF new
    <3> QED
      BY <1>4, <1>6, <2>2, <2>3, <2>6, SeqEqual
  <2> QED
    BY <1>1, <1>3, <1>6, <2>7 DEF Log!Record
<1> QED
  BY <1>1, <1>5, <1>6

\* For every capacity the circular buffer behaves like a log of the last
\* Capacity events, oldest first: overwriting and wrapping lose nothing else.
THEOREM RingImplementsLog == RBSpec => ImplementsRecentLog
<1>1. RBInit => Log!Init
  <2> SUFFICES ASSUME RBInit PROVE Window = <<>>
    BY DEF Log!Init
  <2>1. RBInv /\ count = 0
    BY RBInvInit DEF RBInit
  <2> QED
    BY <2>1, WindowAt, EmptySeq DEF WindowContent
<1>2. RBInv /\ RBInv' /\ [RBNext]_rbVars => [Log!Next]_Window
  <2> SUFFICES ASSUME RBInv, RBInv', [RBNext]_rbVars
               PROVE  [Log!Next]_Window
    OBVIOUS
  <2>1. CASE RBNext
    BY <2>1, RecordRefines DEF RBNext, Log!Next
  <2>2. CASE UNCHANGED rbVars
    BY <2>2 DEF rbVars, Window
  <2> QED
    BY <2>1, <2>2
<1> QED
  BY <1>1, <1>2, RingInvariance, PTL DEF RBSpec, ImplementsRecentLog, Log!Spec

-----------------------------------------------------------------------------
(* Reading the ring.                                                       *)

\* Last reads the slots the window ends with, however often the index wraps.
LEMMA LastReadsWindow ==
    ASSUME RBInv, NEW k \in 1 .. count, NEW i \in 1 .. k
    PROVE  buffer[(((head - k + Capacity) % Capacity) + i - 1) % Capacity]
             = Window[count - k + i]
<1>1. /\ Capacity \in Nat /\ Capacity > 0
      /\ count \in Nat /\ count <= Capacity
      /\ head \in Nat /\ head < Capacity
  BY CapacityAssumption DEF RBInv, RBTypeOK, Slots
<1>2. PICK x : x = head - k + Capacity
  OBVIOUS
<1>3. x \in 0 .. 2 * Capacity - 1 /\ x + i - 1 \in 0 .. 2 * Capacity - 1
  BY <1>1, <1>2
<1>4. PICK start : start = IF x < Capacity THEN x ELSE x - Capacity
  OBVIOUS
<1>5. x % Capacity = start
  BY <1>3, <1>4, Wrap
<1>6. PICK y : y = start + i - 1
  OBVIOUS
<1>7. y \in 0 .. 2 * Capacity - 1
  BY <1>1, <1>3, <1>4, <1>6
<1>8. y % Capacity = IF y < Capacity THEN y ELSE y - Capacity
  BY <1>7, Wrap
<1>9. PICK z : z = x + i - 1
  OBVIOUS
<1>10. z % Capacity = IF z < Capacity THEN z ELSE z - Capacity
  BY <1>3, <1>9, Wrap
<1>11. y % Capacity = z % Capacity
  BY <1>1, <1>2, <1>3, <1>4, <1>6, <1>7, <1>8, <1>9, <1>10
<1>12. count - k + i \in 1 .. count
  BY <1>1
<1>13. head - count + (count - k + i) - 1 + Capacity = z
  BY <1>1, <1>2, <1>9
<1>14. Window[count - k + i] = buffer[z % Capacity]
  BY <1>12, <1>13 DEF Window
<1> QED
  BY <1>2, <1>5, <1>6, <1>11, <1>14

\* The invariant, read through Last.
LEMMA InvGivesLastIsSuffix == RBInv => LastIsSuffix
<1> SUFFICES ASSUME RBInv, NEW n \in -1 .. Capacity + 1, NEW k,
                    k = IF n < 0 THEN 0 ELSE IF n > count THEN count ELSE n
             PROVE  LastEvents(n) = SubSeq(Window, count - k + 1, count)
  BY DEF LastIsSuffix
<1>1. /\ Capacity \in Nat /\ Capacity > 0
      /\ count \in Nat /\ count <= Capacity
      /\ n \in Int /\ k \in 0 .. count
  BY CapacityAssumption DEF RBInv, RBTypeOK
<1>2. Window \in Seq(Event) /\ Len(Window) = count
  BY WindowAt DEF WindowContent
<1>3. PICK last : last = SubSeq(Window, count - k + 1, count)
  OBVIOUS
<1>4. /\ last = [i \in 1 .. k |-> Window[count - k + i]]
      /\ last \in Seq(Event) /\ Len(last) = k
  <2>1. /\ SubSeq(Window, count - k + 1, count) \in Seq(Event)
        /\ Len(SubSeq(Window, count - k + 1, count)) = k
        /\ \A i \in 1 .. k : SubSeq(Window, count - k + 1, count)[i] = Window[count - k + i]
    BY <1>1, <1>2, SubSeqProperties
  <2> QED
    BY <1>1, <1>3, <2>1, LenProperties
<1>5. CASE k = 0
  <2>1. LastEvents(n) = <<>>
    BY <1>1, <1>5 DEF LastEvents
  <2> QED
    BY <1>3, <1>4, <1>5, <2>1, EmptySeq
<1>6. CASE k # 0
  <2>1. LastEvents(n) =
          [i \in 1 .. k |-> buffer[(((head - k + Capacity) % Capacity) + i - 1) % Capacity]]
    BY <1>1, <1>6 DEF LastEvents
  <2>2. \A i \in 1 .. k :
          buffer[(((head - k + Capacity) % Capacity) + i - 1) % Capacity] = Window[count - k + i]
    BY <1>1, <1>6, LastReadsWindow
  <2> QED
    BY <1>3, <1>4, <2>1, <2>2
<1> QED
  BY <1>5, <1>6

\* Whatever n is asked for and wherever the ring has wrapped, Last returns the
\* newest min(n, count) events, oldest first.
THEOREM RingLastIsSuffix == RBSpec => []LastIsSuffix
BY RingInvariance, InvGivesLastIsSuffix, PTL

-----------------------------------------------------------------------------
(* The inductive invariant: besides those of the engine and of the ring,   *)
(* what relates the two.                                                   *)

\* The events the ring was given, each once: all of them until it is full.
Given(e) == delivered[RingSink][e] > 0

WindowInv ==
    /\ \A i \in 1 .. count : Given(Window[i])
    /\ \A i, j \in 1 .. count : Window[i] = Window[j] => i = j
    /\ count < Capacity => \A e \in Events : Given(e) => \E i \in 1 .. count : Window[i] = e

\* The queue is behind everything that has left it.
QueueAheadInv ==
    \A k \in 1 .. Len(inChan) :
        /\ \A w \in Holding : wEvent[w] < inChan[k]
        /\ \A e \in Events : Given(e) => e < inChan[k]

\* Worker w has given the event it holds to the ring.
PastRing(w) == wPc[w] = "deliver" /\ wNext[w] > RingSink

\* The events of the ring can be told apart by the worker that brought them:
\* each brought its own in order, before the one it holds.
BroughtBy(who) ==
    /\ \A i, j \in 1 .. count : i < j /\ who[i] = who[j] => Window[i] < Window[j]
    /\ \A i \in 1 .. count : who[i] \in Holding =>
          \/ Window[i] < wEvent[who[i]]
          \/ Window[i] = wEvent[who[i]] /\ PastRing(who[i])

BroughtInv == \E who \in [1 .. count -> Workers] : BroughtBy(who)

RingInv == IInv /\ RBInv /\ WindowInv /\ QueueAheadInv /\ BroughtInv

-----------------------------------------------------------------------------
(* The steps of the composition.                                           *)

\* Its engine part is a step of the engine, its ring part a step of the ring:
\* everything proved of either holds of the two together.
LEMMA RingStepIsEngineStep == [RingNext]_<<vars, rbVars>> => [Next]_vars
<1> SUFFICES ASSUME [RingNext]_<<vars, rbVars>> PROVE [Next]_vars
  OBVIOUS
<1>1. ASSUME NEW w \in Workers, DeliverToRing(w) \/ DeliverElsewhere(w) \/ WorkerElse(w)
      PROVE  Next
  BY <1>1 DEF DeliverToRing, DeliverElsewhere, WorkerElse, Next, Worker
<1>2. CASE OtherGoroutines
  BY <1>2 DEF OtherGoroutines, Next
<1> QED
  BY <1>1, <1>2 DEF RingNext

\* A worker in a broadcast holds an event, and calls a registered sink.
LEMMA DeliverFacts ==
    ASSUME TypeOK, NEW w \in Workers, WorkerDeliver(w)
    PROVE  /\ w \in Holding /\ wEvent[w] \in Events
           /\ wNext[w] \in Sinks
           /\ RingSink \in Sinks /\ 1 \in Sinks
           /\ delivered \in [Sinks -> [Events -> Nat]]
           /\ \A v \in Workers : v # w => wPc'[v] = wPc[v] /\ wNext'[v] = wNext[v]
           /\ wNext'[w] = wNext[w] + 1
           /\ wPc'[w] \in {"deliver", "recv"}
           /\ inChan' = inChan /\ wEvent' = wEvent
<1>1. wPc[w] = "deliver" /\ w \in Holding
  BY DEF WorkerDeliver, Holding
<1>2. wNext[w] \in 1 .. wLimit[w] /\ wLimit[w] \in 0 .. MaxSinks /\ wEvent[w] \in Events
  BY <1>1 DEF TypeOK, WorkersTypeOK
<1>3. wNext[w] \in Sinks
  BY <1>2, SinksAssumption DEF Sinks
<1>4. RingSink \in Sinks /\ 1 \in Sinks
  BY SinksAssumption DEF Sinks, RingSink
<1>5. /\ wPc \in [Workers -> {"off", "recv", "busy", "deliver", "exited"}]
      /\ wNext \in [Workers -> 0 .. MaxSinks + 1]
      /\ delivered \in [Sinks -> [Events -> Nat]]
  BY DEF TypeOK, WorkersTypeOK
<1>6. /\ \A v \in Workers : v # w => wPc'[v] = wPc[v] /\ wNext'[v] = wNext[v]
      /\ wNext'[w] = wNext[w] + 1
      /\ wPc'[w] \in {"deliver", "recv"}
      /\ inChan' = inChan /\ wEvent' = wEvent
  BY <1>1, <1>5 DEF WorkerDeliver
<1> QED
  BY <1>1, <1>2, <1>3, <1>4, <1>5, <1>6

\* Only an event of the source is recorded in the ring.
LEMMA RingStepIsRingStep == IInv /\ [RingNext]_<<vars, rbVars>> => [RBNext]_rbVars
<1> SUFFICES ASSUME IInv, [RingNext]_<<vars, rbVars>> PROVE [RBNext]_rbVars
  OBVIOUS
<1>1. ASSUME NEW w \in Workers, DeliverToRing(w)
      PROVE  RBNext
  <2>1. wEvent[w] \in Event
    BY <1>1, DeliverFacts, RingHoldsEvents DEF DeliverToRing, IInv
  <2> QED
    BY <1>1, <2>1 DEF DeliverToRing, RBNext
<1>2. ASSUME NEW w \in Workers, DeliverElsewhere(w) \/ WorkerElse(w)
      PROVE  UNCHANGED rbVars
  BY <1>2 DEF DeliverElsewhere, WorkerElse
<1>3. CASE OtherGoroutines
  BY <1>3 DEF OtherGoroutines
<1> QED
  BY <1>1, <1>2, <1>3 DEF RingNext

\* Holders of events only let go of them or go on with their broadcast.
HoldersKeep ==
    \A v \in Workers : v \in Holding' => v \in Holding /\ (PastRing(v) => PastRing(v)')

\* A step that touches neither the ring nor the queue.
Elsewhere ==
    /\ UNCHANGED rbVars
    /\ delivered'[RingSink] = delivered[RingSink]
    /\ inChan' = inChan /\ wEvent' = wEvent
    /\ HoldersKeep

\* Every step gives the ring an event, takes one from the queue, puts one there,
\* or concerns neither.
LEMMA StepKinds ==
    ASSUME IInv, [RingNext]_<<vars, rbVars>>
    PROVE  \/ \E w \in Workers : DeliverToRing(w) /\ HoldersKeep
           \/ \E w \in Workers : WorkerReceive(w) /\ UNCHANGED rbVars
           \/ DispatchSend /\ UNCHANGED rbVars
           \/ Elsewhere
<1>0. TypeOK /\ wPc \in [Workers -> {"off", "recv", "busy", "deliver", "exited"}]
  BY DEF IInv, TypeOK, WorkersTypeOK
<1>1. ASSUME NEW w \in Workers, WorkerDeliver(w)
      PROVE  HoldersKeep
  <2>1. ASSUME NEW v \in Workers, v \in Holding'
        PROVE  v \in Holding /\ (PastRing(v) => PastRing(v)')
    <3>1. CASE v = w
      <4>1. wPc'[w] = "deliver"
        BY <1>0, <1>1, <2>1, <3>1, DeliverFacts DEF Holding
      <4>2. wNext'[w] = wNext[w] + 1 /\ wNext[w] \in Nat /\ w \in Holding
        BY <1>0, <1>1, DeliverFacts, SinksAssumption DEF Sinks
      <4> QED
        BY <3>1, <4>1, <4>2 DEF PastRing, RingSink
    <3>2. CASE v # w
      BY <1>0, <1>1, <2>1, <3>2, DeliverFacts DEF Holding, PastRing
    <3> QED
      BY <3>1, <3>2
  <2> QED
    BY <2>1 DEF HoldersKeep
<1>2. CASE \E w \in Workers : DeliverToRing(w)
  BY <1>1, <1>2 DEF DeliverToRing
<1>3. ASSUME NEW w \in Workers, DeliverElsewhere(w)
      PROVE  Elsewhere
  <2>1. WorkerDeliver(w) /\ wNext[w] # RingSink /\ UNCHANGED rbVars
    BY <1>3 DEF DeliverElsewhere
  <2>2. delivered'[RingSink] = delivered[RingSink]
    BY <1>0, <2>1, DeliverFacts DEF WorkerDeliver
  <2> QED
    BY <1>0, <1>1, <2>1, <2>2, DeliverFacts DEF Elsewhere
<1>4. ASSUME NEW w \in Workers, WorkerElse(w)
      PROVE  \/ WorkerReceive(w) /\ UNCHANGED rbVars
             \/ Elsewhere
  <2>1. CASE WorkerReceive(w)
    BY <1>4, <2>1 DEF WorkerElse
  <2>2. CASE WorkerDiscard(w)
    <3>1. HoldersKeep
      BY <1>0, <2>2 DEF WorkerDiscard, HoldersKeep, Holding, PastRing
    <3> QED
      BY <1>4, <2>2, <3>1 DEF WorkerElse, WorkerDiscard, Elsewhere
  <2>3. CASE WorkerSnapshotSinks(w)
    <3>1. wNext \in [Workers -> 0 .. MaxSinks + 1]
      BY <1>0 DEF TypeOK, WorkersTypeOK
    <3>2. HoldersKeep
      BY <1>0, <2>3, <3>1 DEF WorkerSnapshotSinks, HoldersKeep, Holding, PastRing
    <3> QED
      BY <1>4, <2>3, <3>2 DEF WorkerElse, WorkerSnapshotSinks, Elsewhere
  <2>4. CASE WorkerExit(w)
    <3>1. HoldersKeep
      BY <1>0, <2>4 DEF WorkerExit, HoldersKeep, Holding, PastRing
    <3> QED
      BY <1>4, <2>4, <3>1 DEF WorkerElse, WorkerExit, Elsewhere
  <2> QED
    BY <1>4, <2>1, <2>2, <2>3, <2>4 DEF WorkerElse
<1>5. ASSUME UNCHANGED <<wPc, wNext>>
      PROVE  HoldersKeep
  BY <1>5 DEF HoldersKeep, Holding, PastRing
<1>6. ASSUME UNCHANGED <<inChan, wVars>>, UNCHANGED rbVars
      PROVE  Elsewhere
  BY <1>5, <1>6 DEF Elsewhere, wVars
<1>7. CASE OtherGoroutines
  <2>0. UNCHANGED rbVars
    BY <1>7 DEF OtherGoroutines
  <2>1. CASE Start
    <3>1. ASSUME NEW w \in Workers, LaunchWorker(w)
          PROVE  Elsewhere
      <4>1. HoldersKeep
        BY <1>0, <3>1 DEF LaunchWorker, HoldersKeep, Holding, PastRing
      <4> QED
        BY <2>0, <3>1, <4>1 DEF LaunchWorker, Elsewhere
    <3>2. CASE StartSource \/ StartFails \/ LaunchDispatcher
      BY <1>6, <2>0, <3>2 DEF StartSource, StartFails, LaunchDispatcher
    <3> QED
      BY <2>1, <3>1, <3>2 DEF Start
  <2>2. CASE Stop \/ AddSink \/ ParentCancel
    BY <1>6, <2>0, <2>2
       DEF Stop, StopCancel, StopWait, StopCloseSink, StopReturn, AddSink, ParentCancel
  <2>3. CASE Source
    BY <1>6, <2>0, <2>3 DEF Source, SourceEmit, SourceExit
  <2>4. CASE DispatchReceive \/ DispatchDrop \/ DispatchAbandon \/ DispatchExit
    BY <1>6, <2>0, <2>4 DEF DispatchReceive, DispatchDrop, DispatchAbandon, DispatchExit
  <2>5. CASE DispatchSend
    BY <2>0, <2>5
  <2>6. CASE Quiet
    BY <1>6, <2>0, <2>6 DEF Quiet, vars, wVars
  <2> QED
    BY <1>7, <2>1, <2>2, <2>3, <2>4, <2>5, <2>6 DEF OtherGoroutines, Dispatcher
<1>8. CASE UNCHANGED <<vars, rbVars>>
  BY <1>6, <1>8 DEF vars, wVars
<1> QED
  BY <1>2, <1>3, <1>4, <1>7, <1>8 DEF RingNext


-----------------------------------------------------------------------------
(* The invariant is kept.                                                  *)

\* OnEvent moves the window on by d places and puts its event at the end.
MovesOn(d, e) ==
    /\ d = IF count < Capacity THEN 0 ELSE 1
    /\ count \in 0 .. Capacity /\ count' = count + 1 - d /\ count' \in 1 .. Capacity
    /\ \A i \in 1 .. count' - 1 : i + d \in 1 .. count /\ Window'[i] = Window[i + d]
    /\ Window'[count'] = e

\* The window after a delivery, from the one before it.
LEMMA WindowMovesOn ==
    ASSUME RBInv, NEW e \in Event, OnEvent(e)
    PROVE  \E d \in {0, 1} : MovesOn(d, e)
<1>1. RBInv'
  BY RBInvStep DEF RBNext
<1>2. Log!Record(e)
  BY <1>1, RecordRefines
<1>3. Window \in Seq(Event) /\ Len(Window) = count
  BY WindowAt DEF WindowContent
<1>4. /\ Capacity \in Nat /\ Capacity > 0
      /\ count \in 0 .. Capacity
      /\ count' = IF count < Capacity THEN count + 1 ELSE count
  BY CapacityAssumption DEF RBInv, RBTypeOK, OnEvent
<1>5. CASE count < Capacity
  <2>1. Window' = Append(Window, e)
    BY <1>2, <1>3, <1>5 DEF Log!Record
  <2>2. /\ \A i \in 1 .. count : Window'[i] = Window[i]
        /\ Window'[count + 1] = e
    BY <1>3, <2>1, AppendProperties
  <2>3. MovesOn(0, e)
    BY <1>4, <1>5, <2>2 DEF MovesOn
  <2> QED
    BY <2>3
<1>6. CASE ~(count < Capacity)
  <2>1. PICK rest : rest = Tail(Window)
    OBVIOUS
  <2>2. Window' = Append(rest, e) /\ Window # <<>>
    BY <1>2, <1>3, <1>4, <1>6, <2>1, EmptySeq DEF Log!Record
  <2>3. /\ rest \in Seq(Event) /\ Len(rest) = count - 1
        /\ \A i \in 1 .. count - 1 : rest[i] = Window[i + 1]
    BY <1>3, <2>1, <2>2, HeadTailProperties
  <2>4. /\ \A i \in 1 .. count - 1 : Window'[i] = rest[i]
        /\ Window'[count] = e
    <3>1. Len(rest) + 1 = count
      BY <1>4, <2>3
    <3> QED
      BY <2>2, <2>3, <3>1, AppendProperties
  <2>5. MovesOn(1, e)
    BY <1>4, <1>6, <2>3, <2>4 DEF MovesOn
  <2> QED
    BY <2>5
<1> QED
  BY <1>5, <1>6

\* What is in the window is an event.
LEMMA WindowEvents ==
    ASSUME RBInv
    PROVE  count \in Nat /\ \A i \in 1 .. count : Window[i] \in Events /\ Window[i] \in Nat
<1>1. Window \in Seq(Events) /\ Len(Window) = count
  BY WindowAt, RingHoldsEvents DEF WindowContent
<1> QED
  BY <1>1, Content

\* A delivery to the ring gives it an event it was never given.
LEMMA RingIsGiven ==
    ASSUME IInv, NEW w \in Workers, DeliverToRing(w)
    PROVE  /\ w \in Holding /\ wEvent[w] \in Events
           /\ ~Given(wEvent[w])
           /\ \A e \in Events : Given(e)' <=> Given(e) \/ e = wEvent[w]
           /\ OnEvent(wEvent[w])
           /\ inChan' = inChan /\ wEvent' = wEvent
           /\ wNext[w] = RingSink /\ wNext'[w] > RingSink
<1>1. WorkerDeliver(w) /\ wNext[w] = RingSink /\ OnEvent(wEvent[w])
  BY DEF DeliverToRing
<1>2. TypeOK
  BY DEF IInv
<1>3. /\ w \in Holding /\ wEvent[w] \in Events
      /\ RingSink \in Sinks
      /\ delivered \in [Sinks -> [Events -> Nat]]
      /\ wNext'[w] = wNext[w] + 1
      /\ inChan' = inChan /\ wEvent' = wEvent
  BY <1>1, <1>2, DeliverFacts
<1>4. wPc[w] = "deliver"
  BY <1>1 DEF WorkerDeliver
<1>5. delivered[RingSink][wEvent[w]] = 0
  BY <1>1, <1>3, <1>4 DEF IInv, ReachInv, RingSink
<1>6. \A e \in Events : delivered'[RingSink][e]
                          = IF e = wEvent[w] THEN 1 ELSE delivered[RingSink][e]
  BY <1>1, <1>3, <1>5 DEF WorkerDeliver
<1>7. \A e \in Events : Given(e)' <=> Given(e) \/ e = wEvent[w]
  BY <1>5, <1>6 DEF Given
<1>8. ~Given(wEvent[w])
  BY <1>5 DEF Given
<1>9. wNext'[w] > RingSink
  BY <1>1, <1>3 DEF RingSink
<1> QED
  BY <1>1, <1>3, <1>7, <1>8, <1>9

\* A step that leaves the ring alone gives it nothing.
LEMMA RingNotGiven ==
    ASSUME \/ \E w \in Workers : WorkerReceive(w)
           \/ DispatchSend
           \/ Elsewhere
    PROVE  \A e : Given(e)' <=> Given(e)
BY DEF WorkerReceive, DispatchSend, Elsewhere, wVars, Given

\* The window stays the events the ring was given, each once.
LEMMA WindowKept ==
    ASSUME IInv, RBInv, WindowInv, [RingNext]_<<vars, rbVars>>
    PROVE  WindowInv'
<1>1. ASSUME NEW w \in Workers, DeliverToRing(w)
      PROVE  WindowInv'
  <2>1. PICK e : e = wEvent[w]
    OBVIOUS
  <2>2. /\ e \in Event /\ e \in Events /\ ~Given(e) /\ OnEvent(e)
        /\ \A x \in Events : Given(x)' <=> Given(x) \/ x = e
    BY <1>1, <2>1, RingIsGiven, RingHoldsEvents
  <2>3. PICK d \in {0, 1} : MovesOn(d, e)
    BY <2>2, WindowMovesOn
  <2>4. /\ \A i \in 1 .. count : Window[i] \in Events /\ Given(Window[i]) /\ Window[i] # e
        /\ count \in Nat /\ count' \in Nat /\ Capacity \in Nat
    BY <2>2, <2>3, WindowEvents, CapacityAssumption DEF WindowInv, MovesOn
  <2>5. ASSUME NEW i \in 1 .. count'
        PROVE  \/ i = count' /\ Window'[i] = e
               \/ i < count' /\ i + d \in 1 .. count /\ Window'[i] = Window[i + d]
    BY <2>3, <2>4, <2>5 DEF MovesOn
  <2>6. ASSUME NEW i \in 1 .. count'
        PROVE  Given(Window[i])'
    BY <2>2, <2>4, <2>5 DEF Given
  <2>7. ASSUME NEW i \in 1 .. count', NEW j \in 1 .. count', Window'[i] = Window'[j]
        PROVE  i = j
    <3>1. i + d \in 1 .. count /\ j + d \in 1 .. count /\ Window[i + d] = Window[j + d]
             => i + d = j + d
      BY DEF WindowInv
    <3> QED
      BY <2>3, <2>4, <2>5, <2>7, <3>1
  <2>8. ASSUME count' < Capacity, NEW x \in Events, Given(x)'
        PROVE  \E i \in 1 .. count' : Window'[i] = x
    <3>1. count < Capacity /\ d = 0 /\ count' = count + 1 /\ count' \in 1 .. count'
      BY <2>3, <2>4, <2>8 DEF MovesOn
    <3>2. CASE x = e
      BY <2>3, <3>1, <3>2 DEF MovesOn
    <3>3. CASE x # e
      <4>1. PICK i \in 1 .. count : Window[i] = x
        BY <2>2, <2>8, <3>1, <3>3 DEF WindowInv
      <4>2. i \in 1 .. count' /\ i < count' /\ i + d = i
        BY <2>4, <3>1
      <4>3. Window'[i] = x
        BY <2>5, <4>1, <4>2
      <4> QED
        BY <4>2, <4>3
    <3> QED
      BY <3>2, <3>3
  <2> QED
    BY <2>6, <2>7, <2>8 DEF WindowInv
<1>2. ASSUME UNCHANGED rbVars, \A e : Given(e)' <=> Given(e)
      PROVE  WindowInv'
  <2>1. Window' = Window /\ count' = count
    BY <1>2 DEF rbVars, Window
  <2>2. \A i : Given(Window[i])' <=> Given(Window[i])
    BY <1>2, <2>1 DEF Given
  <2> QED
    BY <1>2, <2>1, <2>2 DEF WindowInv
<1>3. CASE \E w \in Workers : WorkerReceive(w) /\ UNCHANGED rbVars
  BY <1>2, <1>3, RingNotGiven
<1>4. CASE DispatchSend /\ UNCHANGED rbVars
  BY <1>2, <1>4, RingNotGiven
<1>5. CASE Elsewhere
  BY <1>2, <1>5, RingNotGiven DEF Elsewhere
<1> QED
  BY <1>1, <1>3, <1>4, <1>5, StepKinds

\* What a worker takes is the head of the queue, and the others hold on.
LEMMA ReceiveFacts ==
    ASSUME IInv, NEW w \in Workers, WorkerReceive(w)
    PROVE  /\ Len(inChan) \in Nat /\ Len(inChan) > 0
           /\ wEvent'[w] = inChan[1] /\ inChan[1] \in Events
           /\ Len(inChan') = Len(inChan) - 1
           /\ \A k \in 1 .. Len(inChan') : inChan'[k] = inChan[k + 1]
           /\ \A k \in 1 .. Len(inChan) : inChan[k] \in Nat
           /\ \A v \in Workers : v # w => /\ wEvent'[v] = wEvent[v]
                                          /\ v \in Holding' <=> v \in Holding
                                          /\ PastRing(v)' <=> PastRing(v)
<1>1. /\ inChan \in Seq(Events)
      /\ wPc \in [Workers -> {"off", "recv", "busy", "deliver", "exited"}]
      /\ wEvent \in [Workers -> 0 .. NumEvents]
  BY DEF IInv, TypeOK, ChannelsTypeOK, WorkersTypeOK
<1>2. /\ inChan # <<>> /\ inChan' = Tail(inChan)
      /\ wPc' = [wPc EXCEPT ![w] = "busy"]
      /\ wEvent' = [wEvent EXCEPT ![w] = Head(inChan)]
      /\ wNext' = wNext
  BY DEF WorkerReceive
<1>3. /\ Len(inChan) \in Nat /\ Len(inChan) > 0
      /\ Head(inChan) = inChan[1]
      /\ Len(inChan') = Len(inChan) - 1
      /\ \A k \in 1 .. Len(inChan') : inChan'[k] = inChan[k + 1]
  BY <1>1, <1>2, Receive
<1>4. \A k \in 1 .. Len(inChan) : inChan[k] \in Events /\ inChan[k] \in Nat
  BY <1>1, Content
<1>5. wEvent'[w] = inChan[1] /\ inChan[1] \in Events
  BY <1>1, <1>2, <1>3, <1>4
<1>6. \A v \in Workers : v # w => wEvent'[v] = wEvent[v] /\ wPc'[v] = wPc[v]
  BY <1>1, <1>2
<1>7. \A v \in Workers : v # w => /\ v \in Holding' <=> v \in Holding
                                  /\ PastRing(v)' <=> PastRing(v)
  BY <1>2, <1>6 DEF Holding, PastRing
<1> QED
  BY <1>3, <1>4, <1>5, <1>6, <1>7

\* The queue stays behind what has left it: the dispatcher sends in the source's
\* order, and the workers take from the front.
LEMMA QueueAheadKept ==
    ASSUME IInv, QueueAheadInv, [RingNext]_<<vars, rbVars>>
    PROVE  QueueAheadInv'
<1>t. /\ inChan \in Seq(Events) /\ Len(inChan) \in Nat
      /\ \A k \in 1 .. Len(inChan) : inChan[k] \in Nat
      /\ \A w \in Holding : w \in Workers /\ wEvent[w] \in Events
      /\ \A e \in Events : e \in Nat
  <2>1. inChan \in Seq(Events)
    BY DEF IInv, TypeOK, ChannelsTypeOK
  <2>2. \A w \in Holding : w \in Workers /\ wEvent[w] \in Events
    BY DEF IInv, TypeOK, WorkersTypeOK, Holding
  <2> QED
    BY <2>1, <2>2, Content DEF Events
<1>1. ASSUME NEW w \in Workers, DeliverToRing(w), HoldersKeep
      PROVE  QueueAheadInv'
  <2>1. /\ inChan' = inChan /\ wEvent' = wEvent /\ w \in Holding
        /\ \A e \in Events : Given(e)' <=> Given(e) \/ e = wEvent[w]
    BY <1>1, RingIsGiven
  <2>2. Holding' \subseteq Holding
    BY <1>1 DEF HoldersKeep, Holding
  <2> QED
    BY <2>1, <2>2 DEF QueueAheadInv
<1>2. ASSUME NEW w \in Workers, WorkerReceive(w)
      PROVE  QueueAheadInv'
  <2>1. \A e : Given(e)' <=> Given(e)
    BY <1>2, RingNotGiven
  <2>2. ASSUME NEW k \in 1 .. Len(inChan')
        PROVE  /\ \A v \in Holding' : wEvent'[v] < inChan'[k]
               /\ \A e \in Events : Given(e)' => e < inChan'[k]
    <3>1. /\ k + 1 \in 1 .. Len(inChan) /\ 1 \in 1 .. Len(inChan) /\ 1 < k + 1
          /\ inChan'[k] = inChan[k + 1]
      BY <1>2, ReceiveFacts
    <3>2. inChan[1] < inChan[k + 1]
      BY <3>1 DEF IInv, OrderInv
    <3>3. ASSUME NEW v \in Holding'
          PROVE  wEvent'[v] < inChan'[k]
      <4>1. v \in Workers
        BY DEF Holding
      <4>2. CASE v = w
        BY <1>2, <3>1, <3>2, <4>2, ReceiveFacts
      <4>3. CASE v # w
        BY <1>2, <3>1, <4>1, <4>3, ReceiveFacts DEF QueueAheadInv
      <4> QED
        BY <4>2, <4>3
    <3> QED
      BY <2>1, <3>1, <3>3 DEF QueueAheadInv
  <2> QED
    BY <2>2 DEF QueueAheadInv
<1>3. CASE DispatchSend
  <2>1. \A e : Given(e)' <=> Given(e)
    BY <1>3, RingNotGiven
  <2>2. wEvent' = wEvent /\ Holding' = Holding
    BY <1>3 DEF DispatchSend, wVars, Holding
  <2>3. /\ dispPc = "send" /\ dispEvent \in Events /\ dispEvent = Taken
        /\ inChan' = Append(inChan, dispEvent)
    BY <1>3 DEF DispatchSend, IInv, TypeOK, DispatcherTypeOK, OrderInv
  <2>4. ASSUME NEW e \in Events, PassedOn(e)
        PROVE  e < dispEvent
    <3>1. e <= Taken /\ e # dispEvent
      BY <2>3, <2>4 DEF PassedOn
    <3> QED
      BY <1>t, <2>3, <3>1
  <2>5. \A v \in Holding : wEvent[v] < dispEvent
    BY <1>t, <2>4 DEF IInv, ApartInv
  <2>6. ASSUME NEW e \in Events, Given(e)
        PROVE  e < dispEvent
    <3>1. ~Untouched(e)
      BY <2>6, SinksAssumption DEF Untouched, Given, RingSink, Sinks
    <3>2. PassedOn(e)
      BY <3>1 DEF IInv, ReachInv
    <3> QED
      BY <2>4, <3>2
  <2>7. /\ Len(inChan') = Len(inChan) + 1
        /\ \A k \in 1 .. Len(inChan) : inChan'[k] = inChan[k]
        /\ inChan'[Len(inChan) + 1] = dispEvent
    BY <1>t, <2>3, Send
  <2>8. ASSUME NEW k \in 1 .. Len(inChan')
        PROVE  /\ \A v \in Holding' : wEvent'[v] < inChan'[k]
               /\ \A e \in Events : Given(e)' => e < inChan'[k]
    <3>1. CASE k \in 1 .. Len(inChan)
      BY <2>1, <2>2, <2>7, <3>1 DEF QueueAheadInv
    <3>2. CASE k = Len(inChan) + 1
      BY <2>1, <2>2, <2>5, <2>6, <2>7, <3>2
    <3> QED
      BY <1>t, <2>7, <3>1, <3>2
  <2> QED
    BY <2>8 DEF QueueAheadInv
<1>4. CASE Elsewhere
  <2>1. \A e : Given(e)' <=> Given(e)
    BY <1>4, RingNotGiven
  <2>2. inChan' = inChan /\ wEvent' = wEvent /\ Holding' \subseteq Holding
    BY <1>4 DEF Elsewhere, HoldersKeep, Holding
  <2> QED
    BY <2>1, <2>2 DEF QueueAheadInv
<1> QED
  BY <1>1, <1>2, <1>3, <1>4, StepKinds

\* A worker that delivers has not brought a later event before, and one that takes
\* an event takes one later than all in the ring.
LEMMA BroughtKept ==
    ASSUME IInv, RBInv, WindowInv, QueueAheadInv, BroughtInv, [RingNext]_<<vars, rbVars>>
    PROVE  BroughtInv'
<1>1. PICK who \in [1 .. count -> Workers] : BroughtBy(who)
  BY DEF BroughtInv
<1>2. ASSUME NEW w \in Workers, DeliverToRing(w), HoldersKeep
      PROVE  BroughtInv'
  <2>1. PICK e : e = wEvent[w]
    OBVIOUS
  <2>2. /\ e \in Event /\ e \in Events /\ OnEvent(e) /\ w \in Holding
        /\ wNext[w] = RingSink /\ wNext'[w] > RingSink /\ wEvent' = wEvent
    BY <1>2, <2>1, RingIsGiven, RingHoldsEvents
  <2>3. PICK d \in {0, 1} : MovesOn(d, e)
    BY <2>2, WindowMovesOn
  <2>4. /\ count \in Nat /\ count' \in Nat
        /\ \A i \in 1 .. count : Window[i] \in Nat
    BY <2>3, WindowEvents, CapacityAssumption DEF MovesOn
  <2>5. PICK then : then = [i \in 1 .. count' |-> IF i = count' THEN w ELSE who[i + d]]
    OBVIOUS
  <2>6. ASSUME NEW i \in 1 .. count'
        PROVE  \/ i = count' /\ Window'[i] = e /\ then[i] = w
               \/ /\ i < count' /\ i + d \in 1 .. count
                  /\ Window'[i] = Window[i + d] /\ then[i] = who[i + d]
    BY <2>3, <2>4, <2>5 DEF MovesOn
  <2>7. then \in [1 .. count' -> Workers]
    BY <2>3, <2>4, <2>5 DEF MovesOn
  <2>8. ~PastRing(w)
    BY <2>2 DEF PastRing, RingSink
  <2>9. \A k \in 1 .. count : who[k] = w => Window[k] < e
    BY <1>1, <2>1, <2>2, <2>8 DEF BroughtBy
  <2>10. ASSUME NEW i \in 1 .. count', NEW j \in 1 .. count', i < j, then[i] = then[j]
         PROVE  Window'[i] < Window'[j]
    <3>1. i < count' /\ i + d \in 1 .. count /\ Window'[i] = Window[i + d]
                     /\ then[i] = who[i + d]
      BY <2>4, <2>6, <2>10
    <3>2. CASE j = count'
      <4>1. Window'[j] = e /\ then[j] = w
        BY <2>4, <2>6, <3>2
      <4>2. who[i + d] = w
        BY <2>10, <3>1, <4>1
      <4> QED
        BY <2>9, <3>1, <4>1, <4>2
    <3>3. CASE j # count'
      <4>1. j + d \in 1 .. count /\ Window'[j] = Window[j + d] /\ then[j] = who[j + d]
        BY <2>6, <3>3
      <4>2. i + d < j + d
        BY <2>3, <2>4, <2>10
      <4> QED
        BY <1>1, <2>10, <3>1, <4>1, <4>2 DEF BroughtBy
    <3> QED
      BY <3>2, <3>3
  <2>11. ASSUME NEW i \in 1 .. count', then[i] \in Holding'
         PROVE  \/ Window'[i] < wEvent'[then[i]]
                \/ Window'[i] = wEvent'[then[i]] /\ PastRing(then[i])'
    <3>1. CASE i = count'
      <4>1. then[i] = w /\ Window'[i] = wEvent'[w]
        BY <2>1, <2>2, <2>4, <2>6, <3>1
      <4>2. wPc'[w] = "deliver"
        BY <1>2, <2>11, <4>1, DeliverFacts DEF Holding, DeliverToRing, IInv
      <4> QED
        BY <2>2, <4>1, <4>2 DEF PastRing
    <3>2. CASE i # count'
      <4>1. /\ i + d \in 1 .. count /\ Window'[i] = Window[i + d]
            /\ then[i] = who[i + d] /\ then[i] \in Workers
        BY <1>1, <2>6, <3>2
      <4>2. then[i] \in Holding /\ (PastRing(then[i]) => PastRing(then[i])')
        BY <1>2, <2>11, <4>1 DEF HoldersKeep
      <4> QED
        BY <1>1, <2>2, <4>1, <4>2 DEF BroughtBy
    <3> QED
      BY <3>1, <3>2
  <2>12. BroughtBy(then)'
    BY <2>10, <2>11 DEF BroughtBy, PastRing
  <2> QED
    BY <2>7, <2>12 DEF BroughtInv
<1>3. ASSUME UNCHANGED rbVars, BroughtBy(who)'
      PROVE  BroughtInv'
  <2>1. count' = count
    BY <1>3 DEF rbVars
  <2> QED
    BY <1>1, <1>3, <2>1 DEF BroughtInv
<1>4. ASSUME UNCHANGED rbVars, HoldersKeep, wEvent' = wEvent
      PROVE  BroughtInv'
  <2>1. Window' = Window /\ count' = count
    BY <1>4 DEF rbVars, Window
  <2>2. ASSUME NEW i \in 1 .. count, who[i] \in Holding'
        PROVE  \/ Window[i] < wEvent[who[i]]
               \/ Window[i] = wEvent[who[i]] /\ PastRing(who[i])'
    BY <1>1, <1>4, <2>2 DEF BroughtBy, HoldersKeep
  <2>3. BroughtBy(who)'
    BY <1>1, <1>4, <2>1, <2>2 DEF BroughtBy, PastRing
  <2> QED
    BY <1>3, <1>4, <2>3
<1>5. ASSUME NEW w \in Workers, WorkerReceive(w), UNCHANGED rbVars
      PROVE  BroughtInv'
  <2>1. Window' = Window /\ count' = count
    BY <1>5 DEF rbVars, Window
  <2>2. ASSUME NEW i \in 1 .. count, who[i] \in Holding'
        PROVE  \/ Window[i] < wEvent'[who[i]]
               \/ Window[i] = wEvent'[who[i]] /\ PastRing(who[i])'
    <3>1. CASE who[i] = w
      <4>1. Given(Window[i]) /\ Window[i] \in Events
        BY WindowEvents DEF WindowInv
      <4>2. wEvent'[w] = inChan[1] /\ 1 \in 1 .. Len(inChan)
        BY <1>5, ReceiveFacts
      <4> QED
        BY <3>1, <4>1, <4>2 DEF QueueAheadInv
    <3>2. CASE who[i] # w
      BY <1>1, <1>5, <2>2, <3>2, ReceiveFacts DEF BroughtBy
    <3> QED
      BY <3>1, <3>2
  <2>3. BroughtBy(who)'
    BY <1>1, <2>1, <2>2 DEF BroughtBy, PastRing
  <2> QED
    BY <1>3, <1>5, <2>3
<1>6. CASE DispatchSend /\ UNCHANGED rbVars
  <2>1. HoldersKeep /\ wEvent' = wEvent
    BY <1>6 DEF DispatchSend, wVars, HoldersKeep, Holding, PastRing
  <2> QED
    BY <1>4, <1>6, <2>1
<1>7. CASE Elsewhere
  BY <1>4, <1>7 DEF Elsewhere
<1> QED
  BY <1>2, <1>5, <1>6, <1>7, StepKinds

\* The invariant holds of the empty ring and the engine before Start.
LEMMA RingInvInit == RingInit => RingInv
<1> SUFFICES ASSUME Init, RBInit PROVE RingInv
  BY DEF RingInit
<1>1. IInv /\ RBInv
  BY InvInit, RBInvInit
<1>2. count = 0 /\ inChan = <<>> /\ Holding = {}
  BY DEF RBInit, Init, Holding
<1>3. \A e \in Events : ~Given(e)
  BY SinksAssumption DEF Init, Given, RingSink, Sinks
<1>4. WindowInv
  BY <1>2, <1>3 DEF WindowInv
<1>5. QueueAheadInv
  BY <1>2, EmptySeq DEF QueueAheadInv
<1>6. BroughtInv
  <2>1. PICK who : who = [i \in 1 .. count |-> CHOOSE w \in Workers : TRUE]
    OBVIOUS
  <2>2. who \in [1 .. count -> Workers] /\ BroughtBy(who)
    BY <1>2, <2>1 DEF BroughtBy
  <2> QED
    BY <2>2 DEF BroughtInv
<1> QED
  BY <1>1, <1>4, <1>5, <1>6 DEF RingInv

\* Every step keeps the invariant.
LEMMA RingInvStep == RingInv /\ [RingNext]_<<vars, rbVars>> => RingInv'
<1> SUFFICES ASSUME RingInv, [RingNext]_<<vars, rbVars>> PROVE RingInv'
  OBVIOUS
<1>1. IInv' /\ RBInv'
  BY RingStepIsEngineStep, RingStepIsRingStep, InvStep, RBInvStep DEF RingInv
<1>2. WindowInv'
  BY WindowKept DEF RingInv
<1>3. QueueAheadInv'
  BY QueueAheadKept DEF RingInv
<1>4. BroughtInv'
  BY BroughtKept DEF RingInv
<1> QED
  BY <1>1, <1>2, <1>3, <1>4 DEF RingInv

\* In every state of the engine with its ring, the events in the ring are
\* different, were all given to it, and are in order worker by worker.
THEOREM EngineRingInvariance == RingSpec => []RingInv
<1>1. RingInit => RingInv
  BY RingInvInit
<1>2. RingInv /\ [RingNext]_<<vars, rbVars>> => RingInv'
  BY RingInvStep
<1> QED
  BY <1>1, <1>2, PTL DEF RingSpec

-----------------------------------------------------------------------------
(* What the composition inherits from its parts.                           *)

\* With the ring attached the engine is still the engine: all that is proved of
\* PipelineEngine holds of it.
THEOREM RingSpecIsEngine == RingSpec => Spec
<1>1. RingInit => Init
  BY DEF RingInit
<1> QED
  BY <1>1, RingStepIsEngineStep, PTL DEF RingSpec, Spec

\* The engine uses the ring as the ring expects to be used: all that is proved of
\* RingBuffer holds of the sink in the engine.
THEOREM RingSpecIsRing == RingSpec => RBSpec
<1>1. RingInit => RBInit
  BY DEF RingInit
<1>2. RingInv /\ [RingNext]_<<vars, rbVars>> => [RBNext]_rbVars
  BY RingStepIsRingStep DEF RingInv
<1> QED
  BY <1>1, <1>2, EngineRingInvariance, PTL DEF RingSpec, RBSpec

-----------------------------------------------------------------------------
(* What Last shows of the engine.                                          *)

\* The whole window is what Last returns of Capacity events.
LEMMA ShownIsWindow ==
    ASSUME RBInv
    PROVE  LastEvents(Capacity) = Window /\ Len(Window) = count /\ count \in 0 .. Capacity
<1>1. /\ Capacity \in Nat /\ Capacity > 0 /\ count \in 0 .. Capacity
  BY CapacityAssumption DEF RBInv, RBTypeOK
<1>2. Window \in Seq(Event) /\ Len(Window) = count
  BY WindowAt DEF WindowContent
<1>3. LastEvents(Capacity) = SubSeq(Window, 1, count)
  <2>1. \A n \in -1 .. Capacity + 1 :
          \A k : k = (IF n < 0 THEN 0 ELSE IF n > count THEN count ELSE n)
                   => LastEvents(n) = SubSeq(Window, count - k + 1, count)
    BY InvGivesLastIsSuffix DEF LastIsSuffix
  <2>2. Capacity \in -1 .. Capacity + 1
    BY <1>1
  <2>3. count = (IF Capacity < 0 THEN 0 ELSE IF Capacity > count THEN count ELSE Capacity)
    BY <1>1
  <2>4. LastEvents(Capacity) = SubSeq(Window, count - count + 1, count)
    BY <2>1, <2>2, <2>3
  <2>5. count - count + 1 = 1
    BY <1>1
  <2> QED
    BY <2>4, <2>5
<1>4. PICK last : last = SubSeq(Window, 1, count)
  OBVIOUS
<1>5. /\ last \in Seq(Event) /\ Len(last) = count
      /\ \A i \in 1 .. count : last[i] = Window[i]
  <2>1. \A i \in 1 .. count : Window[i] \in Event
    BY <1>2
  <2>2. /\ SubSeq(Window, 1, count) \in Seq(Event)
        /\ Len(SubSeq(Window, 1, count)) = (IF 1 <= count THEN count - 1 + 1 ELSE 0)
        /\ \A i \in 1 .. count - 1 + 1 : SubSeq(Window, 1, count)[i] = Window[1 + i - 1]
    BY <1>1, <2>1, SubSeqProperties
  <2> QED
    BY <1>1, <1>4, <2>2
<1>6. last = Window
  BY <1>2, <1>5, SeqEqual
<1> QED
  BY <1>1, <1>2, <1>3, <1>4, <1>6

\* The invariant, read by the dashboard: where each event shown has been.
LEMMA InvShowsDelivered == RingInv => ShowsDeliveredEvents
<1> SUFFICES ASSUME RingInv PROVE ShowsDeliveredEvents
  OBVIOUS
<1>1. IInv /\ RBInv /\ WindowInv
  BY DEF RingInv
<1>2. LastEvents(Capacity) = Window /\ Len(Window) = count
  BY <1>1, ShownIsWindow
<1>3. ASSUME NEW i \in 1 .. count
      PROVE  /\ Window[i] \in Events
             /\ delivered[RingSink][Window[i]] = 1
             /\ delivered[1][Window[i]] = 1
  <2>1. PICK e : e = Window[i]
    OBVIOUS
  <2>2. e \in Events /\ delivered[RingSink][e] > 0
    BY <1>1, <2>1, WindowEvents DEF WindowInv, Given
  <2>3. RingSink \in Sinks /\ 1 \in Sinks
    BY SinksAssumption DEF Sinks, RingSink
  <2>4. delivered[1][e] > 0
    BY <1>1, <2>2, <2>3, InvStatsLeads DEF StatsLeads
  <2>5. delivered[RingSink][e] <= 1 /\ delivered[1][e] <= 1
    BY <1>1, <2>2, <2>3, InvAtMostOnce DEF AtMostOnce
  <2>6. delivered[RingSink][e] \in Nat /\ delivered[1][e] \in Nat
    BY <1>1, <2>2, <2>3 DEF IInv, TypeOK, WorkersTypeOK
  <2> QED
    BY <2>1, <2>2, <2>4, <2>5, <2>6
<1>4. \A i, j \in 1 .. count : Window[i] = Window[j] => i = j
  BY <1>1 DEF WindowInv
<1> QED
  BY <1>2, <1>3, <1>4 DEF ShowsDeliveredEvents

\* However workers interleave in the two sinks, what the dashboard reads from the
\* ring was delivered exactly once, is counted already and is shown once.
THEOREM RingShowsDelivered == RingSpec => []ShowsDeliveredEvents
BY EngineRingInvariance, InvShowsDelivered, PTL

\* The window holds as many different events as the count says.
LEMMA WindowSize ==
    ASSUME RingInv
    PROVE  /\ InChannel(Window) = {Window[i] : i \in 1 .. count}
           /\ Cardinality(InChannel(Window)) = count
<1>1. /\ count \in Nat
      /\ Len(Window) = count
      /\ \A i, j \in 1 .. count : Window[i] = Window[j] => i = j
      /\ Window = [i \in 1 .. count |-> Window[i]]
  BY ShownIsWindow DEF RingInv, WindowInv, Window
<1>2. PICK shown : shown = {Window[i] : i \in 1 .. count}
  OBVIOUS
<1>3. InChannel(Window) = shown
  BY <1>1, <1>2 DEF InChannel
<1>4. Window \in Surjection(1 .. count, shown) /\ Window \in Injection(1 .. count, shown)
  BY <1>1, <1>2 DEF Surjection, Injection, IsInjective
<1>5. IsFiniteSet(1 .. count) /\ Cardinality(1 .. count) = count
  <2>1. 1 \in Int /\ count \in Int
    BY <1>1
  <2>2. /\ IsFiniteSet(1 .. count)
        /\ Cardinality(1 .. count) = IF 1 > count THEN 0 ELSE count - 1 + 1
    BY <2>1, FS_Interval, Zenon
  <2> QED
    BY <1>1, <2>2
<1>6. Cardinality(shown) = Cardinality(1 .. count)
  BY <1>4, <1>5, FS_Surjection
<1> QED
  BY <1>2, <1>3, <1>5, <1>6

\* The invariant, read by the dashboard: how many events are shown.
LEMMA InvHoldsAll == RingInv => HoldsAllWhileNotFull
<1> SUFFICES ASSUME RingInv, NEW given, NEW shown,
                    given = {e \in Events : delivered[RingSink][e] > 0},
                    shown = InChannel(LastEvents(Capacity))
             PROVE  /\ shown \subseteq given
                    /\ Cardinality(shown) = IF Cardinality(given) < Capacity
                                              THEN Cardinality(given) ELSE Capacity
  BY DEF HoldsAllWhileNotFull
<1>1. RBInv /\ WindowInv
  BY DEF RingInv
<1>2. /\ shown = {Window[i] : i \in 1 .. count}
      /\ Cardinality(shown) = count
      /\ count \in Nat /\ Capacity \in Nat /\ count <= Capacity
  BY <1>1, ShownIsWindow, WindowSize, CapacityAssumption
<1>3. \A i \in 1 .. count : Window[i] \in given
  BY <1>1, WindowEvents DEF WindowInv, Given
<1>4. shown \subseteq given
  BY <1>2, <1>3
<1>5. CASE count < Capacity
  <2>1. given \subseteq shown
    BY <1>1, <1>2, <1>5 DEF WindowInv, Given
  <2>2. given = shown
    BY <1>4, <2>1
  <2> QED
    BY <1>2, <1>4, <1>5, <2>2
<1>6. CASE count = Capacity
  <2>1. IsFiniteSet(given)
    <3>1. IsFiniteSet(Events) /\ given \subseteq Events
      BY SizesAssumption, FS_Interval DEF Events
    <3> QED
      BY <3>1, FS_Subset
  <2>2. Cardinality(shown) <= Cardinality(given) /\ Cardinality(given) \in Nat
    BY <1>4, <2>1, FS_Subset, FS_CardinalityType
  <2> QED
    BY <1>2, <1>4, <1>6, <2>2
<1> QED
  BY <1>2, <1>5, <1>6

\* Whatever the capacity, nothing recent is missing from the ring: it holds all
\* the events it was given until it is full, and then Capacity of them.
THEOREM RingHoldsAll == RingSpec => []HoldsAllWhileNotFull
BY EngineRingInvariance, InvHoldsAll, PTL

\* Events in falling order were brought by different workers, so the workers
\* bound their number.
LEMMA InvOrderedUpToWorkers == RingInv => OrderedUpToWorkers
<1> SUFFICES ASSUME RingInv, NEW S \in SUBSET (1 .. Len(LastEvents(Capacity))),
                    \A i, j \in S : i < j =>
                        LastEvents(Capacity)[i] > LastEvents(Capacity)[j]
             PROVE  Cardinality(S) <= Cardinality(Workers)
  BY DEF OrderedUpToWorkers
<1>1. LastEvents(Capacity) = Window /\ Len(Window) = count /\ count \in Nat
  BY ShownIsWindow, CapacityAssumption DEF RingInv
<1>2. PICK who \in [1 .. count -> Workers] : BroughtBy(who)
  BY DEF RingInv, BroughtInv
<1>3. /\ S \subseteq 1 .. count
      /\ \A i, j \in S : i < j => Window[i] > Window[j]
      /\ \A i \in 1 .. count : Window[i] \in Nat
  BY <1>1, WindowEvents DEF RingInv
<1>4. ASSUME NEW i \in S, NEW j \in S, who[i] = who[j]
      PROVE  ~(i < j)
  <2> SUFFICES ASSUME i < j PROVE FALSE
    OBVIOUS
  <2>1. i \in 1 .. count /\ j \in 1 .. count
    BY <1>3
  <2>2. Window[i] < Window[j]
    BY <1>2, <1>4, <2>1 DEF BroughtBy
  <2>3. Window[i] > Window[j]
    BY <1>3
  <2> QED
    BY <1>3, <2>1, <2>2, <2>3
<1>5. PICK part : part = [i \in S |-> who[i]]
  OBVIOUS
<1>6. ASSUME NEW i \in S, NEW j \in S, part[i] = part[j]
      PROVE  i = j
  <2>1. who[i] = who[j] /\ i \in Nat /\ j \in Nat
    BY <1>1, <1>3, <1>5, <1>6
  <2>2. ~(i < j) /\ ~(j < i)
    BY <1>4, <2>1
  <2> QED
    BY <2>1, <2>2
<1>7. part \in Injection(S, Workers)
  <2>1. part \in [S -> Workers] /\ DOMAIN part = S
    BY <1>2, <1>3, <1>5
  <2> QED
    BY <1>6, <2>1 DEF Injection, IsInjective
<1> QED
  BY <1>7, WorkersAssumption, FS_Injection

\* However many workers overtake each other, the ring is out of order by no more
\* than their number.
THEOREM RingOrderedUpToWorkers == RingSpec => []OrderedUpToWorkers
BY EngineRingInvariance, InvOrderedUpToWorkers, PTL
=============================================================================
