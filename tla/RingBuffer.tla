----------------------------- MODULE RingBuffer -----------------------------
(***************************************************************************)
(* RingBufferSink of internal/pipeline/sinks.go: the last events processed *)
(* in a circular buffer.  OnEvent, Last and Len each run under rb.mu, so   *)
(* each is one step.                                                       *)
(***************************************************************************)
EXTENDS Integers, Sequences

CONSTANTS
    Event,       \* the events recorded
    NoEvent,     \* an empty slot: the zero PipelineEvent
    Capacity     \* rb.capacity, positive since NewRingBufferSink makes it 256

ASSUME CapacityAssumption == Capacity \in Nat \ {0}

ASSUME NoEventAssumption == NoEvent \notin Event

VARIABLES buffer, head, count

rbVars == <<buffer, head, count>>

Slots == 0 .. Capacity - 1

RBInit ==
    /\ buffer = [i \in Slots |-> NoEvent]
    /\ head = 0
    /\ count = 0

\* Mutants: the slot after head is written, and the last slot never counted.
OnEventWritesAhead(e) ==
    /\ buffer' = [buffer EXCEPT ![(head + 1) % Capacity] = e]
    /\ head' = (head + 1) % Capacity
    /\ count' = IF count < Capacity THEN count + 1 ELSE count

OnEventCountsShort(e) ==
    /\ buffer' = [buffer EXCEPT ![head] = e]
    /\ head' = (head + 1) % Capacity
    /\ count' = IF count < Capacity - 1 THEN count + 1 ELSE count

\* Overwrite the oldest slot when full.
OnEvent(e) ==
    /\ buffer' = [buffer EXCEPT ![head] = e]
    /\ head' = (head + 1) % Capacity
    /\ count' = IF count < Capacity THEN count + 1 ELSE count

\* Mutant: the buffer is read as if it never wrapped.
LastEventsLinear(n) ==
    IF n <= 0 \/ count = 0
      THEN <<>>
      ELSE LET k == IF n > count THEN count ELSE n
           IN  [i \in 1 .. k |-> buffer[count - k + i - 1]]

\* The most recent n events, clamped to what is stored.
LastEvents(n) ==
    IF n <= 0 \/ count = 0
      THEN <<>>
      ELSE LET k     == IF n > count THEN count ELSE n
               start == (head - k + Capacity) % Capacity
           IN  [i \in 1 .. k |-> buffer[(start + i - 1) % Capacity]]

RBNext == \E e \in Event : OnEvent(e)

RBSpec == RBInit /\ [][RBNext]_rbVars

-----------------------------------------------------------------------------
RBTypeOK ==
    /\ buffer \in [Slots -> Event \cup {NoEvent}]
    /\ head \in Slots
    /\ count \in 0 .. Capacity

\* The buffer fills from slot 0 and wraps only once full, so that the window
\* of count slots ending before head holds events and the rest none: a reader
\* of Last never sees a slot that was not written.
WindowWritten ==
    /\ count < Capacity => head = count
    /\ \A i \in Slots : buffer[i] = NoEvent <=> i >= count

RBInv == RBTypeOK /\ WindowWritten

\* The count slots before head, oldest first.
Window == [i \in 1 .. count |-> buffer[(head - count + i - 1 + Capacity) % Capacity]]

Log == INSTANCE RecentLog WITH recent <- Window

\* The circular buffer implements the bounded log of recent events.
ImplementsRecentLog == Log!Spec

\* Last(n) is the end of that log, however n compares with what is stored.
LastIsSuffix ==
    \A n \in -1 .. Capacity + 1 :
        LastEvents(n) =
            LET k == IF n < 0 THEN 0 ELSE IF n > count THEN count ELSE n
            IN  SubSeq(Window, count - k + 1, count)
=============================================================================
