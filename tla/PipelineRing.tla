---------------------------- MODULE PipelineRing ----------------------------
(***************************************************************************)
(* The engine together with its RingBufferSink: the second sink of the     *)
(* list, given each event by whichever worker processed it, while the      *)
(* dashboard reads Last(n) from it.                                        *)
(***************************************************************************)
EXTENDS PipelineEngine, RingBuffer

ASSUME RingHoldsEvents == Event = Events   \* Capacity is Config.RingBufferSize

RingSink == 2

RingInit == Init /\ RBInit

\* The calls of RingBufferSink.OnEvent are the engine's steps that deliver to
\* the second sink; every other step leaves the ring alone.
DeliverToRing(w) ==
    /\ wNext[w] = RingSink
    /\ WorkerDeliver(w)
    /\ OnEvent(wEvent[w])

DeliverElsewhere(w) ==
    /\ wNext[w] # RingSink
    /\ WorkerDeliver(w)
    /\ UNCHANGED rbVars

WorkerElse(w) ==
    /\ \/ WorkerReceive(w) \/ WorkerDiscard(w) \/ WorkerSnapshotSinks(w)
       \/ WorkerExit(w)
    /\ UNCHANGED rbVars

OtherGoroutines ==
    /\ Start \/ Stop \/ AddSink \/ ParentCancel \/ Source \/ Dispatcher \/ Quiet
    /\ UNCHANGED rbVars

RingNext ==
    \/ \E w \in Workers : DeliverToRing(w) \/ DeliverElsewhere(w) \/ WorkerElse(w)
    \/ OtherGoroutines

RingSpec == RingInit /\ [][RingNext]_<<vars, rbVars>>

-----------------------------------------------------------------------------
\* What the dashboard is shown: Last returns no empty slot, and every event it
\* returns has gone through OnEvent exactly once, is already counted by the
\* StatsSink and appears once.
ShowsDeliveredEvents ==
    LET recent == LastEvents(Capacity)
    IN  /\ \A i \in 1 .. Len(recent) :
              /\ recent[i] \in Events
              /\ delivered[RingSink][recent[i]] = 1
              /\ delivered[1][recent[i]] = 1
        /\ \A i, j \in 1 .. Len(recent) : recent[i] = recent[j] => i = j

\* Nothing recent is missing: as long as the ring is not full it holds all that
\* was delivered, and then it holds Capacity of them.
HoldsAllWhileNotFull ==
    LET given == {e \in Events : delivered[RingSink][e] > 0}
        shown == InChannel(LastEvents(Capacity))
    IN  /\ shown \subseteq given
        /\ Cardinality(shown) = IF Cardinality(given) < Capacity
                                  THEN Cardinality(given) ELSE Capacity

\* The ring is out of order only as far as workers overtake each other: what each of
\* them delivered is in order, so no event is preceded by a falling run of later
\* events as long as there are workers.  One worker keeps it chronological.
OrderedUpToWorkers ==
    LET recent == LastEvents(Capacity)
    IN  \A S \in SUBSET (1 .. Len(recent)) :
            (\A i, j \in S : i < j => recent[i] > recent[j])
                => Cardinality(S) <= Cardinality(Workers)

\* The comment on Last: "the most recent N events in chronological order".  IDs
\* are given, and timestamps taken, in the order of the source.
Chronological ==
    LET recent == LastEvents(Capacity)
    IN  \A i, j \in 1 .. Len(recent) : i < j => recent[i] < recent[j]
=============================================================================
