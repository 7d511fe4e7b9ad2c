----------------------------- MODULE StatsSink -----------------------------
(***************************************************************************)
(* StatsSink of internal/pipeline/sinks.go.  Workers run OnEvent           *)
(* concurrently, one atomic operation per step and no lock; callers of     *)
(* Snapshot (the dashboard, the tests, the final report) hold s.mu and     *)
(* load the counters one after the other while the workers go on.          *)
(***************************************************************************)
EXTENDS Integers, Sequences, FiniteSetsExt

CONSTANTS
    Workers,      \* goroutines calling OnEvent
    Readers,      \* goroutines calling Snapshot
    NoReader,     \* s.mu is free
    Pool,         \* the events to process, each once
    Info,         \* per event: bytes, error, latency, l3 and l4 counters
    MaxDrops,     \* bound: calls of RecordDrop
    MaxSnapshots  \* bound: calls of Snapshot

L3 == {"IPv4Count", "IPv6Count", "ARPCount"}
L4 == {"TCPCount", "UDPCount", "ICMPCount", "OtherCount"}
Counters ==
    {"TotalProcessed", "TotalBytes", "DroppedEvents", "ErrorEvents",
     "SerialCount", "totalLatencyNs", "minLatencyNs", "maxLatencyNs",
     "countLatency"} \cup L3 \cup L4

\* l3 and l4 name the counter OnEvent's categorisation increments, "none" for
\* neither; a serial event has l4 = "SerialCount".
ASSUME InfoAssumption ==
    Info \in [Pool -> [bytes : Nat, error : BOOLEAN, latency : Nat,
                       l3 : L3 \cup {"none"}, l4 : L4 \cup {"SerialCount"}]]

ASSUME BoundsAssumption == MaxDrops \in Nat /\ MaxSnapshots \in Nat

ASSUME ReadersAssumption == NoReader \notin Readers

VARIABLES
    counter,    \* the sink's atomic fields
    pending,    \* events no worker has started
    pc,         \* per worker: the next atomic operation of OnEvent
    event,      \* per worker: its argument
    cur,        \* per worker: curMin or curMax of the CAS loops
    mu,         \* the Snapshot holding s.mu
    pos,        \* per reader: how many fields of its snapshot are loaded
    snap,       \* per reader: those fields
    last,       \* lastProcessed and lastBytes
    rated,      \* sum of the intervals rates have been computed from
    published,  \* the snapshot returned last
    started     \* number of Snapshot calls

workerVars == <<pending, pc, event, cur>>
readerVars == <<mu, pos, snap, last, rated, published, started>>
vars == <<counter, workerVars, readerVars>>

\* The order in which Snapshot loads the fields.
LoadOrder ==
    <<"TotalProcessed", "TotalBytes", "totalLatencyNs", "countLatency",
      "minLatencyNs", "maxLatencyNs", "DroppedEvents", "ErrorEvents",
      "IPv4Count", "IPv6Count", "ARPCount", "TCPCount", "UDPCount",
      "ICMPCount", "SerialCount", "OtherCount">>

Zero == [c \in Counters |-> 0]

Rated == {"TotalProcessed", "TotalBytes"}

Init ==
    /\ counter = Zero
    /\ pending = Pool
    /\ pc = [w \in Workers |-> "idle"]
    /\ event = [w \in Workers |-> CHOOSE e \in Pool : TRUE]
    /\ cur = [w \in Workers |-> 0]
    /\ mu = NoReader
    /\ pos = [r \in Readers |-> 0]
    /\ snap = [r \in Readers |-> Zero]
    /\ last = [c \in Rated |-> 0]
    /\ rated = [c \in Rated |-> 0]
    /\ published = Zero
    /\ started = 0

-----------------------------------------------------------------------------
(* OnEvent.                                                                *)

Its(w) == Info[event[w]]

Goto(w, label) == pc' = [pc EXCEPT ![w] = label]

\* atomic.AddUint64(&s.c, n)
Add(c, n) == counter' = [counter EXCEPT ![c] = @ + n]

\* Protocol categorisation: a network-layer counter if the packet has one,
\* then a transport-layer one; or SerialCount alone.
Category(w) ==
    IF Its(w).l3 # "none" /\ Its(w).l4 # "SerialCount" THEN "l3" ELSE "l4"

Keep == UNCHANGED <<pending, event, readerVars>>

\* Worker w is called with an event and counts it.
CountProcessed(w) ==
    /\ pc[w] = "idle"
    /\ \E e \in pending :
          /\ event' = [event EXCEPT ![w] = e]
          /\ pending' = pending \ {e}
    /\ Add("TotalProcessed", 1)
    /\ Goto(w, "bytes")
    /\ UNCHANGED <<cur, readerVars>>

CountBytes(w) ==
    /\ pc[w] = "bytes"
    /\ Add("TotalBytes", Its(w).bytes)
    /\ Goto(w, IF Its(w).error THEN "error"
               ELSE IF Its(w).latency > 0 THEN "latency" ELSE Category(w))
    /\ UNCHANGED cur /\ Keep

CountError(w) ==
    /\ pc[w] = "error"
    /\ Add("ErrorEvents", 1)
    /\ Goto(w, IF Its(w).latency > 0 THEN "latency" ELSE Category(w))
    /\ UNCHANGED cur /\ Keep

AddLatency(w) ==
    /\ pc[w] = "latency"
    /\ Add("totalLatencyNs", Its(w).latency)
    /\ Goto(w, "samples")
    /\ UNCHANGED cur /\ Keep

CountLatency(w) ==
    /\ pc[w] = "samples"
    /\ Add("countLatency", 1)
    /\ Goto(w, "loadMin")
    /\ UNCHANGED cur /\ Keep

\* The loops that keep the extremes: load, leave if the sample is no better,
\* else compare-and-swap and start again if another worker was faster.
LoadMin(w) ==
    /\ pc[w] = "loadMin"
    /\ LET m == counter["minLatencyNs"]
       IN  /\ cur' = [cur EXCEPT ![w] = m]
           /\ Goto(w, IF m # 0 /\ m <= Its(w).latency THEN "loadMax" ELSE "casMin")
    /\ UNCHANGED counter /\ Keep

\* Mutants: a plain store, and a retry that does not load again.
StoreMin(w) ==
    /\ pc[w] = "casMin"
    /\ counter' = [counter EXCEPT !["minLatencyNs"] = Its(w).latency]
    /\ Goto(w, "loadMax")
    /\ UNCHANGED cur /\ Keep

CasMinStale(w) ==
    /\ pc[w] = "casMin"
    /\ IF counter["minLatencyNs"] = cur[w]
         THEN /\ counter' = [counter EXCEPT !["minLatencyNs"] = Its(w).latency]
              /\ Goto(w, "loadMax")
         ELSE UNCHANGED <<counter, pc>>
    /\ UNCHANGED cur /\ Keep

CasMin(w) ==
    /\ pc[w] = "casMin"
    /\ IF counter["minLatencyNs"] = cur[w]
         THEN /\ counter' = [counter EXCEPT !["minLatencyNs"] = Its(w).latency]
              /\ Goto(w, "loadMax")
         ELSE UNCHANGED counter /\ Goto(w, "loadMin")
    /\ UNCHANGED cur /\ Keep

LoadMax(w) ==
    /\ pc[w] = "loadMax"
    /\ LET m == counter["maxLatencyNs"]
       IN  /\ cur' = [cur EXCEPT ![w] = m]
           /\ Goto(w, IF m >= Its(w).latency THEN Category(w) ELSE "casMax")
    /\ UNCHANGED counter /\ Keep

\* Mutant: a plain store.
StoreMax(w) ==
    /\ pc[w] = "casMax"
    /\ counter' = [counter EXCEPT !["maxLatencyNs"] = Its(w).latency]
    /\ Goto(w, Category(w))
    /\ UNCHANGED cur /\ Keep

CasMax(w) ==
    /\ pc[w] = "casMax"
    /\ IF counter["maxLatencyNs"] = cur[w]
         THEN /\ counter' = [counter EXCEPT !["maxLatencyNs"] = Its(w).latency]
              /\ Goto(w, Category(w))
         ELSE UNCHANGED counter /\ Goto(w, "loadMax")
    /\ UNCHANGED cur /\ Keep

\* Mutant: the transport layer of a packet with a network layer is not counted.
CountL3Only(w) ==
    /\ pc[w] = "l3"
    /\ Add(Its(w).l3, 1)
    /\ Goto(w, "idle")
    /\ UNCHANGED cur /\ Keep

CountL3(w) ==
    /\ pc[w] = "l3"
    /\ Add(Its(w).l3, 1)
    /\ Goto(w, "l4")
    /\ UNCHANGED cur /\ Keep

CountL4(w) ==
    /\ pc[w] = "l4"
    /\ Add(Its(w).l4, 1)
    /\ Goto(w, "idle")
    /\ UNCHANGED cur /\ Keep

OnEvent(w) ==
    \/ CountProcessed(w) \/ CountBytes(w) \/ CountError(w)
    \/ AddLatency(w) \/ CountLatency(w)
    \/ LoadMin(w) \/ CasMin(w) \/ LoadMax(w) \/ CasMax(w)
    \/ CountL3(w) \/ CountL4(w)

\* Called by the dispatcher.
RecordDrop ==
    /\ counter["DroppedEvents"] < MaxDrops
    /\ Add("DroppedEvents", 1)
    /\ UNCHANGED <<workerVars, readerVars>>

-----------------------------------------------------------------------------
(* Snapshot.                                                               *)

\* Mutant: s.mu is not taken.
SnapshotNoLock(r) ==
    /\ pos[r] = 0
    /\ started < MaxSnapshots
    /\ mu' = r
    /\ started' = started + 1
    /\ pos' = [pos EXCEPT ![r] = 1]
    /\ UNCHANGED <<counter, workerVars, snap, last, rated, published>>

SnapshotLock(r) ==
    /\ mu = NoReader
    /\ pos[r] = 0
    /\ started < MaxSnapshots
    /\ mu' = r
    /\ started' = started + 1
    /\ pos' = [pos EXCEPT ![r] = 1]
    /\ UNCHANGED <<counter, workerVars, snap, last, rated, published>>

\* Load the next field.  After the first two, the rates are computed from the
\* growth since the previous snapshot, which this one then replaces.
SnapshotLoad(r) ==
    /\ pos[r] \in 1 .. Len(LoadOrder)
    /\ LET c == LoadOrder[pos[r]]
       IN  /\ snap' = [snap EXCEPT ![r][c] = counter[c]]
           /\ IF c = "TotalBytes"
                THEN LET now == [d \in Rated |-> snap'[r][d]]
                     IN  /\ rated' = [d \in Rated |-> rated[d] + (now[d] - last[d])]
                         /\ last' = now
                ELSE UNCHANGED <<rated, last>>
    /\ pos' = [pos EXCEPT ![r] = @ + 1]
    /\ UNCHANGED <<counter, workerVars, mu, published, started>>

SnapshotReturn(r) ==
    /\ pos[r] = Len(LoadOrder) + 1
    /\ published' = snap[r]
    /\ mu' = NoReader
    /\ pos' = [pos EXCEPT ![r] = 0]
    /\ snap' = [snap EXCEPT ![r] = Zero]
    /\ UNCHANGED <<counter, workerVars, last, rated, started>>

Snapshot(r) == SnapshotLock(r) \/ SnapshotLoad(r) \/ SnapshotReturn(r)

-----------------------------------------------------------------------------
AllDone ==
    /\ pending = {}
    /\ \A w \in Workers : pc[w] = "idle"
    /\ \A r \in Readers : pos[r] = 0
    /\ UNCHANGED vars

Next ==
    \/ \E w \in Workers : OnEvent(w)
    \/ \E r \in Readers : Snapshot(r)
    \/ RecordDrop
    \/ AllDone

Spec == Init /\ [][Next]_vars

\* Every goroutine in the middle of a call runs.
FairSpec ==
    /\ Spec
    /\ \A w \in Workers : WF_vars(OnEvent(w))
    /\ \A r \in Readers : WF_vars(SnapshotLoad(r) \/ SnapshotReturn(r))
-----------------------------------------------------------------------------
(* Safety.                                                                 *)

InCall == {w \in Workers : pc[w] # "idle"}

\* Whenever no OnEvent is under way the fields are exactly those a sequential
\* execution would have left: no increment is lost, and the compare-and-swap
\* loops have found the true minimum and maximum of all samples.
ExactAtRest ==
    InCall = {} =>
        LET done  == Pool \ pending
            timed == {Info[e].latency : e \in {d \in done : Info[d].latency > 0}}
            Count(P(_)) == Cardinality({e \in done : P(e)})
        IN  /\ counter["TotalProcessed"] = Cardinality(done)
            /\ counter["TotalBytes"] = MapThenSumSet(LAMBDA e : Info[e].bytes, done)
            /\ counter["ErrorEvents"] = Count(LAMBDA e : Info[e].error)
            /\ counter["totalLatencyNs"] = MapThenSumSet(LAMBDA e : Info[e].latency, done)
            /\ counter["countLatency"] = Count(LAMBDA e : Info[e].latency > 0)
            /\ counter["minLatencyNs"] = IF timed = {} THEN 0 ELSE Min(timed)
            /\ counter["maxLatencyNs"] = IF timed = {} THEN 0 ELSE Max(timed)

\* Serial, TCP, UDP, ICMP and Other partition the events: at any moment they
\* count each event whose OnEvent has returned once and no other, and the
\* network-layer counters never exceed them.  Errors are among the events processed.
ProtocolPartition ==
    LET Total(C) == MapThenSumSet(LAMBDA c : counter[c], C)
    IN  /\ Total(L4 \cup {"SerialCount"}) =
               counter["TotalProcessed"] - Cardinality(InCall)
        /\ Total(L3) <= counter["TotalProcessed"] - counter["SerialCount"]
        /\ counter["ErrorEvents"] <= counter["TotalProcessed"]

\* The minimum only falls once set and the maximum only rises: a slow worker
\* does not overwrite a better sample with its own.
ExtremesMonotone ==
    [][/\ counter["minLatencyNs"] # 0 =>
             counter'["minLatencyNs"] \in 1 .. counter["minLatencyNs"]
       /\ counter'["maxLatencyNs"] >= counter["maxLatencyNs"]]_vars

\* Rates are computed from unsigned differences: with several callers of
\* Snapshot none of them is negative, which would be a huge number.
RatesNeverUnderflow ==
    [][\A d \in Rated : rated'[d] >= rated[d]]_vars

\* What one caller after the other is shown never goes back.
SnapshotsMonotone ==
    [][\A c \in Counters \ {"minLatencyNs"} : published'[c] >= published[c]]_vars

\* The comment on StatsSnapshot: "an instantaneous view of pipeline throughput
\* and totals".  ErrorEvents <= TotalProcessed holds at every instant
\* (ProtocolPartition), so it would hold of an instantaneous view.
SnapshotIsInstantaneous == published["ErrorEvents"] <= published["TotalProcessed"]

-----------------------------------------------------------------------------
(* Liveness, under FairSpec.                                               *)

\* Every OnEvent returns: a compare-and-swap fails only because another worker's
\* succeeded, so the loops end although nobody waits for anybody.
OnEventReturns == \A w \in Workers : pc[w] # "idle" ~> pc[w] = "idle"
=============================================================================
