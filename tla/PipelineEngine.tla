--------------------------- MODULE PipelineEngine ---------------------------
(***************************************************************************)
(* The concurrent engine of internal/pipeline/engine.go with a finite      *)
(* in-memory or file source (sources.go) in front of it.                   *)
(*                                                                         *)
(*   source goroutine --srcChan--> dispatcher --inChan--> workers --> sinks *)
(*                                                                         *)
(* One goroutine runs the source, one the dispatcher (ingestionLoop) and   *)
(* one each worker (workerLoop).  A control thread calls Start once and    *)
(* then Stop; any other goroutine may call AddSink or cancel the parent    *)
(* context.  A step is one channel operation, one critical section of mu   *)
(* or one call of a sink: the granularity at which goroutines interleave.  *)
(*                                                                         *)
(* An event is its ID: sources number the events they emit 1, 2, 3, ...    *)
(* A sink is its position in pe.Sinks, which only ever grows: 1 is the     *)
(* StatsSink, 2 the RingBufferSink.                                        *)
(***************************************************************************)
EXTENDS Naturals, Sequences, FiniteSets

CONSTANTS
    NumEvents,           \* events the source has to offer
    Workers,             \* the goroutines of the pool (Config.NumWorkers)
    QueueSize,           \* capacity of inChan (Config.QueueSize)
    SrcCap,              \* capacity of the source's channel
    InitSinks,           \* sinks registered before Start
    MaxSinks,            \* bound: sinks registered altogether
    DropOnBackpressure,  \* Config.DropOnBackpressure
    FilterActive,        \* Config.Filter # nil and not IsEmpty()
    NetworkEvents,       \* events of type EventNetwork
    Malformed,           \* network events the dissector rejects
    Matching             \* events the filter matches

Events == 1 .. NumEvents
Sinks  == 1 .. MaxSinks

ASSUME SizesAssumption ==
    /\ NumEvents \in Nat
    /\ QueueSize \in Nat \ {0}
    /\ SrcCap \in Nat \ {0}

ASSUME SinksAssumption ==
    /\ InitSinks \in Nat
    /\ MaxSinks \in Nat
    /\ 2 <= InitSinks
    /\ InitSinks <= MaxSinks

ASSUME ConfigAssumption ==
    /\ DropOnBackpressure \in BOOLEAN
    /\ FilterActive \in BOOLEAN
    /\ NetworkEvents \subseteq Events
    /\ Malformed \subseteq NetworkEvents
    /\ Matching \subseteq Events

ASSUME WorkersAssumption == IsFiniteSet(Workers) /\ Workers # {}

VARIABLES
    ctxDone,     \* the engine's context is cancelled
    ctl,         \* where the control thread is, in Start or Stop
    srcPc,       \* the source goroutine
    produced,    \* the source's counter: the last ID it emitted
    srcChan,     \* the source's channel, and whether it is closed
    srcClosed,
    dispPc,      \* the dispatcher, and the event in its hand
    dispEvent,
    inChan,      \* the workers' queue, and whether it is closed
    inClosed,
    wPc,         \* per worker: where it is, its event, the length of the
    wEvent,      \*   sink list it took under mu and the sink it calls next
    wLimit,
    wNext,
    nSinks,      \* Len(pe.Sinks)
    nClosed,     \* sinks 1..nClosed have been closed
    delivered,   \* per sink and event: number of OnEvent calls
    filtered,    \* events a worker discarded
    dropped,     \* events counted by Stats.RecordDrop
    lost         \* events the dispatcher was holding when it was cancelled

ctlVars  == <<ctxDone, ctl>>
srcVars  == <<srcPc, produced, srcClosed>>
dispVars == <<dispPc, dispEvent, dropped, lost, inClosed>>
wVars    == <<wPc, wEvent, wLimit, wNext, delivered, filtered>>
sinkVars == <<nSinks, nClosed>>
vars == <<ctlVars, srcVars, srcChan, dispVars, inChan, wVars, sinkVars>>

\* The workers holding an event, and the events in a channel.
Holding == {w \in Workers : wPc[w] \in {"busy", "deliver"}}
InChannel(c) == {c[i] : i \in 1 .. Len(c)}

\* Mutant: a wait group nobody adds to is zero at once.
WgNotAdded == TRUE

\* sync.WaitGroup: Stop waits until every worker launched has returned.
WgIsZero == \A w \in Workers : wPc[w] \in {"off", "exited"}

\* mu is held across steps only while Stop closes the sinks.
MuFree == ctl # "closing"

\* workerLoop's filter: applied to network events that dissect cleanly.
Discards(e) ==
    /\ e \in NetworkEvents
    /\ e \notin Malformed
    /\ FilterActive
    /\ e \notin Matching

Init ==
    /\ ctxDone = FALSE
    /\ ctl = "new"
    /\ srcPc = "off"
    /\ produced = 0
    /\ srcChan = <<>>
    /\ srcClosed = FALSE
    /\ dispPc = "off"
    /\ dispEvent = 0
    /\ inChan = <<>>
    /\ inClosed = FALSE
    /\ wPc = [w \in Workers |-> "off"]
    /\ wEvent = [w \in Workers |-> 0]
    /\ wLimit = [w \in Workers |-> 0]
    /\ wNext = [w \in Workers |-> 0]
    /\ nSinks = InitSinks
    /\ nClosed = 0
    /\ delivered = [s \in Sinks |-> [e \in Events |-> 0]]
    /\ filtered = {}
    /\ dropped = {}
    /\ lost = {}

-----------------------------------------------------------------------------
(* Control: Start, Stop, AddSink and the parent context.                   *)

\* Start: derive the context from the parent, then Source.Start.  When the
\* source fails Start returns its error and launches nothing.
StartSource ==
    /\ ctl = "new"
    /\ ctl' = "launching"
    /\ srcPc' = "running"
    /\ UNCHANGED <<ctxDone, produced, srcClosed, srcChan, dispVars, inChan,
                   wVars, sinkVars>>

StartFails ==
    /\ ctl = "new"
    /\ ctl' = "failed"
    /\ UNCHANGED <<ctxDone, srcVars, srcChan, dispVars, inChan, wVars, sinkVars>>

\* Start: wg.Add(1) and go workerLoop(i).
LaunchWorker(w) ==
    /\ ctl = "launching"
    /\ wPc[w] = "off"
    /\ wPc' = [wPc EXCEPT ![w] = "recv"]
    /\ UNCHANGED <<ctlVars, srcVars, srcChan, dispVars, inChan, wEvent, wLimit,
                   wNext, delivered, filtered, sinkVars>>

\* Start: go ingestionLoop(srcChan), once every worker has been launched.
LaunchDispatcher ==
    /\ ctl = "launching"
    /\ \A w \in Workers : wPc[w] # "off"
    /\ ctl' = "running"
    /\ dispPc' = "recv"
    /\ UNCHANGED <<ctxDone, srcVars, srcChan, dispEvent, dropped, lost, inClosed,
                   inChan, wVars, sinkVars>>

\* Stop: cancel the context (there is none before Start) and close the source,
\* whose reads end with the context anyway.
StopCancel ==
    /\ ctl \in {"new", "failed", "running"}
    /\ ctl' = "waiting"
    /\ ctxDone' = (ctxDone \/ ctl # "new")
    /\ UNCHANGED <<srcVars, srcChan, dispVars, inChan, wVars, sinkVars>>

\* Stop: wg.Wait returns, and mu is taken for the rest of the call.
StopWait ==
    /\ ctl = "waiting"
    /\ WgIsZero
    /\ ctl' = "closing"
    /\ UNCHANGED <<ctxDone, srcVars, srcChan, dispVars, inChan, wVars, sinkVars>>

\* Stop: close the registered sinks one after another, then release mu.
StopCloseSink ==
    /\ ctl = "closing"
    /\ nClosed < nSinks
    /\ nClosed' = nClosed + 1
    /\ UNCHANGED <<ctlVars, srcVars, srcChan, dispVars, inChan, wVars, nSinks>>

\* Mutant: only the sinks registered at the start are closed.
StopReturnEarly ==
    /\ ctl = "closing"
    /\ nClosed >= InitSinks
    /\ ctl' = "stopped"
    /\ UNCHANGED <<ctxDone, srcVars, srcChan, dispVars, inChan, wVars, sinkVars>>

StopReturn ==
    /\ ctl = "closing"
    /\ nClosed = nSinks
    /\ ctl' = "stopped"
    /\ UNCHANGED <<ctxDone, srcVars, srcChan, dispVars, inChan, wVars, sinkVars>>

\* AddSink appends under mu, from any goroutine at any time.
AddSink ==
    /\ MuFree
    /\ nSinks < MaxSinks
    /\ nSinks' = nSinks + 1
    /\ UNCHANGED <<ctlVars, srcVars, srcChan, dispVars, inChan, wVars, nClosed>>

\* The caller's context is cancelled (a signal, in the command-line tools).
ParentCancel ==
    /\ ~ctxDone
    /\ ctxDone' = TRUE
    /\ UNCHANGED <<ctl, srcVars, srcChan, dispVars, inChan, wVars, sinkVars>>

-----------------------------------------------------------------------------
(* The source goroutine (SliceSource, PcapReplaySource).                   *)

\* Number the next event and send it.
SourceEmit ==
    /\ srcPc = "running"
    /\ produced < NumEvents
    /\ Len(srcChan) < SrcCap
    /\ produced' = produced + 1
    /\ srcChan' = Append(srcChan, produced + 1)
    /\ UNCHANGED <<ctlVars, srcPc, srcClosed, dispVars, inChan, wVars, sinkVars>>

\* Mutant: the source's send does not select on ctx.Done().
SourceExitAtEnd ==
    /\ srcPc = "running"
    /\ produced = NumEvents
    /\ srcPc' = "exited"
    /\ srcClosed' = TRUE
    /\ UNCHANGED <<ctlVars, produced, srcChan, dispVars, inChan, wVars, sinkVars>>

\* End of the data, or the ctx.Done() branch of a select; the deferred close.
SourceExit ==
    /\ srcPc = "running"
    /\ produced = NumEvents \/ ctxDone
    /\ srcPc' = "exited"
    /\ srcClosed' = TRUE
    /\ UNCHANGED <<ctlVars, produced, srcChan, dispVars, inChan, wVars, sinkVars>>

-----------------------------------------------------------------------------
(* The dispatcher (ingestionLoop).                                         *)

DispatchReceive ==
    /\ dispPc = "recv"
    /\ srcChan # <<>>
    /\ dispPc' = "send"
    /\ dispEvent' = Head(srcChan)
    /\ srcChan' = Tail(srcChan)
    /\ UNCHANGED <<ctlVars, srcVars, dropped, lost, inClosed, inChan, wVars,
                   sinkVars>>

\* Mutant: the event is sent again.
DispatchSendAgain ==
    /\ dispPc = "send"
    /\ Len(inChan) < QueueSize
    /\ inChan' = Append(inChan, dispEvent)
    /\ UNCHANGED <<ctlVars, srcVars, srcChan, dispPc, dispEvent, dropped, lost,
                   inClosed, wVars, sinkVars>>

DispatchSend ==
    /\ dispPc = "send"
    /\ Len(inChan) < QueueSize
    /\ inChan' = Append(inChan, dispEvent)
    /\ dispPc' = "recv"
    /\ dispEvent' = 0
    /\ UNCHANGED <<ctlVars, srcVars, srcChan, dropped, lost, inClosed, wVars,
                   sinkVars>>

\* The default branch of the non-blocking send: Stats.RecordDrop().
DispatchDrop ==
    /\ dispPc = "send"
    /\ DropOnBackpressure
    /\ Len(inChan) >= QueueSize
    /\ dropped' = dropped \cup {dispEvent}
    /\ dispPc' = "recv"
    /\ dispEvent' = 0
    /\ UNCHANGED <<ctlVars, srcVars, srcChan, lost, inClosed, inChan, wVars,
                   sinkVars>>

\* The blocking send loses the select to ctx.Done(): the event in hand is
\* neither queued nor counted.
DispatchAbandon ==
    /\ dispPc = "send"
    /\ ~DropOnBackpressure
    /\ ctxDone
    /\ lost' = lost \cup {dispEvent}
    /\ dispPc' = "exited"
    /\ dispEvent' = 0
    /\ inClosed' = TRUE
    /\ UNCHANGED <<ctlVars, srcVars, srcChan, dropped, inChan, wVars, sinkVars>>

\* Mutants: what is left in the source's channel is not read, and the deferred
\* close of the queue is missing.
DispatchExitEarly ==
    /\ dispPc = "recv"
    /\ ctxDone \/ srcClosed
    /\ dispPc' = "exited"
    /\ inClosed' = TRUE
    /\ UNCHANGED <<ctlVars, srcVars, srcChan, dispEvent, dropped, lost, inChan,
                   wVars, sinkVars>>

DispatchExitLeavesQueueOpen ==
    /\ dispPc = "recv"
    /\ ctxDone \/ (srcClosed /\ srcChan = <<>>)
    /\ dispPc' = "exited"
    /\ UNCHANGED <<ctlVars, srcVars, srcChan, dispEvent, dropped, lost, inClosed,
                   inChan, wVars, sinkVars>>

\* The source's channel is closed and empty, or the context is done.
DispatchExit ==
    /\ dispPc = "recv"
    /\ ctxDone \/ (srcClosed /\ srcChan = <<>>)
    /\ dispPc' = "exited"
    /\ inClosed' = TRUE
    /\ UNCHANGED <<ctlVars, srcVars, srcChan, dispEvent, dropped, lost, inChan,
                   wVars, sinkVars>>

-----------------------------------------------------------------------------
(* The workers (workerLoop, broadcastToSinks).                             *)

\* Mutant: the event stays in the queue.
WorkerPeek(w) ==
    /\ wPc[w] = "recv"
    /\ inChan # <<>>
    /\ wPc' = [wPc EXCEPT ![w] = "busy"]
    /\ wEvent' = [wEvent EXCEPT ![w] = Head(inChan)]
    /\ UNCHANGED <<ctlVars, srcVars, srcChan, dispVars, inChan, wLimit, wNext,
                   delivered, filtered, sinkVars>>

WorkerReceive(w) ==
    /\ wPc[w] = "recv"
    /\ inChan # <<>>
    /\ wPc' = [wPc EXCEPT ![w] = "busy"]
    /\ wEvent' = [wEvent EXCEPT ![w] = Head(inChan)]
    /\ inChan' = Tail(inChan)
    /\ UNCHANGED <<ctlVars, srcVars, srcChan, dispVars, wLimit, wNext, delivered,
                   filtered, sinkVars>>

\* Dissect, and leave the event to the next iteration when the filter says so.
WorkerDiscard(w) ==
    /\ wPc[w] = "busy"
    /\ Discards(wEvent[w])
    /\ wPc' = [wPc EXCEPT ![w] = "recv"]
    /\ filtered' = filtered \cup {wEvent[w]}
    /\ UNCHANGED <<ctlVars, srcVars, srcChan, dispVars, inChan, wEvent, wLimit,
                   wNext, delivered, sinkVars>>

\* Mutant: the broadcast skips the last sink.
WorkerSkipsLastSink(w) ==
    /\ wPc[w] = "busy"
    /\ ~Discards(wEvent[w])
    /\ MuFree
    /\ wPc' = [wPc EXCEPT ![w] = "deliver"]
    /\ wLimit' = [wLimit EXCEPT ![w] = nSinks - 1]
    /\ wNext' = [wNext EXCEPT ![w] = 1]
    /\ UNCHANGED <<ctlVars, srcVars, srcChan, dispVars, inChan, wEvent, delivered,
                   filtered, sinkVars>>

\* Dissect, then broadcastToSinks copies the slice header under mu.
WorkerSnapshotSinks(w) ==
    /\ wPc[w] = "busy"
    /\ ~Discards(wEvent[w])
    /\ MuFree
    /\ wPc' = [wPc EXCEPT ![w] = "deliver"]
    /\ wLimit' = [wLimit EXCEPT ![w] = nSinks]
    /\ wNext' = [wNext EXCEPT ![w] = 1]
    /\ UNCHANGED <<ctlVars, srcVars, srcChan, dispVars, inChan, wEvent, delivered,
                   filtered, sinkVars>>

\* One sink.OnEvent, outside mu; the last one ends the iteration.
WorkerDeliver(w) ==
    /\ wPc[w] = "deliver"
    /\ delivered' = [delivered EXCEPT ![wNext[w]][wEvent[w]] = @ + 1]
    /\ wNext' = [wNext EXCEPT ![w] = @ + 1]
    /\ wPc' = [wPc EXCEPT ![w] = IF wNext[w] = wLimit[w] THEN "recv" ELSE @]
    /\ UNCHANGED <<ctlVars, srcVars, srcChan, dispVars, inChan, wEvent, wLimit,
                   filtered, sinkVars>>

\* Mutant: the worker leaves without draining the queue.
WorkerExitEarly(w) ==
    /\ wPc[w] = "recv"
    /\ inClosed
    /\ wPc' = [wPc EXCEPT ![w] = "exited"]
    /\ UNCHANGED <<ctlVars, srcVars, srcChan, dispVars, inChan, wEvent, wLimit,
                   wNext, delivered, filtered, sinkVars>>

\* range pe.inChan ends when the channel is closed and empty; wg.Done().
WorkerExit(w) ==
    /\ wPc[w] = "recv"
    /\ inClosed
    /\ inChan = <<>>
    /\ wPc' = [wPc EXCEPT ![w] = "exited"]
    /\ UNCHANGED <<ctlVars, srcVars, srcChan, dispVars, inChan, wEvent, wLimit,
                   wNext, delivered, filtered, sinkVars>>

-----------------------------------------------------------------------------
\* Everything has returned: the only state in which the program may rest.
Quiet ==
    /\ ctl = "stopped"
    /\ srcPc \in {"off", "exited"}
    /\ UNCHANGED vars

Source == SourceEmit \/ SourceExit
Dispatcher ==
    \/ DispatchReceive \/ DispatchSend \/ DispatchDrop \/ DispatchAbandon
    \/ DispatchExit
Worker(w) ==
    \/ WorkerReceive(w) \/ WorkerDiscard(w) \/ WorkerSnapshotSinks(w)
    \/ WorkerDeliver(w) \/ WorkerExit(w)
Start == StartSource \/ StartFails \/ LaunchDispatcher \/ \E w \in Workers : LaunchWorker(w)
Stop == StopCancel \/ StopWait \/ StopCloseSink \/ StopReturn

Next ==
    \/ Start \/ Stop \/ AddSink \/ ParentCancel
    \/ Source
    \/ Dispatcher
    \/ \E w \in Workers : Worker(w)
    \/ Quiet

Spec == Init /\ [][Next]_vars

(***************************************************************************)
(* Goroutines that can run do run.  Nobody is obliged to call Start, Stop  *)
(* or AddSink, nor to cancel; once Start or Stop is called it goes on.     *)
(* A Go select picks among its ready cases at random, so no case is        *)
(* favoured: fairness is per goroutine, never per case.                    *)
(***************************************************************************)
Fairness ==
    /\ WF_vars(Source)
    /\ WF_vars(Dispatcher)
    /\ \A w \in Workers : WF_vars(Worker(w))
    /\ WF_vars(LaunchDispatcher \/ \E w \in Workers : LaunchWorker(w))
    /\ WF_vars(StopWait \/ StopCloseSink \/ StopReturn)

FairSpec == Spec /\ Fairness
-----------------------------------------------------------------------------
(* Safety.                                                                 *)

FlagsTypeOK ==
    /\ ctxDone \in BOOLEAN
    /\ srcClosed \in BOOLEAN
    /\ inClosed \in BOOLEAN

ControlTypeOK ==
    /\ ctl \in {"new", "failed", "launching", "running", "waiting", "closing", "stopped"}
    /\ srcPc \in {"off", "running", "exited"}
    /\ produced \in 0 .. NumEvents
    /\ nSinks \in InitSinks .. MaxSinks
    /\ nClosed \in 0 .. nSinks

ChannelsTypeOK ==
    /\ srcChan \in Seq(Events) /\ Len(srcChan) <= SrcCap
    /\ inChan \in Seq(Events) /\ Len(inChan) <= QueueSize

DispatcherTypeOK ==
    /\ dispPc \in {"off", "recv", "send", "exited"}
    /\ dispEvent \in 0 .. NumEvents
    /\ dispPc = "send" => dispEvent \in Events
    /\ dropped \subseteq Events
    /\ lost \subseteq Events

WorkersTypeOK ==
    /\ wPc \in [Workers -> {"off", "recv", "busy", "deliver", "exited"}]
    /\ wEvent \in [Workers -> 0 .. NumEvents]
    /\ wLimit \in [Workers -> 0 .. MaxSinks]
    /\ wNext \in [Workers -> 0 .. MaxSinks + 1]
    /\ \A w \in Holding : wEvent[w] \in Events
    /\ \A w \in Workers : wPc[w] = "deliver" => wNext[w] \in 1 .. wLimit[w]
    /\ delivered \in [Sinks -> [Events -> Nat]]
    /\ filtered \subseteq Events

TypeOK ==
    /\ FlagsTypeOK
    /\ ControlTypeOK
    /\ ChannelsTypeOK
    /\ DispatcherTypeOK
    /\ WorkersTypeOK

\* However many workers race on the queue and however the sink list grows
\* meanwhile, no sink is called twice for one event.
AtMostOnce == \A s \in Sinks, e \in Events : delivered[s][e] <= 1

\* Each event is in exactly one place at a time, and the three ways of not
\* reaching the sinks (filtered, dropped, lost) exclude each other and
\* delivery: no channel operation, cancellation or exit duplicates an event or
\* makes it vanish without trace.
Whereabouts(e) ==
    [unread     |-> e > produced,
     srcChan    |-> e \in InChannel(srcChan),
     dispatcher |-> dispPc = "send" /\ dispEvent = e,
     queue      |-> e \in InChannel(inChan),
     worker     |-> \E w \in Holding : wEvent[w] = e,
     filtered   |-> e \in filtered,
     dropped    |-> e \in dropped,
     lost       |-> e \in lost,
     done       |-> delivered[1][e] > 0 /\ \A w \in Holding : wEvent[w] # e]

Conservation ==
    \A e \in Events :
        LET at == Whereabouts(e)
        IN  \E p \in DOMAIN at : \A q \in DOMAIN at : at[q] <=> q = p

\* broadcastToSinks goes through the list in order, so the StatsSink leads: a
\* count read from it (the tests poll TotalProcessed) never trails another sink.
StatsLeads ==
    \A s \in Sinks, e \in Events : delivered[s][e] > 0 => delivered[1][e] > 0

\* Once Stop is past wg.Wait the queue is empty, nobody holds an event, and each
\* event that was processed has reached every sink registered before Start:
\* a sink closed by Stop is complete, not cut in the middle of a broadcast.
StopDrainsQueue ==
    ctl \in {"closing", "stopped"} =>
        /\ inChan = <<>>
        /\ dispPc \in {"off", "exited"}
        /\ \A e \in Events, s \in 1 .. InitSinks : delivered[s][e] = delivered[1][e]

\* A sink that was given an event is closed, hence flushed, when Stop returns,
\* also when it was added in the middle of the run.
UsedSinksAreClosed ==
    ctl = "stopped" =>
        \A s \in Sinks : (\E e \in Events : delivered[s][e] > 0) => s <= nClosed

\* Only cancellation loses events: while the context is alive the dispatcher
\* ends only after it has passed on all the source had to offer, and without
\* DropOnBackpressure nothing is dropped.
LossOnlyByCancel ==
    /\ ~DropOnBackpressure => dropped = {}
    /\ dispPc = "exited" /\ ~ctxDone =>
           /\ produced = NumEvents
           /\ srcChan = <<>>
           /\ lost = {}

\* A late worker never calls OnEvent on a sink Stop has closed.
NoDeliveryAfterClose ==
    [][\A s \in Sinks : s <= nClosed => delivered'[s] = delivered[s]]_vars

-----------------------------------------------------------------------------
(* Liveness, under Fairness.                                               *)

Settled(e) ==
    \/ e \in filtered \cup dropped
    \/ \A s \in 1 .. InitSinks : delivered[s][e] > 0

\* Without a cancellation every event of the source reaches the sinks, is
\* filtered or, in drop mode, counted as dropped, whatever the queue sizes.
EveryEventSettles ==
    (<>(ctl = "running") /\ []~ctxDone) => <>(\A e \in Events : Settled(e))

\* Stop returns: wg.Wait is never left waiting for a worker.
StopTerminates == ctl = "waiting" ~> ctl = "stopped"

\* Cancelling the caller's context alone ends every goroutine Start launched,
\* with channels full or empty, before Stop is called or without it.
CancelEndsGoroutines ==
    (ctxDone /\ srcPc # "off") ~>
        (srcPc = "exited" /\ dispPc = "exited" /\ \A w \in Workers : wPc[w] = "exited")
-----------------------------------------------------------------------------
(* The inductive invariant behind the safety properties.                   *)

\* Who may still run, as a function of how far Start and Stop have come.
LifecycleInv ==
    /\ inClosed <=> dispPc = "exited"
    /\ dispPc = "off" => inChan = <<>> /\ Holding = {}
    /\ dispPc # "off" => \A w \in Workers : wPc[w] # "off"
    /\ ctl \in {"new", "failed"} => WgIsZero
    /\ ctl \in {"new", "failed", "launching"} => dispPc = "off"
    /\ ctl = "running" => dispPc # "off"
    /\ ctl \in {"waiting", "closing", "stopped"} /\ dispPc = "off" => WgIsZero
    /\ \A w \in Workers : wPc[w] = "exited" => inClosed /\ inChan = <<>>
    /\ ctl \in {"closing", "stopped"} => WgIsZero
    /\ nClosed > 0 => ctl \in {"closing", "stopped"}

\* Why the source or the dispatcher has ended.
LossInv ==
    /\ ctl = "new" => srcPc = "off"
    /\ srcClosed => srcPc = "exited"
    /\ srcPc = "exited" => produced = NumEvents \/ ctxDone
    /\ dispPc = "exited" => ctxDone \/ (srcClosed /\ srcChan = <<>>)
    /\ lost # {} => ctxDone
    /\ ~DropOnBackpressure => dropped = {}

\* The dispatcher has received the events 1..Taken, in this order; those it is
\* not holding have been passed on.
Taken == produced - Len(srcChan)
PassedOn(e) == e <= Taken /\ ~(dispPc = "send" /\ dispEvent = e)

OrderInv ==
    /\ Taken >= 0
    /\ \A i \in 1 .. Len(srcChan) : srcChan[i] = Taken + i
    /\ dispPc = "send" => dispEvent = Taken
    /\ \A i \in 1 .. Len(inChan) : PassedOn(inChan[i])
    /\ \A i, j \in 1 .. Len(inChan) : i < j => inChan[i] < inChan[j]

\* Events queued, held by different workers, filtered, dropped and lost are
\* different events, and all have been passed on.
ApartInv ==
    /\ \A w \in Holding : PassedOn(wEvent[w]) /\ wEvent[w] \notin InChannel(inChan)
    /\ \A v, w \in Holding : wEvent[v] = wEvent[w] => v = w
    /\ \A e \in filtered \cup dropped \cup lost :
          PassedOn(e) /\ e \notin InChannel(inChan) /\ \A w \in Holding : wEvent[w] # e
    /\ filtered \cap dropped = {}
    /\ filtered \cap lost = {}
    /\ dropped \cap lost = {}

\* Which sinks an event has reached, from where it is.
Untouched(e) == \A s \in Sinks : delivered[s][e] = 0
Complete(e) ==
    /\ \A s \in Sinks : delivered[s][e] <= 1
    /\ \A s \in 1 .. InitSinks : delivered[s][e] = 1
    /\ \A s \in Sinks : delivered[s][e] > 0 => s <= nSinks

ReachInv ==
    /\ \A w \in Workers : wPc[w] = "deliver" =>
          /\ ~Discards(wEvent[w])
          /\ wLimit[w] \in InitSinks .. nSinks
          /\ \A s \in Sinks :
                delivered[s][wEvent[w]] = IF s < wNext[w] THEN 1 ELSE 0
    /\ \A w \in Workers : wPc[w] = "busy" => Untouched(wEvent[w])
    /\ \A e \in Events :
          ~PassedOn(e) \/ e \in InChannel(inChan) \/ e \in filtered \cup dropped \cup lost
             => Untouched(e)
    /\ \A e \in Events :
          PassedOn(e) /\ e \notin InChannel(inChan) /\ e \notin filtered \cup dropped \cup lost
             => Complete(e) \/ \E w \in Holding : wEvent[w] = e

\* Sinks that Stop has not closed when it returns were added later.
ClosedInv ==
    ctl = "stopped" =>
        \A e \in Events, s \in Sinks : delivered[s][e] > 0 => s <= nClosed

IInv ==
    /\ TypeOK
    /\ LifecycleInv
    /\ LossInv
    /\ OrderInv
    /\ ApartInv
    /\ ReachInv
    /\ ClosedInv

-----------------------------------------------------------------------------
(* The engine implements EventDelivery.                                    *)

Status(e) ==
    CASE e \in filtered -> "filtered"
      [] e \in dropped -> "dropped"
      [] e \in lost -> "lost"
      [] e > produced \/ e \in InChannel(srcChan) -> "source"
      [] Whereabouts(e).done -> "delivered"
      [] OTHER -> "underway"

SeenBy(e) == {s \in Sinks : delivered[s][e] > 0}

Delivery == INSTANCE EventDelivery WITH
    MayDrop   <- DropOnBackpressure,
    Unwanted  <- {e \in Events : Discards(e)},
    status    <- [e \in Events |-> Status(e)],
    seen      <- [e \in Events |-> SeenBy(e)],
    closed    <- nClosed,
    cancelled <- ctxDone

\* Every step of the goroutines is a step of the abstract pipeline or leaves
\* it unchanged.
ImplementsDelivery == Delivery!Spec

\* And nothing the pipeline has taken from the source stays in it for ever.
ImplementsFairDelivery == Delivery!FairSpec
=============================================================================
