----------------------- MODULE PipelineEngine_proofs -----------------------
(***************************************************************************)
(* Proofs about PipelineEngine, for every number of events, workers and    *)
(* sinks and every queue size: the inductive invariant, the safety         *)
(* properties, and that the engine implements EventDelivery.               *)
(***************************************************************************)
EXTENDS PipelineEngine, SequenceTheorems, TLAPS

-----------------------------------------------------------------------------
(* Channels.                                                               *)

\* A receive: what remains of a channel, and its content by position.
LEMMA Receive ==
    ASSUME NEW S, NEW c \in Seq(S), c # <<>>
    PROVE  /\ Head(c) \in S
           /\ Head(c) = c[1]
           /\ Tail(c) \in Seq(S)
           /\ Len(c) \in Nat /\ Len(c) > 0
           /\ Len(Tail(c)) = Len(c) - 1
           /\ \A i \in 1 .. Len(Tail(c)) : Tail(c)[i] = c[i + 1]
BY EmptySeq, LenProperties, HeadTailProperties

\* A send: the event goes behind those already there.
LEMMA Send ==
    ASSUME NEW S, NEW c \in Seq(S), NEW e \in S
    PROVE  /\ Append(c, e) \in Seq(S)
           /\ Len(c) \in Nat
           /\ Len(Append(c, e)) = Len(c) + 1
           /\ \A i \in 1 .. Len(c) : Append(c, e)[i] = c[i]
           /\ Append(c, e)[Len(c) + 1] = e
BY AppendProperties, LenProperties

\* What is in a channel is a number.
LEMMA Content ==
    ASSUME NEW c \in Seq(Events)
    PROVE  /\ Len(c) \in Nat
           /\ \A i \in 1 .. Len(c) : c[i] \in Events /\ c[i] \in Nat
<1>1. Len(c) \in Nat
  BY LenProperties
<1>2. \A i \in 1 .. Len(c) : c[i] \in Events
  BY ElementOfSeq
<1> QED
  BY <1>1, <1>2, SizesAssumption DEF Events

\* A send adds the event to the content of a channel; a receive takes the first
\* one out, when no event is in the channel twice.
LEMMA SendContent ==
    ASSUME NEW S, NEW c \in Seq(S), NEW e \in S
    PROVE  InChannel(Append(c, e)) = InChannel(c) \cup {e}
<1>1. /\ Len(c) \in Nat
      /\ Len(Append(c, e)) = Len(c) + 1
      /\ \A i \in 1 .. Len(c) : Append(c, e)[i] = c[i]
      /\ Append(c, e)[Len(c) + 1] = e
  BY Send
<1>2. 1 .. Len(Append(c, e)) = (1 .. Len(c)) \cup {Len(c) + 1}
  BY <1>1
<1> QED
  BY <1>1, <1>2 DEF InChannel

LEMMA ReceiveContent ==
    ASSUME NEW S, NEW c \in Seq(S), c # <<>>,
           \A i, j \in 1 .. Len(c) : c[i] = c[j] => i = j
    PROVE  /\ Head(c) \in InChannel(c)
           /\ InChannel(Tail(c)) = InChannel(c) \ {Head(c)}
<1>1. /\ Len(c) \in Nat /\ Len(c) > 0
      /\ Head(c) = c[1]
      /\ Len(Tail(c)) = Len(c) - 1
      /\ \A i \in 1 .. Len(Tail(c)) : Tail(c)[i] = c[i + 1]
  BY Receive
<1>2. Head(c) \in InChannel(c)
  BY <1>1 DEF InChannel
<1>3. ASSUME NEW i \in 1 .. Len(Tail(c))
      PROVE  Tail(c)[i] \in InChannel(c) /\ Tail(c)[i] # Head(c)
  <2>1. i + 1 \in 1 .. Len(c) /\ 1 \in 1 .. Len(c) /\ i + 1 # 1
    BY <1>1
  <2>2. c[i + 1] # c[1]
    BY <2>1
  <2> QED
    BY <1>1, <2>1, <2>2 DEF InChannel
<1>4. ASSUME NEW i \in 1 .. Len(c), c[i] # Head(c)
      PROVE  c[i] \in InChannel(Tail(c))
  <2>1. i - 1 \in 1 .. Len(Tail(c)) /\ Tail(c)[i - 1] = c[i]
    BY <1>1, <1>4
  <2> QED
    BY <2>1 DEF InChannel
<1> QED
  BY <1>2, <1>3, <1>4 DEF InChannel

-----------------------------------------------------------------------------
(* Type correctness.                                                       *)

LEMMA TypeInit == Init => TypeOK
<1> SUFFICES ASSUME Init PROVE TypeOK
  OBVIOUS
<1> USE SizesAssumption, SinksAssumption
<1>5. FlagsTypeOK
  BY DEF Init, FlagsTypeOK
<1>1. ControlTypeOK
  BY DEF Init, ControlTypeOK
<1>2. ChannelsTypeOK
  BY EmptySeq DEF Init, ChannelsTypeOK
<1>3. DispatcherTypeOK
  BY DEF Init, DispatcherTypeOK
<1>4. WorkersTypeOK
  BY DEF Init, WorkersTypeOK, Holding
<1> QED
  BY <1>1, <1>2, <1>3, <1>4, <1>5 DEF TypeOK

\* Which steps touch the channels, the dispatcher and the workers.
LEMMA ChannelsFrame ==
    ASSUME [Next]_vars
    PROVE  \/ UNCHANGED <<srcChan, inChan>>
           \/ SourceEmit \/ DispatchReceive \/ DispatchSend
           \/ \E w \in Workers : WorkerReceive(w)
BY DEF Next, Start, StartSource, StartFails, LaunchDispatcher, LaunchWorker, Stop,
       StopCancel, StopWait, StopCloseSink, StopReturn, AddSink, ParentCancel, Source,
       SourceExit, Dispatcher, DispatchDrop, DispatchAbandon, DispatchExit, Worker,
       WorkerDiscard, WorkerSnapshotSinks, WorkerDeliver, WorkerExit, Quiet, vars

LEMMA DispatcherFrame ==
    ASSUME [Next]_vars
    PROVE  \/ UNCHANGED <<dispPc, dispEvent, dropped, lost, inClosed>>
           \/ LaunchDispatcher
           \/ Dispatcher
BY DEF Next, Start, StartSource, StartFails, LaunchWorker, Stop, StopCancel, StopWait,
       StopCloseSink, StopReturn, AddSink, ParentCancel, Source, SourceEmit, SourceExit,
       Worker, WorkerReceive, WorkerDiscard, WorkerSnapshotSinks, WorkerDeliver,
       WorkerExit, Quiet, vars, dispVars

LEMMA WorkersFrame ==
    ASSUME [Next]_vars
    PROVE  \/ UNCHANGED wVars
           \/ \E w \in Workers : LaunchWorker(w) \/ Worker(w)
BY DEF Next, Start, StartSource, StartFails, LaunchDispatcher, Stop, StopCancel, StopWait,
       StopCloseSink, StopReturn, AddSink, ParentCancel, Source, SourceEmit, SourceExit,
       Dispatcher, DispatchReceive, DispatchSend, DispatchDrop, DispatchAbandon,
       DispatchExit, Quiet, vars

\* Only a worker in the middle of a broadcast calls a sink.
LEMMA DeliveredFrame ==
    ASSUME [Next]_vars
    PROVE  \/ delivered' = delivered
           \/ \E w \in Workers : wPc[w] = "deliver"
BY DEF Next, Start, StartSource, StartFails, LaunchDispatcher, LaunchWorker, Stop,
       StopCancel, StopWait, StopCloseSink, StopReturn, AddSink, ParentCancel, Source,
       SourceEmit, SourceExit, Dispatcher, DispatchReceive, DispatchSend, DispatchDrop,
       DispatchAbandon, DispatchExit, Worker, WorkerReceive, WorkerDiscard,
       WorkerSnapshotSinks, WorkerDeliver, WorkerExit, Quiet, vars, wVars

LEMMA FlagsTypeStep ==
    ASSUME TypeOK, [Next]_vars
    PROVE  FlagsTypeOK'
BY ZenonT(60)
   DEF TypeOK, FlagsTypeOK, Next, Start, StartSource, StartFails, LaunchDispatcher,
       LaunchWorker, Stop, StopCancel, StopWait, StopCloseSink, StopReturn, AddSink,
       ParentCancel, Source, SourceEmit, SourceExit, Dispatcher, DispatchReceive,
       DispatchSend, DispatchDrop, DispatchAbandon, DispatchExit, Worker, WorkerReceive,
       WorkerDiscard, WorkerSnapshotSinks, WorkerDeliver, WorkerExit, Quiet,
       vars, ctlVars, srcVars, dispVars, wVars, sinkVars

LEMMA ControlTypeStep ==
    ASSUME TypeOK, [Next]_vars
    PROVE  ControlTypeOK'
<1> USE SizesAssumption, SinksAssumption DEF TypeOK, ControlTypeOK
<1> USE DEF ctlVars, srcVars, sinkVars
<1>1. CASE Start
  BY <1>1 DEF Start, StartSource, StartFails, LaunchDispatcher, LaunchWorker
<1>2. CASE StopCancel \/ StopWait \/ StopCloseSink \/ StopReturn
  BY <1>2 DEF StopCancel, StopWait, StopCloseSink, StopReturn
<1>3. CASE AddSink \/ ParentCancel
  BY <1>3 DEF AddSink, ParentCancel
<1>4. CASE Source
  BY <1>4 DEF Source, SourceEmit, SourceExit
<1>5. CASE Dispatcher
  BY <1>5 DEF Dispatcher, DispatchReceive, DispatchSend, DispatchDrop, DispatchAbandon,
     DispatchExit
<1>6. CASE \E w \in Workers : Worker(w)
  BY <1>6 DEF Worker, WorkerReceive, WorkerDiscard, WorkerSnapshotSinks, WorkerDeliver,
     WorkerExit
<1>7. CASE UNCHANGED vars
  BY <1>7 DEF vars
<1> QED
  BY <1>1, <1>2, <1>3, <1>4, <1>5, <1>6, <1>7 DEF Next, Stop, Quiet

LEMMA ChannelsTypeStep ==
    ASSUME TypeOK, [Next]_vars
    PROVE  ChannelsTypeOK'
<1> USE DEF ChannelsTypeOK
<1>1. CASE UNCHANGED <<srcChan, inChan>>
  BY <1>1 DEF TypeOK
<1>2. CASE SourceEmit
  <2>1. produced + 1 \in Events
    BY <1>2, SizesAssumption DEF SourceEmit, TypeOK, ControlTypeOK, Events
  <2> QED
    BY <1>2, <2>1, Send, SizesAssumption DEF SourceEmit, TypeOK
<1>3. CASE DispatchReceive
  BY <1>3, Receive, SizesAssumption DEF DispatchReceive, TypeOK
<1>4. CASE DispatchSend
  BY <1>4, Send, SizesAssumption DEF DispatchSend, TypeOK, DispatcherTypeOK
<1>5. CASE \E w \in Workers : WorkerReceive(w)
  BY <1>5, Receive, SizesAssumption DEF WorkerReceive, TypeOK
<1> QED
  BY <1>1, <1>2, <1>3, <1>4, <1>5, ChannelsFrame

LEMMA DispatcherTypeStep ==
    ASSUME TypeOK, [Next]_vars
    PROVE  DispatcherTypeOK'
<1> USE SizesAssumption DEF TypeOK, DispatcherTypeOK
<1>1. CASE UNCHANGED <<dispPc, dispEvent, dropped, lost>>
  BY <1>1
<1>2. CASE LaunchDispatcher
  BY <1>2 DEF LaunchDispatcher
<1>3. CASE DispatchReceive
  <2>1. Head(srcChan) \in Events
    BY <1>3, Receive DEF DispatchReceive, ChannelsTypeOK
  <2> QED
    BY <1>3, <2>1 DEF DispatchReceive, Events
<1>4. CASE DispatchSend \/ DispatchDrop \/ DispatchAbandon \/ DispatchExit
  BY <1>4 DEF DispatchSend, DispatchDrop, DispatchAbandon, DispatchExit
<1> QED
  BY <1>1, <1>2, <1>3, <1>4, DispatcherFrame DEF Dispatcher

LEMMA WorkersTypeStep ==
    ASSUME TypeOK, [Next]_vars
    PROVE  WorkersTypeOK'
<1> USE SinksAssumption DEF TypeOK, WorkersTypeOK, Holding
<1>1. CASE UNCHANGED wVars
  BY <1>1 DEF wVars
<1>2. ASSUME NEW w \in Workers, LaunchWorker(w)
      PROVE  WorkersTypeOK'
  BY <1>2 DEF LaunchWorker
<1>3. ASSUME NEW w \in Workers, WorkerReceive(w)
      PROVE  WorkersTypeOK'
  <2>1. Head(inChan) \in Events
    BY <1>3, Receive DEF WorkerReceive, ChannelsTypeOK
  <2> QED
    BY <1>3, <2>1 DEF WorkerReceive, Events
<1>4. ASSUME NEW w \in Workers, WorkerDiscard(w)
      PROVE  WorkersTypeOK'
  BY <1>4 DEF WorkerDiscard
<1>5. ASSUME NEW w \in Workers, WorkerSnapshotSinks(w)
      PROVE  WorkersTypeOK'
  BY <1>5 DEF WorkerSnapshotSinks, ControlTypeOK
<1>6. ASSUME NEW w \in Workers, WorkerDeliver(w)
      PROVE  WorkersTypeOK'
  <2>1. wNext[w] \in Sinks /\ wEvent[w] \in Events
    BY <1>6 DEF WorkerDeliver, Sinks
  <2>2. delivered' \in [Sinks -> [Events -> Nat]]
    BY <1>6, <2>1 DEF WorkerDeliver
  <2>3. /\ wNext' \in [Workers -> 0 .. MaxSinks + 1]
        /\ \A v \in Workers : wPc'[v] = "deliver" => wNext'[v] \in 1 .. wLimit'[v]
    BY <1>6 DEF WorkerDeliver
  <2> QED
    BY <1>6, <2>2, <2>3 DEF WorkerDeliver
<1>7. ASSUME NEW w \in Workers, WorkerExit(w)
      PROVE  WorkersTypeOK'
  BY <1>7 DEF WorkerExit
<1> QED
  BY <1>1, <1>2, <1>3, <1>4, <1>5, <1>6, <1>7, WorkersFrame DEF Worker

LEMMA TypeStep == TypeOK /\ [Next]_vars => TypeOK'
BY FlagsTypeStep, ControlTypeStep, ChannelsTypeStep, DispatcherTypeStep, WorkersTypeStep
   DEF TypeOK

\* Every reachable state is well typed: channels stay within their capacities
\* and a worker calls only sinks of the list it took.
THEOREM TypeCorrect == Spec => []TypeOK
BY TypeInit, TypeStep, PTL DEF Spec
-----------------------------------------------------------------------------
(* The inductive invariant: who may still run.                             *)

LEMMA LifecycleStep ==
    ASSUME TypeOK, LifecycleInv, [Next]_vars
    PROVE  LifecycleInv'
<1> USE DEF LifecycleInv, WgIsZero, Holding
<1> USE DEF ctlVars, dispVars, wVars, sinkVars
<1>t. /\ wPc \in [Workers -> {"off", "recv", "busy", "deliver", "exited"}]
      /\ nClosed \in Nat
      /\ inClosed \in BOOLEAN
  BY SinksAssumption DEF TypeOK, WorkersTypeOK, ControlTypeOK, FlagsTypeOK
<1>1. CASE StartSource \/ StartFails
  BY <1>t, <1>1 DEF StartSource, StartFails
<1>2. ASSUME NEW w \in Workers, LaunchWorker(w)
      PROVE  LifecycleInv'
  BY <1>t, <1>2 DEF LaunchWorker
<1>3. CASE LaunchDispatcher
  BY <1>t, <1>3 DEF LaunchDispatcher
<1>4. CASE Stop
  BY <1>t, <1>4 DEF Stop, StopCancel, StopWait, StopCloseSink, StopReturn
<1>5. CASE AddSink \/ ParentCancel
  BY <1>t, <1>5 DEF AddSink, ParentCancel
<1>6. CASE Source
  BY <1>t, <1>6 DEF Source, SourceEmit, SourceExit
<1>7. CASE DispatchReceive \/ DispatchDrop
  BY <1>t, <1>7 DEF DispatchReceive, DispatchDrop
<1>8. CASE DispatchSend
  BY <1>t, <1>8 DEF DispatchSend
<1>9. CASE DispatchAbandon \/ DispatchExit
  BY <1>t, <1>9 DEF DispatchAbandon, DispatchExit
<1>10. ASSUME NEW w \in Workers, WorkerReceive(w)
       PROVE  LifecycleInv'
  BY <1>t, <1>10 DEF WorkerReceive
<1>11. ASSUME NEW w \in Workers, WorkerDiscard(w) \/ WorkerSnapshotSinks(w) \/ WorkerDeliver(w)
       PROVE  LifecycleInv'
  BY <1>t, <1>11 DEF WorkerDiscard, WorkerSnapshotSinks, WorkerDeliver
<1>12. ASSUME NEW w \in Workers, WorkerExit(w)
       PROVE  LifecycleInv'
  BY <1>t, <1>12 DEF WorkerExit
<1>13. CASE UNCHANGED vars
  BY <1>13 DEF vars
<1> QED
  BY <1>1, <1>2, <1>3, <1>4, <1>5, <1>6, <1>7, <1>8, <1>9, <1>10, <1>11, <1>12, <1>13
     DEF Next, Start, Dispatcher, Worker, Quiet

LEMMA LossStep ==
    ASSUME TypeOK, LossInv, [Next]_vars
    PROVE  LossInv'
<1> USE DEF LossInv
<1>t. ctxDone \in BOOLEAN
  BY DEF TypeOK, FlagsTypeOK
<1>1. CASE /\ UNCHANGED <<srcPc, produced, srcClosed, srcChan, ctxDone, dispPc, lost, dropped>>
           /\ ctl' = ctl \/ ctl' # "new"
  BY <1>1
<1>2. CASE StartSource
  BY <1>2 DEF StartSource, srcVars, dispVars
<1>3. CASE LaunchDispatcher
  BY <1>3 DEF LaunchDispatcher, srcVars
<1>4. CASE StopCancel \/ ParentCancel
  BY <1>4, <1>t DEF StopCancel, ParentCancel, srcVars, dispVars
<1>5. CASE SourceEmit
  BY <1>5 DEF SourceEmit, ctlVars, dispVars
<1>6. CASE SourceExit
  BY <1>6 DEF SourceExit, ctlVars, dispVars
<1>7. CASE DispatchReceive
  BY <1>7 DEF DispatchReceive, ctlVars, srcVars
<1>8. CASE DispatchSend \/ DispatchDrop
  BY <1>8 DEF DispatchSend, DispatchDrop, ctlVars, srcVars
<1>9. CASE DispatchAbandon \/ DispatchExit
  BY <1>9 DEF DispatchAbandon, DispatchExit, ctlVars, srcVars
<1> QED
  BY <1>1, <1>2, <1>3, <1>4, <1>5, <1>6, <1>7, <1>8, <1>9
     DEF Next, Start, StartFails, LaunchWorker, Stop, StopWait, StopCloseSink, StopReturn,
         AddSink, Source, Dispatcher, Worker, WorkerReceive, WorkerDiscard,
         WorkerSnapshotSinks, WorkerDeliver, WorkerExit, Quiet, vars, ctlVars, srcVars,
         dispVars

-----------------------------------------------------------------------------
(* The inductive invariant: where the events are.                          *)

LEMMA OrderStep ==
    ASSUME TypeOK, TypeOK', OrderInv, [Next]_vars
    PROVE  OrderInv'
<1> USE DEF OrderInv, Taken, PassedOn
<1>t. /\ produced \in Nat
      /\ srcChan \in Seq(Events)
      /\ inChan \in Seq(Events)
      /\ Len(srcChan) \in Nat
      /\ Len(inChan) \in Nat
      /\ \A i \in 1 .. Len(srcChan) : srcChan[i] \in Nat
      /\ \A i \in 1 .. Len(inChan) : inChan[i] \in Nat
  BY SizesAssumption, Content DEF TypeOK, ControlTypeOK, ChannelsTypeOK
<1>1. CASE UNCHANGED <<produced, srcChan, dispPc, dispEvent, inChan>>
  BY <1>1
<1>2. CASE LaunchDispatcher
  BY <1>2, <1>t DEF LaunchDispatcher, srcVars
<1>3. CASE SourceEmit
  <2>1. produced + 1 \in Events
    BY <1>3, SizesAssumption DEF SourceEmit, TypeOK, ControlTypeOK, Events
  <2>2. /\ Len(srcChan') = Len(srcChan) + 1
        /\ \A i \in 1 .. Len(srcChan) : srcChan'[i] = srcChan[i]
        /\ srcChan'[Len(srcChan) + 1] = produced + 1
    BY <1>3, <1>t, <2>1, Send DEF SourceEmit
  <2>3. UNCHANGED <<dispPc, dispEvent, inChan>> /\ produced' = produced + 1
    BY <1>3 DEF SourceEmit, dispVars
  <2>4. Taken' = Taken
    BY <2>2, <2>3, <1>t
  <2>5. ASSUME NEW i \in 1 .. Len(srcChan')
        PROVE  srcChan'[i] = Taken' + i
    <3>1. CASE i \in 1 .. Len(srcChan)
      BY <2>2, <2>4, <3>1
    <3>2. CASE i = Len(srcChan) + 1
      BY <1>t, <2>2, <2>4, <3>2
    <3> QED
      BY <1>t, <2>2, <3>1, <3>2
  <2> QED
    BY <2>3, <2>4, <2>5
<1>4. CASE DispatchReceive
  <2>1. /\ Len(srcChan) > 0
        /\ Len(srcChan') = Len(srcChan) - 1
        /\ \A i \in 1 .. Len(srcChan') : srcChan'[i] = srcChan[i + 1]
        /\ dispEvent' = srcChan[1]
    BY <1>4, <1>t, Receive DEF DispatchReceive
  <2>2. /\ UNCHANGED <<inChan, produced>>
        /\ dispPc = "recv" /\ dispPc' = "send"
    BY <1>4 DEF DispatchReceive, srcVars
  <2>3. Taken' = Taken + 1 /\ dispEvent' = Taken'
    BY <2>1, <2>2, <1>t
  <2> QED
    BY <1>t, <2>1, <2>2, <2>3
<1>5. CASE DispatchSend
  <2>1. /\ Len(inChan') = Len(inChan) + 1
        /\ \A i \in 1 .. Len(inChan) : inChan'[i] = inChan[i]
        /\ inChan'[Len(inChan) + 1] = dispEvent
    BY <1>5, <1>t, Send DEF DispatchSend, TypeOK, DispatcherTypeOK
  <2>2. /\ UNCHANGED <<produced, srcChan>>
        /\ dispPc = "send" /\ dispPc' = "recv"
    BY <1>5 DEF DispatchSend, srcVars
  <2>3. dispEvent = Taken /\ Taken \in Nat /\ Taken' = Taken
    BY <1>t, <2>2
  <2>4. ASSUME NEW i \in 1 .. Len(inChan)
        PROVE  inChan[i] < dispEvent /\ inChan[i] \in Nat
    <3>1. inChan[i] \in Nat
      BY <1>t
    <3>2. PassedOn(inChan[i])
      OBVIOUS
    <3>3. inChan[i] <= Taken /\ inChan[i] # dispEvent
      BY <2>2, <3>2
    <3> QED
      BY <2>3, <3>1, <3>3
  <2>5. ASSUME NEW i \in 1 .. Len(inChan')
        PROVE  inChan'[i] <= Taken
    <3>1. CASE i \in 1 .. Len(inChan)
      BY <1>t, <2>1, <2>3, <2>4, <3>1
    <3>2. CASE i = Len(inChan) + 1
      BY <1>t, <2>1, <2>3, <3>2
    <3> QED
      BY <1>t, <2>1, <3>1, <3>2
  <2>6. ASSUME NEW i \in 1 .. Len(inChan'), NEW j \in 1 .. Len(inChan'), i < j
        PROVE  inChan'[i] < inChan'[j]
    <3>1. i \in 1 .. Len(inChan) /\ inChan'[i] = inChan[i]
      BY <1>t, <2>1, <2>6
    <3>2. CASE j \in 1 .. Len(inChan)
      BY <1>t, <2>1, <2>6, <3>1, <3>2
    <3>3. CASE j = Len(inChan) + 1
      BY <1>t, <2>1, <2>4, <3>1, <3>3
    <3> QED
      BY <1>t, <2>1, <3>2, <3>3
  <2> QED
    BY <1>t, <2>2, <2>3, <2>5, <2>6
<1>6. CASE DispatchDrop \/ DispatchAbandon \/ DispatchExit
  BY <1>6, <1>t DEF DispatchDrop, DispatchAbandon, DispatchExit, srcVars
<1>7. CASE \E w \in Workers : WorkerReceive(w)
  <2>1. /\ Len(inChan) > 0
        /\ Len(inChan') = Len(inChan) - 1
        /\ \A i \in 1 .. Len(inChan') : inChan'[i] = inChan[i + 1]
    BY <1>7, <1>t, Receive DEF WorkerReceive
  <2>2. UNCHANGED <<produced, srcChan, dispPc, dispEvent>>
    BY <1>7 DEF WorkerReceive, srcVars, dispVars
  <2>3. ASSUME NEW i \in 1 .. Len(inChan')
        PROVE  /\ i + 1 \in 1 .. Len(inChan)
               /\ inChan'[i] = inChan[i + 1]
               /\ PassedOn(inChan[i])'
    <3>1. i + 1 \in 1 .. Len(inChan) /\ inChan'[i] = inChan[i + 1]
      BY <1>t, <2>1
    <3>2. PassedOn(inChan[i + 1])
      BY <3>1
    <3>3. \A e : PassedOn(e)' <=> PassedOn(e)
      BY <2>2
    <3> QED
      BY <3>1, <3>2, <3>3
  <2>4. ASSUME NEW i \in 1 .. Len(inChan'), NEW j \in 1 .. Len(inChan'), i < j
        PROVE  inChan'[i] < inChan'[j]
    <3>1. i + 1 \in 1 .. Len(inChan) /\ j + 1 \in 1 .. Len(inChan) /\ i + 1 < j + 1
      BY <1>t, <2>1, <2>4
    <3>2. inChan[i + 1] < inChan[j + 1]
      BY <3>1
    <3> QED
      BY <2>3, <3>2
  <2> QED
    BY <1>t, <2>2, <2>3, <2>4
<1> QED
  BY <1>1, <1>2, <1>3, <1>4, <1>5, <1>6, <1>7
     DEF Next, Start, StartSource, StartFails, LaunchWorker, Stop, StopCancel, StopWait,
         StopCloseSink, StopReturn, AddSink, ParentCancel, Source, SourceExit, Dispatcher,
         Worker, WorkerDiscard, WorkerSnapshotSinks, WorkerDeliver, WorkerExit, Quiet,
         vars, srcVars, dispVars
\* How a step changes the set of events passed on: it is the dispatcher's leaving
\* an event to the queue, the drop counter or nobody that adds to it.
PassesOn == DispatchSend \/ DispatchDrop \/ DispatchAbandon

LEMMA PassedOnStep ==
    ASSUME TypeOK, TypeOK', LifecycleInv, OrderInv, [Next]_vars
    PROVE  /\ PassesOn => /\ ~PassedOn(dispEvent)
                          /\ dispEvent \in Events
                          /\ \A e \in Events : PassedOn(e)' <=> PassedOn(e) \/ e = dispEvent
           /\ ~PassesOn => \A e \in Events : PassedOn(e)' <=> PassedOn(e)
<1>t. /\ produced \in Nat
      /\ Len(srcChan) \in Nat
      /\ dispPc = "send" => dispEvent \in Events
      /\ \A e \in Events : e \in Nat
  BY SizesAssumption, LenProperties
     DEF TypeOK, ControlTypeOK, ChannelsTypeOK, DispatcherTypeOK, Events
<1>1. CASE PassesOn
  <2>1. /\ dispPc = "send" /\ dispPc' # "send"
        /\ UNCHANGED <<produced, srcChan>>
    BY <1>1 DEF PassesOn, DispatchSend, DispatchDrop, DispatchAbandon, srcVars
  <2>2. dispEvent = Taken /\ Taken' = Taken /\ Taken \in Nat
    BY <1>t, <2>1 DEF OrderInv, Taken
  <2> QED
    BY <1>1, <1>t, <2>1, <2>2 DEF PassedOn
<1>2. CASE UNCHANGED <<produced, srcChan, dispPc, dispEvent>>
  BY <1>2, <1>t DEF PassedOn, Taken, PassesOn, DispatchSend, DispatchDrop, DispatchAbandon
<1>3. CASE LaunchDispatcher \/ DispatchExit
  BY <1>3, <1>t DEF LaunchDispatcher, DispatchExit, LifecycleInv, PassedOn, Taken, PassesOn, DispatchSend,
     DispatchDrop, DispatchAbandon, srcVars
<1>4. CASE SourceEmit
  <2>1. produced + 1 \in Events
    BY <1>4, SizesAssumption DEF SourceEmit, TypeOK, ControlTypeOK, Events
  <2>2. Len(srcChan') = Len(srcChan) + 1 /\ produced' = produced + 1
    BY <1>4, <2>1, Send DEF SourceEmit, TypeOK, ChannelsTypeOK
  <2>3. UNCHANGED <<dispPc, dispEvent>> /\ Taken' = Taken
    BY <1>4, <1>t, <2>2 DEF SourceEmit, dispVars, Taken
  <2> QED
    BY <1>4, <2>3 DEF PassedOn, SourceEmit, dispVars, PassesOn, DispatchSend, DispatchDrop,
       DispatchAbandon
<1>5. CASE DispatchReceive
  <2>1. Len(srcChan') = Len(srcChan) - 1 /\ dispEvent' = srcChan[1] /\ Len(srcChan) > 0
    BY <1>5, Receive DEF DispatchReceive, TypeOK, ChannelsTypeOK
  <2>2. dispPc = "recv" /\ dispPc' = "send" /\ produced' = produced
    BY <1>5 DEF DispatchReceive, srcVars
  <2>3. Taken' = Taken + 1 /\ dispEvent' = Taken + 1 /\ Taken \in Int
    BY <1>t, <2>1, <2>2 DEF Taken, OrderInv
  <2>4. ~PassesOn
    BY <2>2 DEF PassesOn, DispatchSend, DispatchDrop, DispatchAbandon
  <2> QED
    BY <1>t, <2>2, <2>3, <2>4 DEF PassedOn
<1> QED
  BY <1>1, <1>2, <1>3, <1>4, <1>5
     DEF Next, Start, StartSource, StartFails, LaunchWorker, Stop, StopCancel, StopWait,
         StopCloseSink, StopReturn, AddSink, ParentCancel, Source, SourceExit, Dispatcher,
         Worker, WorkerReceive, WorkerDiscard, WorkerSnapshotSinks, WorkerDeliver,
         WorkerExit, Quiet, vars, srcVars, dispVars, PassesOn

\* How a step changes the content of the queue.
LEMMA QueueStep ==
    ASSUME TypeOK, OrderInv, [Next]_vars
    PROVE  /\ DispatchSend =>
                 InChannel(inChan)' = InChannel(inChan) \cup {dispEvent}
           /\ \A w \in Workers : WorkerReceive(w) =>
                 /\ Head(inChan) \in InChannel(inChan)
                 /\ InChannel(inChan)' = InChannel(inChan) \ {Head(inChan)}
           /\ ~DispatchSend /\ (\A w \in Workers : ~WorkerReceive(w)) =>
                 InChannel(inChan)' = InChannel(inChan)
           /\ InChannel(inChan) \subseteq Events
           /\ \A e \in InChannel(inChan) : PassedOn(e)
<1>t. inChan \in Seq(Events)
  BY DEF TypeOK, ChannelsTypeOK
<1>1. \A i, j \in 1 .. Len(inChan) : inChan[i] = inChan[j] => i = j
  <2>1. ASSUME NEW i \in 1 .. Len(inChan), NEW j \in 1 .. Len(inChan), inChan[i] = inChan[j]
        PROVE  ~(i < j)
    BY <1>t, <2>1, Content DEF OrderInv
  <2>2. Len(inChan) \in Nat
    BY <1>t, Content
  <2> QED
    BY <2>1, <2>2
<1>2. DispatchSend => InChannel(inChan)' = InChannel(inChan) \cup {dispEvent}
  <2> SUFFICES ASSUME DispatchSend
               PROVE  InChannel(Append(inChan, dispEvent)) = InChannel(inChan) \cup {dispEvent}
    BY DEF DispatchSend, InChannel
  <2> QED
    BY <1>t, SendContent DEF DispatchSend, TypeOK, DispatcherTypeOK
<1>3. ASSUME NEW w \in Workers, WorkerReceive(w)
      PROVE  /\ Head(inChan) \in InChannel(inChan)
             /\ InChannel(inChan)' = InChannel(inChan) \ {Head(inChan)}
  <2>1. inChan # <<>> /\ inChan' = Tail(inChan)
    BY <1>3 DEF WorkerReceive
  <2>2. InChannel(inChan)' = InChannel(Tail(inChan))
    BY <2>1 DEF InChannel
  <2> QED
    BY <1>t, <1>1, <2>1, <2>2, ReceiveContent
<1>4. ASSUME ~DispatchSend, \A w \in Workers : ~WorkerReceive(w)
      PROVE  InChannel(inChan)' = InChannel(inChan)
  BY <1>4 DEF InChannel, Next, Start, StartSource, StartFails, LaunchDispatcher,
     LaunchWorker, Stop, StopCancel, StopWait, StopCloseSink, StopReturn, AddSink,
     ParentCancel, Source, SourceEmit, SourceExit, Dispatcher, DispatchReceive, DispatchDrop,
     DispatchAbandon, DispatchExit, Worker, WorkerDiscard, WorkerSnapshotSinks,
     WorkerDeliver, WorkerExit, Quiet, vars
<1>5. /\ InChannel(inChan) \subseteq Events
      /\ \A e \in InChannel(inChan) : PassedOn(e)
  BY <1>t, Content DEF InChannel, OrderInv
<1> QED
  BY <1>2, <1>3, <1>4, <1>5
LEMMA ApartStep ==
    ASSUME TypeOK, TypeOK', LifecycleInv, OrderInv, ApartInv, [Next]_vars
    PROVE  ApartInv'
<1> DEFINE Queued == InChannel(inChan)
           Out == filtered \cup dropped \cup lost
<1> USE DEF ApartInv
<1>t. /\ wPc \in [Workers -> {"off", "recv", "busy", "deliver", "exited"}]
      /\ wEvent \in [Workers -> 0 .. NumEvents]
      /\ \A w \in Holding : wEvent[w] \in Events
      /\ Out \subseteq Events
      /\ Queued \subseteq Events
      /\ \A e \in Queued : PassedOn(e)
  BY QueueStep DEF TypeOK, WorkersTypeOK, DispatcherTypeOK
<1>1. CASE PassesOn
  <2>1. /\ ~PassedOn(dispEvent)
        /\ dispEvent \in Events
        /\ \A e \in Events : PassedOn(e)' <=> PassedOn(e) \/ e = dispEvent
    BY <1>1, PassedOnStep
  <2>2. UNCHANGED <<wPc, wEvent, filtered>> /\ Holding' = Holding
    BY <1>1 DEF PassesOn, DispatchSend, DispatchDrop, DispatchAbandon, wVars, Holding
  <2>3. dispEvent \notin Out /\ \A w \in Holding : wEvent[w] # dispEvent
    BY <2>1
  <2>4. CASE DispatchSend
    <3>1. Queued' = Queued \cup {dispEvent} /\ UNCHANGED <<dropped, lost>>
      BY <2>4, QueueStep DEF DispatchSend
    <3> QED
      BY <1>t, <2>1, <2>2, <2>3, <3>1
  <2>5. CASE DispatchDrop
    <3>1. /\ Queued' = Queued /\ dropped' = dropped \cup {dispEvent} /\ lost' = lost
      BY <2>5 DEF DispatchDrop, InChannel
    <3> QED
      BY <1>t, <2>1, <2>2, <2>3, <3>1
  <2>6. CASE DispatchAbandon
    <3>1. /\ Queued' = Queued /\ lost' = lost \cup {dispEvent} /\ dropped' = dropped
      BY <2>6 DEF DispatchAbandon, InChannel
    <3> QED
      BY <1>t, <2>1, <2>2, <2>3, <3>1
  <2> QED
    BY <1>1, <2>4, <2>5, <2>6 DEF PassesOn
<1>2. CASE ~PassesOn
  <2>1. \A e \in Events : PassedOn(e)' <=> PassedOn(e)
    BY <1>2, PassedOnStep
  <2>2. CASE UNCHANGED <<wPc, wEvent, filtered, dropped, lost, inChan>>
    <3>1. Queued' = Queued /\ Holding' = Holding
      BY <2>2 DEF InChannel, Holding
    <3> QED
      BY <1>t, <2>1, <2>2, <3>1
  <2>3. ASSUME NEW w \in Workers, LaunchWorker(w) \/ WorkerExit(w) \/ WorkerDeliver(w)
                                  \/ WorkerSnapshotSinks(w)
        PROVE  ApartInv'
    <3>1. UNCHANGED <<wEvent, filtered, dropped, lost>> /\ Queued' = Queued
      BY <2>3 DEF LaunchWorker, WorkerExit, WorkerDeliver, WorkerSnapshotSinks, dispVars,
         InChannel
    <3>2. Holding' \subseteq Holding
      BY <1>t, <2>3 DEF LaunchWorker, WorkerExit, WorkerDeliver, WorkerSnapshotSinks, Holding
    <3> QED
      BY <1>t, <2>1, <3>1, <3>2
  <2>4. ASSUME NEW w \in Workers, WorkerReceive(w)
        PROVE  ApartInv'
    <3>1. /\ Head(inChan) \in Queued
          /\ Queued' = Queued \ {Head(inChan)}
      BY <2>4, QueueStep
    <3>2. /\ UNCHANGED <<filtered, dropped, lost>>
          /\ wEvent' = [wEvent EXCEPT ![w] = Head(inChan)]
          /\ w \notin Holding /\ Holding' = Holding \cup {w}
      BY <1>t, <2>4 DEF WorkerReceive, Holding, dispVars
    <3>3. /\ \A v \in Holding : wEvent'[v] = wEvent[v] /\ v \in Workers
          /\ wEvent'[w] = Head(inChan)
      BY <1>t, <3>2 DEF Holding
    <3> QED
      BY <1>t, <2>1, <3>1, <3>2, <3>3
  <2>5. ASSUME NEW w \in Workers, WorkerDiscard(w)
        PROVE  ApartInv'
    <3>1. /\ UNCHANGED <<wEvent, dropped, lost>>
          /\ Queued' = Queued
          /\ filtered' = filtered \cup {wEvent[w]}
          /\ w \in Holding /\ Holding' = Holding \ {w}
      BY <1>t, <2>5 DEF WorkerDiscard, Holding, dispVars, InChannel
    <3> QED
      BY <1>t, <2>1, <3>1
  <2> QED
    BY <1>2, <2>2, <2>3, <2>4, <2>5
       DEF Next, Start, StartSource, StartFails, LaunchDispatcher, Stop, StopCancel, StopWait,
           StopCloseSink, StopReturn, AddSink, ParentCancel, Source, SourceEmit, SourceExit,
           Dispatcher, DispatchReceive, DispatchExit, Worker, Quiet, vars, dispVars, wVars,
           PassesOn
<1> QED
  BY <1>1, <1>2
-----------------------------------------------------------------------------
(* The inductive invariant: which sinks an event has reached.              *)

LEMMA ReachStep ==
    ASSUME TypeOK, TypeOK', LifecycleInv, OrderInv, ApartInv, ReachInv, [Next]_vars
    PROVE  ReachInv'
<1> DEFINE Queued == InChannel(inChan)
           Out == filtered \cup dropped \cup lost
<1> USE SinksAssumption DEF ReachInv
<1>t. /\ wPc \in [Workers -> {"off", "recv", "busy", "deliver", "exited"}]
      /\ wEvent \in [Workers -> 0 .. NumEvents]
      /\ wLimit \in [Workers -> 0 .. MaxSinks]
      /\ wNext \in [Workers -> 0 .. MaxSinks + 1]
      /\ \A w \in Holding : wEvent[w] \in Events
      /\ \A w \in Workers : wPc[w] = "deliver" => wNext[w] \in 1 .. wLimit[w]
      /\ delivered \in [Sinks -> [Events -> Nat]]
      /\ nSinks \in InitSinks .. MaxSinks
      /\ nSinks' \in InitSinks .. MaxSinks
  BY DEF TypeOK, WorkersTypeOK, ControlTypeOK
<1>1. CASE PassesOn
  <2>1. /\ ~PassedOn(dispEvent)
        /\ dispEvent \in Events
        /\ \A e \in Events : PassedOn(e)' <=> PassedOn(e) \/ e = dispEvent
    BY <1>1, PassedOnStep
  <2>2. /\ UNCHANGED <<wPc, wEvent, wLimit, wNext, delivered, nSinks>>
        /\ Holding' = Holding
        /\ Queued' \cup Out' = Queued \cup Out \cup {dispEvent}
    <3>1. UNCHANGED <<wPc, wEvent, wLimit, wNext, delivered, filtered, nSinks>>
      BY <1>1 DEF PassesOn, DispatchSend, DispatchDrop, DispatchAbandon, wVars, sinkVars
    <3>2. Queued' \cup Out' = Queued \cup Out \cup {dispEvent}
      BY <1>1, <3>1, QueueStep DEF PassesOn, DispatchSend, DispatchDrop, DispatchAbandon,
         InChannel
    <3> QED
      BY <3>1, <3>2 DEF Holding
  <2>3. \A e : Untouched(e)' <=> Untouched(e)
    BY <2>2 DEF Untouched
  <2>4. \A e : Complete(e)' <=> Complete(e)
    BY <2>2 DEF Complete
  <2> QED
    BY <2>1, <2>2, <2>3, <2>4
<1>2. CASE ~PassesOn
  <2>1. \A e \in Events : PassedOn(e)' <=> PassedOn(e)
    BY <1>2, PassedOnStep
  <2>2. CASE /\ UNCHANGED <<wPc, wEvent, wLimit, wNext, delivered, filtered, dropped, lost>>
             /\ inChan' = inChan
             /\ nSinks' >= nSinks
    <3>1. Queued' = Queued /\ Holding' = Holding /\ Out' = Out
      BY <2>2 DEF InChannel, Holding
    <3>2. \A e : Untouched(e)' <=> Untouched(e)
      BY <2>2 DEF Untouched
    <3>3. \A e \in Events : Complete(e) => Complete(e)'
      BY <1>t, <2>2 DEF Complete, Sinks
    <3> QED
      BY <1>t, <2>1, <2>2, <3>1, <3>2, <3>3
  <2>3. ASSUME NEW w \in Workers, LaunchWorker(w) \/ WorkerExit(w)
        PROVE  ReachInv'
    <3>1. /\ UNCHANGED <<wEvent, wLimit, wNext, delivered, nSinks>>
          /\ Queued' = Queued /\ Holding' = Holding /\ Out' = Out
          /\ \A v \in Workers : /\ wPc'[v] = "deliver" <=> wPc[v] = "deliver"
                                /\ wPc'[v] = "busy" <=> wPc[v] = "busy"
      BY <1>t, <2>3 DEF LaunchWorker, WorkerExit, dispVars, sinkVars, InChannel, Holding
    <3>2. \A e : Untouched(e)' <=> Untouched(e)
      BY <3>1 DEF Untouched
    <3>3. \A e : Complete(e)' <=> Complete(e)
      BY <3>1 DEF Complete
    <3> QED
      BY <2>1, <3>1, <3>2, <3>3
  <2>4. ASSUME NEW w \in Workers, WorkerReceive(w)
        PROVE  ReachInv'
    <3>1. /\ Head(inChan) \in Queued
          /\ Queued' = Queued \ {Head(inChan)}
          /\ Queued \subseteq Events
      BY <2>4, QueueStep
    <3>2. /\ UNCHANGED <<wLimit, wNext, delivered, nSinks>> /\ Out' = Out
          /\ wPc' = [wPc EXCEPT ![w] = "busy"]
          /\ wEvent' = [wEvent EXCEPT ![w] = Head(inChan)]
          /\ w \notin Holding /\ Holding' = Holding \cup {w}
      BY <1>t, <2>4 DEF WorkerReceive, Holding, dispVars, sinkVars
    <3>3. \A e : Untouched(e)' <=> Untouched(e)
      BY <3>2 DEF Untouched
    <3>4. \A e : Complete(e)' <=> Complete(e)
      BY <3>2 DEF Complete
    <3>5. \A v \in Workers : v # w => wPc'[v] = wPc[v] /\ wEvent'[v] = wEvent[v]
      BY <1>t, <3>2
    <3>6. wPc'[w] = "busy" /\ wEvent'[w] = Head(inChan)
      BY <1>t, <3>2
    <3> QED
      BY <1>t, <2>1, <3>1, <3>2, <3>3, <3>4, <3>5, <3>6 DEF Holding
  <2>5. ASSUME NEW w \in Workers, WorkerDiscard(w)
        PROVE  ReachInv'
    <3>1. /\ UNCHANGED <<wEvent, wLimit, wNext, delivered, nSinks>>
          /\ Queued' = Queued
          /\ Out' = Out \cup {wEvent[w]}
          /\ wPc[w] = "busy" /\ wPc'[w] = "recv"
          /\ Holding' = Holding \ {w}
          /\ \A v \in Workers : v # w => wPc'[v] = wPc[v]
      BY <1>t, <2>5 DEF WorkerDiscard, Holding, dispVars, sinkVars, InChannel
    <3>2. \A e : Untouched(e)' <=> Untouched(e)
      BY <3>1 DEF Untouched
    <3>3. \A e : Complete(e)' <=> Complete(e)
      BY <3>1 DEF Complete
    <3> QED
      BY <1>t, <2>1, <3>1, <3>2, <3>3 DEF Holding
  <2>6. ASSUME NEW w \in Workers, WorkerSnapshotSinks(w)
        PROVE  ReachInv'
    <3>1. /\ UNCHANGED <<wEvent, delivered, nSinks>>
          /\ Queued' = Queued /\ Out' = Out /\ Holding' = Holding
          /\ wPc[w] = "busy" /\ wPc'[w] = "deliver"
          /\ ~Discards(wEvent[w])
          /\ wLimit'[w] = nSinks /\ wNext'[w] = 1
          /\ \A v \in Workers : v # w => /\ wPc'[v] = wPc[v]
                                         /\ wLimit'[v] = wLimit[v]
                                         /\ wNext'[v] = wNext[v]
      BY <1>t, <2>6 DEF WorkerSnapshotSinks, Holding, dispVars, sinkVars, InChannel
    <3>2. \A e : Untouched(e)' <=> Untouched(e)
      BY <3>1 DEF Untouched
    <3>3. \A e : Complete(e)' <=> Complete(e)
      BY <3>1 DEF Complete
    <3>4. \A s \in Sinks : delivered'[s][wEvent'[w]] = IF s < wNext'[w] THEN 1 ELSE 0
      BY <3>1 DEF Untouched, Sinks
    <3> QED
      BY <1>t, <2>1, <3>1, <3>2, <3>3, <3>4
  <2>7. ASSUME NEW w \in Workers, WorkerDeliver(w)
        PROVE  ReachInv'
    <3> DEFINE e0 == wEvent[w]
               s0 == wNext[w]
    <3>1. /\ UNCHANGED <<wEvent, wLimit, nSinks>>
          /\ Queued' = Queued /\ Out' = Out
          /\ wPc[w] = "deliver"
          /\ wNext'[w] = s0 + 1
          /\ wPc'[w] = IF s0 = wLimit[w] THEN "recv" ELSE "deliver"
          /\ \A v \in Workers : v # w => wPc'[v] = wPc[v] /\ wNext'[v] = wNext[v]
      BY <1>t, <2>7 DEF WorkerDeliver, dispVars, sinkVars, InChannel
    <3>2. /\ e0 \in Events /\ s0 \in Sinks /\ s0 \in 1 .. wLimit[w] /\ s0 \in Nat
          /\ wLimit[w] \in InitSinks .. nSinks /\ wLimit[w] \in Nat
          /\ w \in Holding
      BY <1>t, <3>1 DEF Holding, Sinks
    <3>3. \A s \in Sinks : delivered[s][e0] = IF s < s0 THEN 1 ELSE 0
      BY <3>1
    <3>4. \A s \in Sinks, e \in Events :
             delivered'[s][e] = IF s = s0 /\ e = e0 THEN delivered[s][e] + 1
                                                   ELSE delivered[s][e]
      BY <1>t, <2>7, <3>2 DEF WorkerDeliver
    <3>5. \A s \in Sinks : delivered'[s][e0] = IF s < s0 + 1 THEN 1 ELSE 0
      BY <3>2, <3>3, <3>4 DEF Sinks
    <3>6. \A e \in Events : e # e0 => /\ Untouched(e)' <=> Untouched(e)
                                      /\ Complete(e)' <=> Complete(e)
      BY <3>1, <3>4 DEF Untouched, Complete, Sinks
    <3>7. /\ PassedOn(e0) /\ e0 \notin Queued /\ e0 \notin Out
          /\ \A v \in Holding : v # w => wEvent[v] # e0
      BY <3>2 DEF ApartInv
    <3>8. ASSUME wPc'[w] = "recv"
          PROVE  Complete(e0)'
      <4>1. s0 = wLimit[w]
        BY <3>1, <3>8
      <4>2. \A s \in Sinks : delivered'[s][e0] <= 1 /\ (delivered'[s][e0] > 0 => s <= nSinks)
        BY <1>t, <3>2, <3>5, <4>1 DEF Sinks
      <4>3. \A s \in 1 .. InitSinks : delivered'[s][e0] = 1
        BY <1>t, <3>2, <3>5, <4>1 DEF Sinks
      <4> QED
        BY <3>1, <4>2, <4>3 DEF Complete
    <3>9. ASSUME NEW v \in Workers, wPc'[v] = "deliver"
          PROVE  /\ ~Discards(wEvent'[v])
                 /\ wLimit'[v] \in InitSinks .. nSinks'
                 /\ \A s \in Sinks :
                       delivered'[s][wEvent'[v]] = IF s < wNext'[v] THEN 1 ELSE 0
      <4>1. CASE v = w
        BY <3>1, <3>2, <3>5, <4>1
      <4>2. CASE v # w
        <5>1. wPc[v] = "deliver" /\ v \in Holding /\ wEvent[v] \in Events /\ wEvent[v] # e0
          BY <1>t, <3>1, <3>7, <3>9, <4>2 DEF Holding
        <5> QED
          BY <3>1, <3>4, <4>2, <5>1
      <4> QED
        BY <4>1, <4>2
    <3>10. ASSUME NEW v \in Workers, wPc'[v] = "busy"
           PROVE  Untouched(wEvent[v])'
      <4>1. v # w /\ wPc[v] = "busy" /\ v \in Holding /\ wEvent[v] \in Events
        BY <1>t, <3>1, <3>10 DEF Holding
      <4> QED
        BY <3>1, <3>6, <3>7, <4>1
    <3>11. \A e \in Events :
              ~PassedOn(e)' \/ e \in Queued' \/ e \in Out' => Untouched(e)'
      BY <2>1, <3>1, <3>6, <3>7
    <3>12. ASSUME NEW e \in Events, PassedOn(e)', e \notin Queued', e \notin Out'
           PROVE  Complete(e)' \/ \E v \in Holding' : wEvent'[v] = e
      <4>1. CASE e = e0
        BY <3>1, <3>8, <4>1 DEF Holding
      <4>2. CASE e # e0
        BY <2>1, <3>1, <3>6, <3>12, <4>2 DEF Holding
      <4> QED
        BY <4>1, <4>2
    <3> QED
      BY <3>1, <3>9, <3>10, <3>11, <3>12
  <2> QED
    BY <1>2, <1>t, <2>2, <2>3, <2>4, <2>5, <2>6, <2>7
       DEF Next, Start, StartSource, StartFails, LaunchDispatcher, Stop, StopCancel, StopWait,
           StopCloseSink, StopReturn, AddSink, ParentCancel, Source, SourceEmit, SourceExit,
           Dispatcher, DispatchReceive, DispatchExit, Worker, Quiet, vars, dispVars, wVars,
           sinkVars, PassesOn
<1> QED
  BY <1>1, <1>2
LEMMA ClosedStep ==
    ASSUME TypeOK, LifecycleInv, OrderInv, ReachInv, ClosedInv, [Next]_vars
    PROVE  ClosedInv'
<1> USE DEF ClosedInv
<1>1. CASE ctl = "stopped"
  <2>1. ctl' = "stopped" /\ nClosed' = nClosed
    BY <1>1 DEF Next, Start, StartSource, StartFails, LaunchDispatcher, LaunchWorker, Stop,
       StopCancel, StopWait, StopCloseSink, StopReturn, AddSink, ParentCancel, Source,
       SourceEmit, SourceExit, Dispatcher, DispatchReceive, DispatchSend, DispatchDrop,
       DispatchAbandon, DispatchExit, Worker, WorkerReceive, WorkerDiscard,
       WorkerSnapshotSinks, WorkerDeliver, WorkerExit, Quiet, vars, ctlVars, sinkVars
  <2>2. delivered' = delivered
    BY <1>1, DeliveredFrame DEF LifecycleInv, WgIsZero
  <2> QED
    BY <1>1, <2>1, <2>2
<1>2. CASE StopReturn
  <2>1. nClosed = nSinks /\ UNCHANGED <<nClosed, delivered>> /\ ctl = "closing"
    BY <1>2 DEF StopReturn, sinkVars, wVars
  <2>2. Holding = {}
    BY <2>1 DEF LifecycleInv, WgIsZero, Holding
  <2>3. \A e \in Events : Untouched(e) \/ Complete(e)
    BY <2>2 DEF ReachInv
  <2> QED
    BY <2>1, <2>3 DEF Untouched, Complete
<1>3. CASE ctl # "stopped" /\ ~StopReturn
  <2>1. ctl' # "stopped"
    BY <1>3 DEF Next, Start, StartSource, StartFails, LaunchDispatcher, LaunchWorker, Stop,
       StopCancel, StopWait, StopCloseSink, AddSink, ParentCancel, Source,
       SourceEmit, SourceExit, Dispatcher, DispatchReceive, DispatchSend, DispatchDrop,
       DispatchAbandon, DispatchExit, Worker, WorkerReceive, WorkerDiscard,
       WorkerSnapshotSinks, WorkerDeliver, WorkerExit, Quiet, vars, ctlVars
  <2> QED
    BY <2>1
<1> QED
  BY <1>1, <1>2, <1>3

-----------------------------------------------------------------------------
(* The invariant holds, and the safety properties follow.                  *)

LEMMA InvInit == Init => IInv
<1> SUFFICES ASSUME Init PROVE IInv
  OBVIOUS
<1>1. TypeOK
  BY TypeInit
<1>2. Holding = {} /\ InChannel(inChan) = {} /\ WgIsZero
  BY EmptySeq DEF Init, Holding, InChannel, WgIsZero
<1>3. LifecycleInv
  BY <1>2 DEF Init, LifecycleInv
<1>4. LossInv
  BY DEF Init, LossInv
<1>5. OrderInv
  BY EmptySeq DEF Init, OrderInv, Taken
<1>6. ApartInv
  BY <1>2 DEF Init, ApartInv
<1>7. ReachInv
  <2>1. Len(srcChan) = 0 /\ produced = 0
    BY EmptySeq DEF Init
  <2>2. \A e \in Events : ~PassedOn(e)
    BY <2>1, SizesAssumption DEF Events, PassedOn, Taken
  <2>3. \A e \in Events : Untouched(e)
    BY DEF Init, Untouched
  <2> QED
    BY <1>2, <2>2, <2>3 DEF Init, ReachInv
<1>8. ClosedInv
  BY DEF Init, ClosedInv
<1> QED
  BY <1>1, <1>3, <1>4, <1>5, <1>6, <1>7, <1>8 DEF IInv

LEMMA InvStep == IInv /\ [Next]_vars => IInv'
<1> SUFFICES ASSUME IInv, [Next]_vars PROVE IInv'
  OBVIOUS
<1>1. TypeOK'
  BY TypeStep DEF IInv
<1> QED
  BY <1>1, LifecycleStep, LossStep, OrderStep, ApartStep, ReachStep, ClosedStep DEF IInv

\* The inductive invariant holds in every reachable state.
THEOREM Invariance == Spec => []IInv
BY InvInit, InvStep, PTL DEF Spec
\* An event has reached no sink, or all those registered when it was processed,
\* or is being broadcast.
LEMMA ReachCases ==
    ASSUME IInv, NEW e \in Events
    PROVE  \/ Untouched(e)
           \/ Complete(e)
           \/ \E w \in Holding : wPc[w] = "deliver" /\ wEvent[w] = e
BY DEF IInv, ReachInv, Holding

LEMMA InvAtMostOnce == IInv => AtMostOnce
<1> SUFFICES ASSUME IInv, NEW s \in Sinks, NEW e \in Events
             PROVE  delivered[s][e] <= 1
  BY DEF AtMostOnce
<1>1. CASE Untouched(e)
  BY <1>1 DEF Untouched
<1>2. CASE Complete(e)
  BY <1>2 DEF Complete
<1>3. ASSUME NEW w \in Holding, wPc[w] = "deliver", wEvent[w] = e
      PROVE  delivered[s][e] <= 1
  BY <1>3 DEF IInv, ReachInv, Holding
<1> QED
  BY <1>1, <1>2, <1>3, ReachCases

\* No sink is ever called twice for the same event.
THEOREM ExactlyOnceAtMost == Spec => []AtMostOnce
BY Invariance, InvAtMostOnce, PTL

LEMMA InvStatsLeads == IInv => StatsLeads
<1> SUFFICES ASSUME IInv, NEW s \in Sinks, NEW e \in Events, delivered[s][e] > 0
             PROVE  delivered[1][e] > 0
  BY DEF StatsLeads
<1>t. 1 \in Sinks /\ 1 \in 1 .. InitSinks /\ s \in Nat /\ s >= 1
  BY SinksAssumption DEF Sinks
<1>1. ~Untouched(e)
  BY DEF Untouched
<1>2. CASE Complete(e)
  BY <1>2, <1>t DEF Complete
<1>3. ASSUME NEW w \in Holding, wPc[w] = "deliver", wEvent[w] = e
      PROVE  delivered[1][e] > 0
  <2>1. \A r \in Sinks : delivered[r][e] = IF r < wNext[w] THEN 1 ELSE 0
    BY <1>3 DEF IInv, ReachInv, Holding
  <2>2. wNext[w] \in Nat
    BY SinksAssumption DEF IInv, TypeOK, WorkersTypeOK, Holding
  <2> QED
    BY <1>t, <2>1, <2>2
<1> QED
  BY <1>1, <1>2, <1>3, ReachCases

\* The StatsSink is the first to count an event.
THEOREM StatsSinkLeads == Spec => []StatsLeads
BY Invariance, InvStatsLeads, PTL

LEMMA InvStopDrainsQueue == IInv => StopDrainsQueue
<1> SUFFICES ASSUME IInv, ctl \in {"closing", "stopped"}
             PROVE  /\ inChan = <<>>
                    /\ dispPc \in {"off", "exited"}
                    /\ \A e \in Events, s \in 1 .. InitSinks :
                          delivered[s][e] = delivered[1][e]
  BY DEF StopDrainsQueue
<1>1. WgIsZero
  BY DEF IInv, LifecycleInv
<1>2. inChan = <<>> /\ dispPc \in {"off", "exited"}
  <2>1. CASE dispPc = "off"
    BY <2>1 DEF IInv, LifecycleInv
  <2>2. CASE dispPc # "off"
    <3>1. PICK w \in Workers : TRUE
      BY WorkersAssumption
    <3>2. wPc[w] = "exited"
      BY <1>1, <2>2 DEF IInv, LifecycleInv, WgIsZero
    <3> QED
      BY <3>2 DEF IInv, LifecycleInv
  <2> QED
    BY <2>1, <2>2
<1>3. ASSUME NEW e \in Events, NEW s \in 1 .. InitSinks
      PROVE  delivered[s][e] = delivered[1][e]
  <2>1. Holding = {}
    BY <1>1 DEF WgIsZero, Holding
  <2>2. Untouched(e) \/ Complete(e)
    BY <2>1, ReachCases
  <2>3. s \in Sinks /\ 1 \in Sinks /\ 1 \in 1 .. InitSinks
    BY SinksAssumption DEF Sinks
  <2> QED
    BY <2>2, <2>3 DEF Untouched, Complete
<1> QED
  BY <1>2, <1>3

\* Past wg.Wait the queue is empty and no broadcast is half done.
THEOREM StopDrains == Spec => []StopDrainsQueue
BY Invariance, InvStopDrainsQueue, PTL

LEMMA InvUsedSinksAreClosed == IInv => UsedSinksAreClosed
BY DEF IInv, ClosedInv, UsedSinksAreClosed

\* When Stop has returned every sink that was given an event is closed.
THEOREM UsedSinksClosed == Spec => []UsedSinksAreClosed
BY Invariance, InvUsedSinksAreClosed, PTL

LEMMA InvLossOnlyByCancel == IInv => LossOnlyByCancel
BY DEF IInv, LossInv, LossOnlyByCancel

\* Without a cancellation the dispatcher ends only when the source has nothing
\* left, and loses nothing.
THEOREM NoSilentLoss == Spec => []LossOnlyByCancel
BY Invariance, InvLossOnlyByCancel, PTL

\* No sink is called after it was closed.
THEOREM ClosedSinksAreLeftAlone == Spec => NoDeliveryAfterClose
<1>1. IInv /\ [Next]_vars => [\A s \in Sinks : s <= nClosed => delivered'[s] = delivered[s]]_vars
  <2> SUFFICES ASSUME IInv, [Next]_vars, NEW s \in Sinks, s <= nClosed
               PROVE  delivered'[s] = delivered[s]
    OBVIOUS
  <2>1. nClosed > 0
    BY SinksAssumption DEF IInv, TypeOK, ControlTypeOK, Sinks
  <2>2. WgIsZero
    BY <2>1 DEF IInv, LifecycleInv
  <2> QED
    BY <2>2, DeliveredFrame DEF WgIsZero
<1> QED
  BY <1>1, Invariance, PTL DEF Spec, NoDeliveryAfterClose

-----------------------------------------------------------------------------
(* Conservation: every event is in exactly one place.                      *)

\* Before it is passed on, an event is unread, in the source's channel or in the
\* dispatcher's hand, in the order of the IDs.
LEMMA BeforeThePool ==
    ASSUME IInv, NEW e \in Events
    PROVE  /\ e \in InChannel(srcChan) <=> Taken < e /\ e <= produced
           /\ (dispPc = "send" /\ dispEvent = e) <=> ~PassedOn(e) /\ e <= Taken
           /\ PassedOn(e) => e <= Taken
           /\ Taken \in Nat /\ produced \in Nat /\ e \in Nat /\ Taken <= produced
<1>1. /\ srcChan \in Seq(Events)
      /\ produced \in Nat
      /\ e \in Nat
      /\ dispPc = "send" => dispEvent \in Events
  BY SizesAssumption
     DEF IInv, TypeOK, ChannelsTypeOK, ControlTypeOK, DispatcherTypeOK, Events
<1>2. Len(srcChan) \in Nat
  BY <1>1, Content
<1>3. Taken \in Nat /\ Taken <= produced
  BY <1>1, <1>2 DEF IInv, OrderInv, Taken
<1>4. ASSUME e \in InChannel(srcChan)
      PROVE  Taken < e /\ e <= produced
  <2>1. PICK i \in 1 .. Len(srcChan) : srcChan[i] = e
    BY <1>4 DEF InChannel
  <2>2. e = Taken + i
    BY <2>1 DEF IInv, OrderInv
  <2> QED
    BY <1>1, <1>2, <2>1, <2>2 DEF Taken
<1>5. ASSUME Taken < e, e <= produced
      PROVE  e \in InChannel(srcChan)
  <2>1. e - Taken \in 1 .. Len(srcChan)
    BY <1>1, <1>2, <1>3, <1>5 DEF Taken
  <2>2. srcChan[e - Taken] = Taken + (e - Taken)
    BY <2>1 DEF IInv, OrderInv
  <2>3. Taken + (e - Taken) = e
    BY <1>1, <1>3
  <2> QED
    BY <2>1, <2>2, <2>3 DEF InChannel
<1>6. (dispPc = "send" /\ dispEvent = e) <=> ~PassedOn(e) /\ e <= Taken
  BY <1>1, <1>3 DEF IInv, OrderInv, PassedOn
<1> QED
  BY <1>1, <1>3, <1>4, <1>5, <1>6 DEF PassedOn

LEMMA InvConservation == IInv => Conservation
<1> SUFFICES ASSUME IInv, NEW e \in Events
             PROVE  \E p \in DOMAIN Whereabouts(e) : \A q \in DOMAIN Whereabouts(e) :
                        Whereabouts(e)[q] <=> q = p
  BY DEF Conservation
<1> DEFINE at == Whereabouts(e)
           queued == e \in InChannel(inChan)
           held == \E w \in Holding : wEvent[w] = e
<1>1. /\ DOMAIN at = {"unread", "srcChan", "dispatcher", "queue", "worker", "filtered",
                      "dropped", "lost", "done"}
      /\ at["unread"] <=> e > produced
      /\ at["srcChan"] <=> Taken < e /\ e <= produced
      /\ at["dispatcher"] <=> ~PassedOn(e) /\ e <= Taken
      /\ at["queue"] <=> queued
      /\ at["worker"] <=> held
      /\ at["filtered"] <=> e \in filtered
      /\ at["dropped"] <=> e \in dropped
      /\ at["lost"] <=> e \in lost
      /\ at["done"] <=> delivered[1][e] > 0 /\ ~held
  BY BeforeThePool DEF Whereabouts
<1>2. /\ queued => PassedOn(e) /\ ~held /\ e \notin filtered \cup dropped \cup lost
      /\ held => PassedOn(e) /\ e \notin filtered \cup dropped \cup lost
      /\ e \in filtered \cup dropped \cup lost => PassedOn(e)
      /\ ~(e \in filtered /\ e \in dropped)
      /\ ~(e \in filtered /\ e \in lost)
      /\ ~(e \in dropped /\ e \in lost)
  BY DEF IInv, ApartInv, OrderInv, InChannel
<1>3. 1 \in Sinks /\ 1 \in 1 .. InitSinks
  BY SinksAssumption DEF Sinks
<1>4. ~PassedOn(e) \/ queued \/ e \in filtered \cup dropped \cup lost => ~at["done"]
  BY <1>1, <1>3 DEF IInv, ReachInv, Untouched
<1>5. PassedOn(e) /\ ~queued /\ e \notin filtered \cup dropped \cup lost /\ ~held => at["done"]
  BY <1>1, <1>3 DEF IInv, ReachInv, Complete
<1>6. /\ PassedOn(e) => e <= Taken
      /\ Taken \in Nat /\ produced \in Nat /\ e \in Nat /\ Taken <= produced
  BY BeforeThePool
<1> HIDE DEF at, queued, held
<1>7. CASE e > produced
  <2>1. at["unread"] /\ \A q \in DOMAIN at : at[q] <=> q = "unread"
    BY <1>1, <1>2, <1>4, <1>6, <1>7
  <2> QED
    BY <1>1, <2>1 DEF at
<1>8. CASE Taken < e /\ e <= produced
  <2>1. \A q \in DOMAIN at : at[q] <=> q = "srcChan"
    BY <1>1, <1>2, <1>4, <1>6, <1>8
  <2> QED
    BY <1>1, <2>1 DEF at
<1>9. CASE ~PassedOn(e) /\ e <= Taken
  <2>1. \A q \in DOMAIN at : at[q] <=> q = "dispatcher"
    BY <1>1, <1>2, <1>4, <1>6, <1>9
  <2> QED
    BY <1>1, <2>1 DEF at
<1>10. CASE PassedOn(e)
  <2>1. ~at["unread"] /\ ~at["srcChan"] /\ ~at["dispatcher"]
    BY <1>1, <1>6, <1>10
  <2>2. CASE queued
    <3>1. \A q \in DOMAIN at : at[q] <=> q = "queue"
      BY <1>1, <1>2, <1>4, <2>1, <2>2
    <3> QED
      BY <1>1, <3>1 DEF at
  <2>3. CASE held
    <3>1. \A q \in DOMAIN at : at[q] <=> q = "worker"
      BY <1>1, <1>2, <2>1, <2>3
    <3> QED
      BY <1>1, <3>1 DEF at
  <2>4. CASE e \in filtered
    <3>1. \A q \in DOMAIN at : at[q] <=> q = "filtered"
      BY <1>1, <1>2, <1>4, <2>1, <2>4
    <3> QED
      BY <1>1, <3>1 DEF at
  <2>5. CASE e \in dropped
    <3>1. \A q \in DOMAIN at : at[q] <=> q = "dropped"
      BY <1>1, <1>2, <1>4, <2>1, <2>5
    <3> QED
      BY <1>1, <3>1 DEF at
  <2>6. CASE e \in lost
    <3>1. \A q \in DOMAIN at : at[q] <=> q = "lost"
      BY <1>1, <1>2, <1>4, <2>1, <2>6
    <3> QED
      BY <1>1, <3>1 DEF at
  <2>7. CASE ~queued /\ ~held /\ e \notin filtered \cup dropped \cup lost
    <3>1. \A q \in DOMAIN at : at[q] <=> q = "done"
      BY <1>1, <1>5, <1>10, <2>1, <2>7
    <3> QED
      BY <1>1, <3>1 DEF at
  <2> QED
    BY <2>2, <2>3, <2>4, <2>5, <2>6, <2>7
<1> QED
  BY <1>6, <1>7, <1>8, <1>9, <1>10

\* No step duplicates an event or makes it vanish: it is unread, in one channel,
\* in one hand, delivered, or in exactly one of filtered, dropped and lost.
THEOREM EventsAreConserved == Spec => []Conservation
BY Invariance, InvConservation, PTL

-----------------------------------------------------------------------------
(* The engine implements EventDelivery: every step of the goroutines maps, *)
(* under the refinement mapping of PipelineEngine, to a step of the        *)
(* abstract pipeline or to a stuttering step.                              *)

\* The abstract status in terms of the dispatcher's counter.
Done(e) == delivered[1][e] > 0 /\ \A w \in Holding : wEvent[w] # e

Out == filtered \cup dropped \cup lost

StatusByCase(e) ==
    /\ e \in filtered => Status(e) = "filtered"
    /\ e \in dropped => Status(e) = "dropped"
    /\ e \in lost => Status(e) = "lost"
    /\ e > Taken => Status(e) = "source" /\ e \notin Out /\ ~Done(e)
    /\ Done(e) => Status(e) = "delivered" /\ e \notin Out /\ e <= Taken
    /\ e <= Taken /\ e \notin Out /\ ~Done(e) => Status(e) = "underway"

LEMMA StatusCases == IInv => \A e \in Events : StatusByCase(e)
<1> SUFFICES ASSUME IInv, NEW e \in Events
             PROVE  StatusByCase(e)
  OBVIOUS
<1>1. /\ e \in InChannel(srcChan) <=> Taken < e /\ e <= produced
      /\ PassedOn(e) => e <= Taken
      /\ Taken \in Nat /\ produced \in Nat /\ e \in Nat /\ Taken <= produced
  BY BeforeThePool
<1>2. /\ e \in Out => PassedOn(e)
      /\ ~(e \in filtered /\ e \in dropped)
      /\ ~(e \in filtered /\ e \in lost)
      /\ ~(e \in dropped /\ e \in lost)
  BY DEF IInv, ApartInv, Out
<1>3. ~PassedOn(e) \/ e \in Out => ~Done(e)
  <2>1. 1 \in Sinks
    BY SinksAssumption DEF Sinks
  <2> QED
    BY <2>1 DEF IInv, ReachInv, Untouched, Done, Out
<1>4. Whereabouts(e).done <=> Done(e)
  BY DEF Whereabouts, Done
<1> QED
  BY <1>1, <1>2, <1>3, <1>4 DEF StatusByCase, Status, Out

LEMMA StatusCasesAfter ==
    ASSUME IInv'
    PROVE  \A e \in Events : StatusByCase(e)'
<1>1. (\A e \in Events : StatusByCase(e))'
  BY StatusCases, PTL
<1> QED
  BY <1>1

LEMMA TakenNat == IInv => Taken \in Nat
<1> SUFFICES ASSUME IInv PROVE Taken \in Nat
  OBVIOUS
<1>1. Len(srcChan) \in Nat /\ produced \in Nat
  BY LenProperties DEF IInv, TypeOK, ControlTypeOK, ChannelsTypeOK
<1> QED
  BY <1>1 DEF IInv, OrderInv, Taken

LEMMA TakenAfter ==
    ASSUME IInv'
    PROVE  Taken' \in Nat
<1>1. (Taken \in Nat)'
  BY TakenNat, PTL
<1> QED
  BY <1>1

\* A step that takes no event from the source, settles none and ends no
\* broadcast changes no status.
LEMMA StatusSame ==
    ASSUME IInv, IInv', NEW e \in Events,
           e > Taken' <=> e > Taken,
           e \in filtered' <=> e \in filtered,
           e \in dropped' <=> e \in dropped,
           e \in lost' <=> e \in lost,
           Done(e)' <=> Done(e)
    PROVE  Status(e)' = Status(e)
<1>1. \/ e \in filtered \/ e \in dropped \/ e \in lost \/ e > Taken \/ Done(e)
      \/ e <= Taken /\ e <= Taken' /\ e \notin Out /\ ~Done(e)
  <2>1. e \in Nat /\ Taken \in Nat
    BY BeforeThePool
  <2>2. Taken' \in Nat
    BY TakenAfter
  <2> QED
    BY <2>1, <2>2 DEF Out
<1>2. e \notin Out => e \notin Out'
  BY DEF Out
<1>3. StatusByCase(e)
  BY StatusCases
<1>4. StatusByCase(e)'
  BY StatusCasesAfter
<1> QED
  BY <1>1, <1>2, <1>3, <1>4 DEF StatusByCase

-----------------------------------------------------------------------------
(* One step.                                                               *)

LEMMA InitRefines == Init => Delivery!Init
<1> SUFFICES ASSUME Init PROVE Delivery!Init
  OBVIOUS
<1>1. IInv
  BY InvInit
<1>2. \A e \in Events : Status(e) = "source"
  <2>1. Len(srcChan) = 0 /\ produced = 0
    BY EmptySeq DEF Init
  <2>2. \A e \in Events : e > Taken
    BY <2>1, SizesAssumption DEF Events, Taken
  <2> QED
    BY <1>1, <2>2, StatusCases DEF StatusByCase
<1>3. \A e \in Events : SeenBy(e) = {}
  BY DEF Init, SeenBy
<1> QED
  BY <1>2, <1>3 DEF Init, Delivery!Init
\* Events are left as they are by a step that changes none of the following.
LEMMA SameView ==
    ASSUME IInv, IInv', Taken' = Taken, UNCHANGED <<filtered, dropped, lost, delivered>>,
           \A e \in Events :
              \/ Untouched(e)
              \/ (\E w \in Holding : wEvent[w] = e)' <=> \E w \in Holding : wEvent[w] = e
    PROVE  UNCHANGED <<[e \in Events |-> Status(e)], [e \in Events |-> SeenBy(e)]>>
<1>1. \A e \in Events : Done(e)' <=> Done(e)
  <2>1. 1 \in Sinks
    BY SinksAssumption DEF Sinks
  <2> QED
    BY <2>1 DEF Done, Untouched
<1>2. \A e \in Events : Status(e)' = Status(e)
  BY <1>1, StatusSame
<1>3. \A e \in Events : SeenBy(e)' = SeenBy(e)
  BY DEF SeenBy
<1> QED
  BY <1>2, <1>3

LEMMA TakeRefines ==
    ASSUME IInv, IInv', DispatchReceive
    PROVE  Delivery!Next
<1>1. /\ UNCHANGED <<filtered, dropped, lost, delivered, ctxDone, nClosed, produced>>
      /\ Holding' = Holding /\ wEvent' = wEvent
      /\ dispPc = "recv"
      /\ srcChan # <<>> /\ srcChan' = Tail(srcChan)
  BY DEF DispatchReceive, ctlVars, srcVars, wVars, sinkVars, Holding
<1>2. Len(srcChan) \in Nat /\ Len(srcChan) > 0 /\ Len(srcChan') = Len(srcChan) - 1
  BY <1>1, Receive DEF IInv, TypeOK, ChannelsTypeOK
<1>3. /\ produced \in Nat /\ produced <= NumEvents
      /\ Taken \in Nat /\ Taken' = Taken + 1
      /\ Taken + 1 \in Events
  BY <1>1, <1>2, SizesAssumption DEF IInv, TypeOK, ControlTypeOK, OrderInv, Taken, Events
<1> PICK e0 \in Events : e0 = Taken + 1
  BY <1>3
<1>4. nClosed = 0
  <2>1. ctl \notin {"closing", "stopped"}
    BY <1>1, InvStopDrainsQueue DEF StopDrainsQueue
  <2> QED
    BY <2>1, SinksAssumption DEF IInv, LifecycleInv, TypeOK, ControlTypeOK
<1>5. \A e \in Events : e \in Nat /\ (Done(e)' <=> Done(e)) /\ SeenBy(e)' = SeenBy(e)
  BY <1>1 DEF Done, SeenBy, Events
<1>6. \A e \in Events : StatusByCase(e) /\ StatusByCase(e)'
  BY StatusCases, StatusCasesAfter
<1>7. Status(e0) = "source" /\ Status(e0)' = "underway"
  <2>1. e0 > Taken /\ e0 <= Taken'
    BY <1>3
  <2>2. StatusByCase(e0) /\ StatusByCase(e0)' /\ (Done(e0)' <=> Done(e0))
    BY <1>3, <1>5, <1>6
  <2>3. Out' = Out
    BY <1>1 DEF Out
  <2> QED
    BY <2>1, <2>2, <2>3 DEF StatusByCase
<1>8. \A e \in Events : Status(e) = "source" => e0 <= e
  BY <1>3, <1>5, <1>6 DEF StatusByCase, Out
<1>9. ASSUME NEW e \in Events, e # e0
      PROVE  Status(e)' = Status(e)
  <2>1. e > Taken' <=> e > Taken
    BY <1>3, <1>5, <1>9
  <2> QED
    BY <1>1, <1>5, <2>1, StatusSame
<1>10. Delivery!Take(e0)
  <2>1. [e \in Events |-> Status(e)]' = [[e \in Events |-> Status(e)] EXCEPT ![e0] = "underway"]
    <3>1. \A e \in Events : Status(e)' = IF e = e0 THEN "underway" ELSE Status(e)
      BY <1>7, <1>9
    <3> QED
      BY <1>3, <3>1
  <2>2. UNCHANGED <<[e \in Events |-> SeenBy(e)], nClosed, ctxDone>>
    BY <1>1, <1>5
  <2> QED
    BY <1>3, <1>4, <1>7, <1>8, <2>1, <2>2 DEF Delivery!Take
<1> QED
  BY <1>3, <1>10 DEF Delivery!Next

\* An event that is under way and has reached no sink leaves the pipeline.
LEMMA LeaveRefines ==
    ASSUME IInv, IInv', NEW e0 \in Events, NEW fate \in {"filtered", "dropped", "lost"},
           Taken' = Taken, e0 <= Taken, e0 \notin Out, Untouched(e0),
           UNCHANGED <<delivered, nClosed, ctxDone>>,
           filtered' = IF fate = "filtered" THEN filtered \cup {e0} ELSE filtered,
           dropped' = IF fate = "dropped" THEN dropped \cup {e0} ELSE dropped,
           lost' = IF fate = "lost" THEN lost \cup {e0} ELSE lost,
           \A e \in Events : e # e0 =>
              ((\E w \in Holding : wEvent[w] = e)' <=> \E w \in Holding : wEvent[w] = e),
           \/ fate = "filtered" /\ Discards(e0)
           \/ fate = "dropped" /\ DropOnBackpressure
           \/ fate = "lost" /\ ctxDone /\ ~DropOnBackpressure
    PROVE  Delivery!Next
<1>1. 1 \in Sinks
  BY SinksAssumption DEF Sinks
<1>2. SeenBy(e0) = {} /\ ~Done(e0)
  BY <1>1 DEF Untouched, SeenBy, Done
<1>3. \A e \in Events : SeenBy(e)' = SeenBy(e)
  BY DEF SeenBy
<1>4. \A e \in Events : StatusByCase(e) /\ StatusByCase(e)'
  BY StatusCases, StatusCasesAfter
<1>5. Status(e0) = "underway" /\ Status(e0)' = fate
  BY <1>2, <1>4 DEF StatusByCase
<1>6. ASSUME NEW e \in Events, e # e0
      PROVE  Status(e)' = Status(e)
  <2>1. Done(e)' <=> Done(e)
    BY <1>6 DEF Done
  <2> QED
    BY <1>6, <2>1, StatusSame
<1>7. Delivery!Leave(e0, fate)
  BY <1>2, <1>3, <1>5, <1>6 DEF Delivery!Leave
<1> QED
  BY <1>7 DEF Delivery!Next, Delivery!Progress, Delivery!Statuses

\* A worker calls the next sink for the event it holds.
LEMMA DeliverRefines ==
    ASSUME IInv, IInv', NEW w \in Workers, WorkerDeliver(w)
    PROVE  Delivery!Next
<1>1. /\ UNCHANGED <<filtered, dropped, lost, nClosed, ctxDone, produced, srcChan, wEvent>>
      /\ wPc[w] = "deliver" /\ w \in Holding
      /\ delivered' = [delivered EXCEPT ![wNext[w]][wEvent[w]] = @ + 1]
      /\ wPc' = [wPc EXCEPT ![w] = IF wNext[w] = wLimit[w] THEN "recv" ELSE @]
  BY DEF WorkerDeliver, ctlVars, srcVars, dispVars, sinkVars, Holding
<1>2. /\ wEvent[w] \in Events
      /\ wNext[w] \in 1 .. wLimit[w]
      /\ wPc \in [Workers -> {"off", "recv", "busy", "deliver", "exited"}]
      /\ delivered \in [Sinks -> [Events -> Nat]]
      /\ nSinks \in Nat /\ nSinks <= MaxSinks
  BY <1>1, SinksAssumption DEF IInv, TypeOK, WorkersTypeOK, ControlTypeOK
<1>3. /\ ~Discards(wEvent[w])
      /\ wLimit[w] \in InitSinks .. nSinks
      /\ \A s \in Sinks : delivered[s][wEvent[w]] = IF s < wNext[w] THEN 1 ELSE 0
  BY <1>1 DEF IInv, ReachInv
<1> PICK e0 \in Events : e0 = wEvent[w]
  BY <1>2
<1>4. wNext[w] \in Sinks
  BY <1>2, <1>3, SinksAssumption DEF Sinks
<1> PICK s0 \in Sinks : s0 = wNext[w]
  BY <1>4
<1>5. 1 \in Sinks /\ \A s \in Sinks : s \in Nat /\ s >= 1
  BY SinksAssumption DEF Sinks
<1>6. /\ \A s \in Sinks : delivered[s][e0] = IF s < s0 THEN 1 ELSE 0
      /\ \A s \in Sinks : delivered'[s][e0] = IF s < s0 \/ s = s0 THEN 1 ELSE 0
  <2>1. \A s \in Sinks : delivered[s][e0] = IF s < s0 THEN 1 ELSE 0
    BY <1>3
  <2>2. \A s \in Sinks : delivered'[s][e0] = IF s = s0 THEN delivered[s][e0] + 1 ELSE delivered[s][e0]
    BY <1>1, <1>2
  <2> QED
    BY <1>5, <2>1, <2>2
<1>7. \A e \in Events, s \in Sinks : e # e0 => delivered'[s][e] = delivered[s][e]
  BY <1>1, <1>2
<1>8. SeenBy(e0) = 1 .. s0 - 1
  BY <1>5, <1>6, SinksAssumption DEF SeenBy, Sinks
<1>9. \A e \in Events : SeenBy(e)' = IF e = e0 THEN SeenBy(e) \cup {s0} ELSE SeenBy(e)
  <2>1. SeenBy(e0)' = SeenBy(e0) \cup {s0}
    BY <1>5, <1>6 DEF SeenBy
  <2>2. \A e \in Events : e # e0 => SeenBy(e)' = SeenBy(e)
    BY <1>7 DEF SeenBy
  <2> QED
    BY <2>1, <2>2
<1>10. /\ e0 \notin Out /\ e0 <= Taken /\ Taken' = Taken /\ Out' = Out
       /\ ~Done(e0)
  <2>1. PassedOn(e0) /\ e0 \notin Out
    BY <1>1 DEF IInv, ApartInv, Out
  <2>2. e0 <= Taken
    BY <2>1 DEF PassedOn
  <2>3. Taken' = Taken /\ Out' = Out
    BY <1>1 DEF Taken, Out
  <2>4. ~Done(e0)
    BY <1>1 DEF Done
  <2> QED
    BY <2>1, <2>2, <2>3, <2>4
<1>11. StatusByCase(e0) /\ StatusByCase(e0)'
  BY StatusCases, StatusCasesAfter
<1>12. Status(e0) = "underway"
  BY <1>10, <1>11 DEF StatusByCase
<1>13. ASSUME NEW e \in Events, e # e0
       PROVE  Status(e)' = Status(e)
  <2>1. \A v \in Workers : v \in Holding' /\ wEvent'[v] = e <=> v \in Holding /\ wEvent[v] = e
    BY <1>1, <1>2, <1>13 DEF Holding
  <2>2. Done(e)' <=> Done(e)
    BY <1>5, <1>7, <1>13, <2>1 DEF Done, Holding
  <2> QED
    BY <1>1, <1>10, <2>2, StatusSame
<1>14. CASE s0 = wLimit[w]
  <2>1. \A v \in Holding' : wEvent'[v] # e0
    BY <1>1, <1>2, <1>14 DEF IInv, ApartInv, Holding
  <2>2. delivered'[1][e0] > 0
    BY <1>5, <1>6
  <2>3. Done(e0)'
    BY <2>1, <2>2 DEF Done
  <2>4. Status(e0)' = "delivered"
    BY <1>11, <2>3 DEF StatusByCase
  <2>5. s0 >= InitSinks
    BY <1>3, <1>14
  <2>6. Delivery!Deliver(e0, s0)
    BY <1>1, <1>3, <1>8, <1>9, <1>12, <1>13, <2>4, <2>5 DEF Delivery!Deliver
  <2> QED
    BY <2>6 DEF Delivery!Next, Delivery!Progress, Sinks
<1>15. CASE s0 # wLimit[w]
  <2>1. w \in Holding'
    BY <1>1, <1>2, <1>15 DEF Holding
  <2>2. ~Done(e0)'
    BY <1>1, <2>1 DEF Done
  <2>3. Status(e0)' = "underway"
    BY <1>10, <1>11, <2>2 DEF StatusByCase
  <2>4. Delivery!Deliver(e0, s0)
    BY <1>1, <1>3, <1>8, <1>9, <1>12, <1>13, <2>3 DEF Delivery!Deliver
  <2> QED
    BY <2>4 DEF Delivery!Next, Delivery!Progress, Sinks
<1> QED
  BY <1>14, <1>15

\* Stop closes a sink: by then every event taken has been settled.
LEMMA CloseRefines ==
    ASSUME IInv, IInv', StopCloseSink
    PROVE  Delivery!Next
<1>1. /\ UNCHANGED <<ctxDone, srcVars, srcChan, dispVars, wVars>>
      /\ ctl = "closing" /\ nClosed < nSinks /\ nClosed' = nClosed + 1
  BY DEF StopCloseSink, ctlVars
<1>2. nSinks \in Nat /\ nClosed \in Nat /\ nSinks <= MaxSinks
  BY SinksAssumption DEF IInv, TypeOK, ControlTypeOK
<1>3. inChan = <<>> /\ dispPc # "send" /\ Holding = {}
  BY <1>1, InvStopDrainsQueue DEF StopDrainsQueue, IInv, LifecycleInv, WgIsZero, Holding
<1>4. ASSUME NEW e \in Events
      PROVE  Status(e) # "underway"
  <2>1. StatusByCase(e) /\ e \in Nat /\ Taken \in Nat
    BY StatusCases, BeforeThePool
  <2>2. ASSUME e <= Taken, e \notin Out
        PROVE  Done(e)
    <3>1. PassedOn(e) /\ e \notin InChannel(inChan)
      BY <1>3, <2>2, EmptySeq DEF PassedOn, InChannel
    <3>2. Complete(e)
      BY <1>3, <2>2, <3>1 DEF IInv, ReachInv, Out
    <3>3. delivered[1][e] = 1
      BY <3>2, SinksAssumption DEF Complete
    <3> QED
      BY <1>3, <3>3 DEF Done
  <2> QED
    BY <2>1, <2>2 DEF StatusByCase, Out
<1>5. UNCHANGED <<[e \in Events |-> Status(e)], [e \in Events |-> SeenBy(e)]>>
  <2>1. UNCHANGED <<Taken, filtered, dropped, lost, delivered, Holding, wEvent>>
    BY <1>1 DEF srcVars, dispVars, wVars, Taken, Holding
  <2> QED
    BY <2>1, SameView
<1>6. nClosed < MaxSinks
  BY <1>1, <1>2, SinksAssumption
<1>7. Delivery!UnderWay = {}
  BY <1>4 DEF Delivery!UnderWay
<1>8. Delivery!Close
  BY <1>1, <1>5, <1>6, <1>7 DEF Delivery!Close
<1> QED
  BY <1>8 DEF Delivery!Next

\* A step that leaves the sinks open and the context as it is, and no event
\* elsewhere than it was as far as the pipeline's user can tell, stutters.
LEMMA Stutters ==
    ASSUME IInv, IInv', UNCHANGED <<nClosed, ctxDone>>,
           Taken' = Taken, UNCHANGED <<filtered, dropped, lost, delivered>>,
           \A e \in Events :
              \/ Untouched(e)
              \/ (\E w \in Holding : wEvent[w] = e)' <=> \E w \in Holding : wEvent[w] = e
    PROVE  UNCHANGED Delivery!vars
BY SameView DEF Delivery!vars

LEMMA StartRefines ==
    ASSUME IInv, IInv', Start
    PROVE  UNCHANGED Delivery!vars
<1>1. UNCHANGED <<nClosed, ctxDone, produced, srcChan, filtered, dropped, lost, delivered, wEvent>>
  BY DEF Start, StartSource, StartFails, LaunchDispatcher, LaunchWorker, ctlVars,
         srcVars, dispVars, wVars, sinkVars
<1>2. Holding' = Holding
  <2>1. CASE UNCHANGED wPc
    BY <2>1 DEF Holding
  <2>2. CASE \E w \in Workers : LaunchWorker(w)
    BY <2>2 DEF LaunchWorker, Holding, IInv, TypeOK, WorkersTypeOK
  <2> QED
    BY <2>1, <2>2 DEF Start, StartSource, StartFails, LaunchDispatcher, wVars
<1>3. Taken' = Taken
  BY <1>1 DEF Taken
<1> QED
  BY <1>1, <1>2, <1>3, Stutters

\* The context's cancellation is visible, and nothing else of these steps is.
LEMMA ControlRefines ==
    ASSUME IInv, IInv',
           StopCancel \/ StopWait \/ StopReturn \/ AddSink \/ ParentCancel \/ Quiet
    PROVE  [Delivery!Next]_(Delivery!vars)
<1>1. /\ UNCHANGED <<nClosed, produced, srcChan, filtered, dropped, lost, delivered,
                     wEvent, wPc>>
      /\ ctxDone' = ctxDone \/ (~ctxDone /\ ctxDone' = TRUE)
  BY DEF StopCancel, StopWait, StopReturn, AddSink, ParentCancel, Quiet, vars, ctlVars,
         srcVars, dispVars, wVars, sinkVars, IInv, TypeOK, FlagsTypeOK
<1>2. Taken' = Taken /\ Holding' = Holding
  BY <1>1 DEF Taken, Holding
<1>3. UNCHANGED <<[e \in Events |-> Status(e)], [e \in Events |-> SeenBy(e)]>>
  BY <1>1, <1>2, SameView
<1>4. CASE ctxDone' = ctxDone
  BY <1>1, <1>3, <1>4 DEF Delivery!vars
<1>5. CASE ~ctxDone /\ ctxDone' = TRUE
  BY <1>1, <1>3, <1>5 DEF Delivery!Next, Delivery!Cancel
<1> QED
  BY <1>1, <1>4, <1>5

LEMMA SourceRefines ==
    ASSUME IInv, IInv', Source
    PROVE  UNCHANGED Delivery!vars
<1>1. UNCHANGED <<nClosed, ctxDone, filtered, dropped, lost, delivered, wEvent, wPc>>
  BY DEF Source, SourceEmit, SourceExit, ctlVars, dispVars, wVars, sinkVars
<1>2. Taken' = Taken
  <2>1. srcChan \in Seq(Events) /\ produced \in Nat /\ NumEvents \in Nat
    BY SizesAssumption DEF IInv, TypeOK, ChannelsTypeOK, ControlTypeOK
  <2>2. CASE SourceEmit
    <3>1. produced + 1 \in Events
      BY <2>1, <2>2 DEF SourceEmit, Events
    <3>2. Len(srcChan) \in Nat /\ Len(srcChan') = Len(srcChan) + 1
      BY <2>1, <2>2, <3>1, Send DEF SourceEmit
    <3> QED
      BY <2>1, <2>2, <3>2 DEF SourceEmit, Taken
  <2>3. CASE SourceExit
    BY <2>3 DEF SourceExit, Taken
  <2> QED
    BY <2>2, <2>3 DEF Source
<1>3. Holding' = Holding
  BY <1>1 DEF Holding
<1> QED
  BY <1>1, <1>2, <1>3, Stutters

\* The dispatcher takes an event, settles one or passes it on unseen.
LEMMA DispatcherRefines ==
    ASSUME IInv, IInv', Dispatcher
    PROVE  [Delivery!Next]_(Delivery!vars)
<1>1. CASE DispatchReceive
  BY <1>1, TakeRefines
<1>2. CASE DispatchSend \/ DispatchExit
  <2>1. UNCHANGED <<nClosed, ctxDone, produced, srcChan, filtered, dropped, lost,
                   delivered, wEvent, wPc>>
    BY <1>2 DEF DispatchSend, DispatchExit, ctlVars, srcVars, wVars, sinkVars
  <2>2. Taken' = Taken /\ Holding' = Holding
    BY <2>1 DEF Taken, Holding
  <2> QED
    BY <2>1, <2>2, Stutters
<1>3. CASE DispatchDrop \/ DispatchAbandon
  <2>1. /\ UNCHANGED <<nClosed, ctxDone, produced, srcChan, filtered, delivered,
                       wEvent, wPc>>
        /\ dispPc = "send"
    BY <1>3 DEF DispatchDrop, DispatchAbandon, ctlVars, srcVars, wVars, sinkVars
  <2>2. Taken' = Taken /\ Holding' = Holding
    BY <2>1 DEF Taken, Holding
  <2>3. dispEvent \in Events /\ dispEvent = Taken /\ ~PassedOn(dispEvent)
    BY <2>1 DEF IInv, TypeOK, DispatcherTypeOK, OrderInv, PassedOn
  <2> PICK e0 \in Events : e0 = dispEvent
    BY <2>3
  <2>4. e0 <= Taken /\ e0 \notin Out /\ Untouched(e0)
    <3>1. Taken \in Nat
      BY TakenNat
    <3> QED
      BY <2>3, <3>1 DEF IInv, ApartInv, ReachInv, Out
  <2>5. CASE DispatchDrop
    <3>1. dropped' = dropped \cup {e0} /\ lost' = lost /\ DropOnBackpressure
      BY <2>5 DEF DispatchDrop
    <3> QED
      BY <2>1, <2>2, <2>4, <3>1, LeaveRefines
  <2>6. CASE DispatchAbandon
    <3>1. lost' = lost \cup {e0} /\ dropped' = dropped /\ ctxDone /\ ~DropOnBackpressure
      BY <2>6 DEF DispatchAbandon
    <3> QED
      BY <2>1, <2>2, <2>4, <3>1, LeaveRefines
  <2> QED
    BY <1>3, <2>5, <2>6
<1> QED
  BY <1>1, <1>2, <1>3 DEF Dispatcher

LEMMA WorkerRefines ==
    ASSUME IInv, IInv', NEW w \in Workers, Worker(w)
    PROVE  [Delivery!Next]_(Delivery!vars)
<1>0. /\ wPc \in [Workers -> {"off", "recv", "busy", "deliver", "exited"}]
      /\ wEvent \in [Workers -> 0 .. NumEvents]
  BY DEF IInv, TypeOK, WorkersTypeOK
<1>1. CASE WorkerReceive(w)
  <2>1. /\ UNCHANGED <<nClosed, ctxDone, produced, srcChan, filtered, dropped, lost, delivered>>
        /\ inChan # <<>> /\ wPc[w] = "recv"
        /\ wPc' = [wPc EXCEPT ![w] = "busy"]
        /\ wEvent' = [wEvent EXCEPT ![w] = Head(inChan)]
    BY <1>1 DEF WorkerReceive, ctlVars, srcVars, dispVars, sinkVars
  <2>2. Head(inChan) \in InChannel(inChan) /\ Head(inChan) \in Events
    <3>1. inChan \in Seq(Events)
      BY DEF IInv, TypeOK, ChannelsTypeOK
    <3>2. Head(inChan) \in Events /\ Head(inChan) = inChan[1] /\ 1 \in 1 .. Len(inChan)
      BY <2>1, <3>1, Receive
    <3> QED
      BY <3>2 DEF InChannel
  <2>3. Untouched(Head(inChan))
    BY <2>2 DEF IInv, ReachInv
  <2>4. ASSUME NEW e \in Events, e # Head(inChan)
        PROVE  (\E v \in Holding : wEvent[v] = e)' <=> \E v \in Holding : wEvent[v] = e
    BY <1>0, <2>1, <2>4 DEF Holding
  <2>5. Taken' = Taken
    BY <2>1 DEF Taken
  <2> QED
    BY <2>1, <2>3, <2>4, <2>5, Stutters
<1>2. CASE WorkerDiscard(w)
  <2>1. /\ UNCHANGED <<nClosed, ctxDone, produced, srcChan, dropped, lost, delivered, wEvent>>
        /\ wPc[w] = "busy" /\ w \in Holding
        /\ wPc' = [wPc EXCEPT ![w] = "recv"]
        /\ filtered' = filtered \cup {wEvent[w]}
        /\ Discards(wEvent[w])
    BY <1>2 DEF WorkerDiscard, ctlVars, srcVars, dispVars, sinkVars, Holding
  <2>2. wEvent[w] \in Events
    BY <2>1 DEF IInv, TypeOK, WorkersTypeOK
  <2> PICK e0 \in Events : e0 = wEvent[w]
    BY <2>2
  <2>3. e0 <= Taken /\ e0 \notin Out /\ Untouched(e0)
    BY <2>1 DEF IInv, ApartInv, ReachInv, PassedOn, Out
  <2>4. ASSUME NEW e \in Events, e # e0
        PROVE  (\E v \in Holding : wEvent[v] = e)' <=> \E v \in Holding : wEvent[v] = e
    BY <1>0, <2>1, <2>4 DEF Holding
  <2>5. Taken' = Taken
    BY <2>1 DEF Taken
  <2> QED
    BY <2>1, <2>3, <2>4, <2>5, LeaveRefines
<1>3. CASE WorkerSnapshotSinks(w) \/ WorkerExit(w)
  <2>1. /\ UNCHANGED <<nClosed, ctxDone, produced, srcChan, filtered, dropped, lost,
                      delivered, wEvent>>
        /\ \/ wPc[w] = "busy" /\ wPc' = [wPc EXCEPT ![w] = "deliver"]
           \/ wPc[w] = "recv" /\ wPc' = [wPc EXCEPT ![w] = "exited"]
    BY <1>3 DEF WorkerSnapshotSinks, WorkerExit, ctlVars, srcVars, dispVars, wVars, sinkVars
  <2>2. Holding' = Holding
    BY <1>0, <2>1 DEF Holding
  <2>3. Taken' = Taken
    BY <2>1 DEF Taken
  <2> QED
    BY <2>1, <2>2, <2>3, Stutters
<1>4. CASE WorkerDeliver(w)
  BY <1>4, DeliverRefines
<1> QED
  BY <1>1, <1>2, <1>3, <1>4 DEF Worker

LEMMA StepRefines ==
    ASSUME IInv, IInv', [Next]_vars
    PROVE  [Delivery!Next]_(Delivery!vars)
<1>1. CASE UNCHANGED vars
  <2>1. UNCHANGED <<nClosed, ctxDone, produced, srcChan, filtered, dropped, lost,
                   delivered, wEvent, wPc>>
    BY <1>1 DEF vars, ctlVars, srcVars, dispVars, wVars, sinkVars
  <2>2. Taken' = Taken /\ Holding' = Holding
    BY <2>1 DEF Taken, Holding
  <2> QED
    BY <2>1, <2>2, Stutters
<1>2. CASE Start
  BY <1>2, StartRefines
<1>3. CASE StopCloseSink
  BY <1>3, CloseRefines
<1>4. CASE StopCancel \/ StopWait \/ StopReturn \/ AddSink \/ ParentCancel \/ Quiet
  BY <1>4, ControlRefines
<1>5. CASE Source
  BY <1>5, SourceRefines
<1>6. CASE Dispatcher
  BY <1>6, DispatcherRefines
<1>7. CASE \E w \in Workers : Worker(w)
  BY <1>7, WorkerRefines
<1> QED
  BY <1>1, <1>2, <1>3, <1>4, <1>5, <1>6, <1>7 DEF Next, Stop

-----------------------------------------------------------------------------
\* Whatever the numbers of events, workers and sinks, the queue sizes and the
\* configuration, goroutines and channels together behave like the abstract
\* pipeline: events leave the source in order, each is handed to the sinks in
\* the order of their registration or leaves it filtered, dropped or lost, and
\* Stop closes a sink only when none is under way.
THEOREM EngineImplementsDelivery == Spec => ImplementsDelivery
<1>1. Init => Delivery!Init
  BY InitRefines
<1>2. IInv /\ IInv' /\ [Next]_vars => [Delivery!Next]_(Delivery!vars)
  BY StepRefines
<1>3. Spec => []IInv
  BY Invariance
<1> QED
  BY <1>1, <1>2, <1>3, PTL DEF Spec, ImplementsDelivery, Delivery!Spec
=============================================================================
