----------------------------- MODULE LiveSource -----------------------------
(***************************************************************************)
(* The live sources: a reader goroutine takes packets off a raw socket     *)
(* (net/capture_linux.go) or frames off a serial device (hw/serial.go) and *)
(* sends them on a channel.  In the pipeline a second goroutine, the       *)
(* forwarder (the adapter of the tools for packets, SerialSource for       *)
(* frames), numbers them and sends them on to the dispatcher; the direct   *)
(* commands (runCapture, runSerial) range over the first channel.          *)
(* A step is one system call, one channel operation or one select.  The    *)
(* descriptor is a number that the kernel gives to the next open once it   *)
(* is free: numOwner says whose it is.                                     *)
(***************************************************************************)
EXTENDS Naturals, Sequences, SequencesExt

CONSTANTS Setups,     \* pairs <<kind, tool>>: {"raw", "serial"} x {"engine", "direct"}
          MaxItems,   \* bound on packets or frames that arrive
          Garbage,    \* arrivals that the dissector rejects
          Cap         \* capacity of both channels (128/128 and 64/64 in the code)

ASSUME SourceConstants ==
  /\ Setups \subseteq {"raw", "serial"} \X {"engine", "direct"}
  /\ MaxItems \in Nat /\ Cap \in Nat \ {0} /\ Garbage \subseteq 1..MaxItems

VARIABLES setup,      \* the source and the tool of this execution
          ctl,        \* main: "idle", "running", "stopping", "done", "failed"
          ctxDone,    \* ctx.Done() is closed
          handle,     \* c.fd >= 0, or sm.file # nil
          numOwner,   \* owner of the descriptor number
          foreign,    \* a close() hit a number that was not the source's
          rdPc, rdItem, arrived,        \* reader goroutine
          out1, out1Closed,             \* packetChan, frameChan
          fwPc, fwItem, fwId,           \* forwarder goroutine
          out2, out2Closed,             \* outChan
          dispPc, received              \* the consumer and what it got
vars == <<setup, ctl, ctxDone, handle, numOwner, foreign, rdPc, rdItem, arrived, out1,
          out1Closed, fwPc, fwItem, fwId, out2, out2Closed, dispPc, received>>
rdVars  == <<rdPc, rdItem, arrived, out1, out1Closed>>
fwVars  == <<fwPc, fwItem, fwId, out2, out2Closed>>
fdVars  == <<handle, numOwner, foreign>>
conVars == <<dispPc, received>>

Raw    == setup[1] = "raw"
Engine == setup[2] = "engine"
\* What passes the dissector: every frame, and every packet that is not garbage.
Passes(i) == ~Raw \/ i \notin Garbage

Init ==
  /\ setup \in Setups
  /\ ctl = "idle" /\ ctxDone = FALSE
  /\ handle = FALSE /\ numOwner = "free" /\ foreign = FALSE
  /\ rdPc = "none" /\ rdItem = 0 /\ arrived = 0 /\ out1 = <<>> /\ out1Closed = FALSE
  /\ fwPc = "none" /\ fwItem = 0 /\ fwId = 0 /\ out2 = <<>> /\ out2Closed = FALSE
  /\ dispPc = "none" /\ received = <<>>

\* close(fd): the number is given back whoever has it.
CloseNumber == numOwner' = "free" /\ foreign' = (foreign \/ numOwner # "source")
\* Closing an os.File a second time is refused before the system call.
CloseFile == IF numOwner = "source" THEN CloseNumber ELSE UNCHANGED <<numOwner, foreign>>

-----------------------------------------------------------------------------
(* main *)

\* The source opens: goroutines run, c.fd or sm.file is set.
Start ==
  /\ ctl = "idle" /\ ctl' = "running"
  /\ handle' = TRUE /\ numOwner' = "source"
  /\ rdPc' = "check" /\ dispPc' = "take"
  /\ fwPc' = IF Engine THEN "take" ELSE "none"
  /\ UNCHANGED <<setup, ctxDone, foreign, rdItem, arrived, out1, out1Closed, fwItem, fwId,
                 out2, out2Closed, received>>

\* The open fails, or (raw socket) a later step does: the number is closed but c.fd
\* keeps it.  The tools exit.
StartFails ==
  /\ ctl = "idle" /\ ctl' = "failed"
  /\ handle' \in {FALSE, Raw}
  /\ UNCHANGED <<setup, ctxDone, numOwner, foreign, rdVars, fwVars, conVars>>

\* SIGINT: the handler goroutine cancels the context.
Signal ==
  /\ ctl = "running" /\ ~ctxDone /\ ctxDone' = TRUE
  /\ UNCHANGED <<setup, ctl, fdVars, rdVars, fwVars, conVars>>

\* Mutant: the monitor closes the number it remembers, as the capture does.
CloseSourceByNumber ==
  /\ Engine /\ ctl = "running" /\ ctxDone /\ ctl' = "stopping"
  /\ handle' = FALSE
  /\ IF handle THEN CloseNumber ELSE UNCHANGED <<numOwner, foreign>>
  /\ UNCHANGED <<setup, ctxDone, rdVars, fwVars, conVars>>

\* Engine.Stop after the cancellation: Source.Close.
\* The capture closes the number it remembers, the monitor its os.File.
CloseSource ==
  /\ Engine /\ ctl = "running" /\ ctxDone /\ ctl' = "stopping"
  /\ handle' = FALSE
  /\ CASE ~handle      -> UNCHANGED <<numOwner, foreign>>
       [] handle /\ Raw -> CloseNumber
       [] OTHER        -> CloseFile
  /\ UNCHANGED <<setup, ctxDone, rdVars, fwVars, conVars>>

\* Stop has waited for the workers, which end after the dispatcher; the direct
\* commands return when their channel is closed.
Finish ==
  /\ ctl = IF Engine THEN "stopping" ELSE "running"
  /\ dispPc = "exited" /\ ctl' = "done"
  /\ UNCHANGED <<setup, ctxDone, fdVars, rdVars, fwVars, conVars>>

\* Another part of the process opens a file: it gets the lowest free number.
OtherOpens ==
  /\ ctl # "idle" /\ numOwner = "free" /\ numOwner' = "other"
  /\ UNCHANGED <<setup, ctl, ctxDone, handle, foreign, rdVars, fwVars, conVars>>

-----------------------------------------------------------------------------
(* reader goroutine *)

\* Mutant: the deferred close of the channel is missing.
ReaderReturnsOpen ==
  /\ rdPc' = "exited" /\ rdItem' = 0 /\ UNCHANGED out1Closed
  /\ IF Raw THEN CloseNumber ELSE CloseFile

\* return: the deferred close of the descriptor, then of the channel.
ReaderReturns ==
  /\ rdPc' = "exited" /\ out1Closed' = TRUE /\ rdItem' = 0
  /\ IF Raw THEN CloseNumber ELSE CloseFile

ReaderCheck ==
  /\ rdPc = "check"
  /\ IF ctxDone
     THEN ReaderReturns
     ELSE rdPc' = "recv" /\ UNCHANGED <<out1Closed, rdItem, numOwner, foreign>>
  /\ UNCHANGED <<setup, ctl, ctxDone, handle, arrived, out1, fwVars, conVars>>

\* Recvfrom or ReadNextFrame returns data.
ReaderGets ==
  /\ rdPc = "recv" /\ arrived < MaxItems /\ arrived' = arrived + 1
  /\ IF Passes(arrived + 1)
     THEN rdPc' = "send" /\ rdItem' = arrived + 1
     ELSE rdPc' = "check" /\ UNCHANGED rdItem
  /\ UNCHANGED <<setup, ctl, ctxDone, fdVars, out1, out1Closed, fwVars, conVars>>

\* It returns an error: the capture goes on unless cancelled, the monitor ends.
ReaderFails ==
  /\ rdPc = "recv"
  /\ IF Raw /\ ~ctxDone
     THEN rdPc' = "check" /\ UNCHANGED <<out1Closed, rdItem, numOwner, foreign>>
     ELSE ReaderReturns
  /\ UNCHANGED <<setup, ctl, ctxDone, handle, arrived, out1, fwVars, conVars>>

ReaderSends ==
  /\ rdPc = "send" /\ Len(out1) < Cap
  /\ out1' = Append(out1, rdItem) /\ rdPc' = "check" /\ rdItem' = 0
  /\ UNCHANGED <<setup, ctl, ctxDone, fdVars, arrived, out1Closed, fwVars, conVars>>

\* Mutant: the send gives up when the channel is full, context or not.
ReaderAbandonsWhenFull ==
  /\ rdPc = "send" /\ (ctxDone \/ Len(out1) = Cap) /\ ReaderReturns
  /\ UNCHANGED <<setup, ctl, ctxDone, handle, arrived, out1, fwVars, conVars>>

ReaderAbandons ==
  /\ rdPc = "send" /\ ctxDone /\ ReaderReturns
  /\ UNCHANGED <<setup, ctl, ctxDone, handle, arrived, out1, fwVars, conVars>>

-----------------------------------------------------------------------------
(* forwarder goroutine *)

ForwarderTakes ==
  /\ fwPc = "take" /\ out1 # <<>>
  /\ fwItem' = Head(out1) /\ out1' = Tail(out1) /\ fwId' = fwId + 1 /\ fwPc' = "send"
  /\ UNCHANGED <<setup, ctl, ctxDone, fdVars, rdPc, rdItem, arrived, out1Closed, out2,
                 out2Closed, conVars>>

ForwarderSends ==
  /\ fwPc = "send" /\ Len(out2) < Cap
  /\ out2' = Append(out2, <<fwId, fwItem>>) /\ fwPc' = "take" /\ fwItem' = 0
  /\ UNCHANGED <<setup, ctl, ctxDone, fdVars, rdVars, fwId, out2Closed, conVars>>

\* Mutant: the forwarder never looks at the context.
ForwarderReturnsAtEnd ==
  /\ fwPc = "take" /\ out1 = <<>> /\ out1Closed
  /\ fwPc' = "exited" /\ out2Closed' = TRUE /\ fwItem' = 0
  /\ UNCHANGED <<setup, ctl, ctxDone, fdVars, rdVars, fwId, out2, conVars>>

\* End of the channel; or, SerialSource only, the context while waiting to send.
ForwarderReturns ==
  /\ \/ fwPc = "take" /\ out1 = <<>> /\ out1Closed
     \/ fwPc = "send" /\ ctxDone /\ ~Raw
  /\ fwPc' = "exited" /\ out2Closed' = TRUE /\ fwItem' = 0
  /\ UNCHANGED <<setup, ctl, ctxDone, fdVars, rdVars, fwId, out2, conVars>>

-----------------------------------------------------------------------------
(* the consumer: the dispatcher of the engine, or the loop of a direct command *)

ConsumerTakes ==
  /\ dispPc = "take"
  /\ IF Engine
     THEN /\ out2 # <<>> /\ received' = Append(received, Head(out2)) /\ out2' = Tail(out2)
          /\ UNCHANGED out1
     ELSE /\ out1 # <<>> /\ received' = Append(received, <<Len(received) + 1, Head(out1)>>)
          /\ out1' = Tail(out1) /\ UNCHANGED out2
  /\ UNCHANGED <<setup, ctl, ctxDone, fdVars, rdPc, rdItem, arrived, out1Closed, fwPc, fwItem,
                 fwId, out2Closed, dispPc>>

ConsumerReturns ==
  /\ dispPc = "take"
  /\ IF Engine THEN ctxDone \/ (out2 = <<>> /\ out2Closed) ELSE out1 = <<>> /\ out1Closed
  /\ dispPc' = "exited"
  /\ UNCHANGED <<setup, ctl, ctxDone, fdVars, rdVars, fwVars, received>>

-----------------------------------------------------------------------------

Main == CloseSource \/ Finish
Reader == ReaderCheck \/ ReaderGets \/ ReaderFails \/ ReaderSends \/ ReaderAbandons
Forwarder == ForwarderTakes \/ ForwarderSends \/ ForwarderReturns
Consumer == ConsumerTakes \/ ConsumerReturns

Next == Start \/ StartFails \/ Signal \/ OtherOpens \/ Main \/ Reader \/ Forwarder \/ Consumer

Spec == Init /\ [][Next]_vars

\* Goroutines run; a blocked read returns sooner or later, with data or an error
\* (traffic on the interface, a device that answers or is closed).
FairSpec == Spec /\ WF_vars(Main) /\ WF_vars(Reader) /\ WF_vars(Forwarder) /\ WF_vars(Consumer)

-----------------------------------------------------------------------------
(* Properties *)

\* Everything on its way from the reader to the consumer, oldest first.
Items(numbered) == [i \in DOMAIN numbered |-> numbered[i][2]]
InHand(item) == IF item = 0 THEN <<>> ELSE <<item>>
InTransit == Items(received) \o Items(out2) \o InHand(fwItem) \o out1 \o InHand(rdItem)

\* s lists the members of S in increasing order; what arrived first and passes.
Lists(s, S) == ToSet(s) = S /\ \A i, j \in DOMAIN s : i < j => s[i] < s[j]
Passed(n) == {i \in 1..n : Passes(i)}

\* Across two channels and two goroutines nothing is duplicated, reordered or,
\* before the context is cancelled, lost; the consumer sees the numbers 1, 2, 3, ...
\* and the k-th number is the k-th arrival (the IDs set by the forwarder).
NothingLostInTransit ==
  /\ IF ctxDone THEN \E n \in 0..arrived : Lists(Items(received), Passed(n))
                ELSE Lists(InTransit, Passed(arrived))
  /\ \A i \in DOMAIN received : received[i][1] = i

\* However the goroutine's own close and Close interleave, neither closes a number
\* that is no longer the source's.  Not so for the capture under the engine: Close
\* closes the number in c.fd, which the goroutine's defer may have given back already.
NeverClosesForeign == ~(Raw /\ Engine) => ~foreign

\* After a cancellation both goroutines of the source end.  (engine.go:204, Stop
\* "closes the source".)
SourceEnded == rdPc = "exited" /\ fwPc \notin {"take", "send"}
CancelEndsSource == ctxDone ~> SourceEnded

\* They do where every wait of theirs selects on the context, the tools' adapter
\* between the capture and the engine excepted.
CancelEndsSelectingSource == ctxDone /\ ~(Raw /\ Engine) ~> SourceEnded

\* Stop of an engine with a raw source, and every direct command, returns after
\* a signal, even when the forwarder is stuck.
SignalEndsTool == ctxDone ~> (ctl = "done" /\ rdPc = "exited")
=============================================================================
