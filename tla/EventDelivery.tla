---------------------------- MODULE EventDelivery ----------------------------
(***************************************************************************)
(* What the pipeline promises to whoever configures it, without goroutines *)
(* and channels: events leave the source in order; one that has left it is *)
(* filtered, dropped, lost or handed once to each sink, in the order the   *)
(* sinks were registered; sinks are closed only when nothing is under way. *)
(***************************************************************************)
EXTENDS Naturals

CONSTANTS
    Events,      \* 1..n, in the order of the source
    MaxSinks,
    InitSinks,   \* sinks registered from the start: every event reaches them
    MayDrop,     \* events may be dropped when the pipeline is full
    Unwanted     \* the events the filter discards

VARIABLES
    status,      \* per event
    seen,        \* per event: the sinks that were given it
    closed,      \* sinks 1..closed are closed
    cancelled

vars == <<status, seen, closed, cancelled>>

Statuses == {"source", "underway", "delivered", "filtered", "dropped", "lost"}

UnderWay == {e \in Events : status[e] = "underway"}

Init ==
    /\ status = [e \in Events |-> "source"]
    /\ seen = [e \in Events |-> {}]
    /\ closed = 0
    /\ cancelled = FALSE

\* The oldest event still in the source enters the pipeline.
Take(e) ==
    /\ status[e] = "source"
    /\ \A f \in Events : status[f] = "source" => e <= f
    /\ closed = 0
    /\ status' = [status EXCEPT ![e] = "underway"]
    /\ UNCHANGED <<seen, closed, cancelled>>

\* An event leaves the pipeline without reaching a sink.
Leave(e, fate) ==
    /\ status[e] = "underway"
    /\ seen[e] = {}
    /\ \/ fate = "filtered" /\ e \in Unwanted
       \/ fate = "dropped" /\ MayDrop
       \/ fate = "lost" /\ cancelled /\ ~MayDrop
    /\ status' = [status EXCEPT ![e] = fate]
    /\ UNCHANGED <<seen, closed, cancelled>>

\* The next sink in the order of registration is given the event; it may be
\* the last one.
Deliver(e, s) ==
    /\ status[e] = "underway"
    /\ e \notin Unwanted
    /\ seen[e] = 1 .. s - 1
    /\ seen' = [seen EXCEPT ![e] = @ \cup {s}]
    /\ \/ status' = status
       \/ s >= InitSinks /\ status' = [status EXCEPT ![e] = "delivered"]
    /\ UNCHANGED <<closed, cancelled>>

Close ==
    /\ UnderWay = {}
    /\ closed < MaxSinks
    /\ closed' = closed + 1
    /\ UNCHANGED <<status, seen, cancelled>>

Cancel ==
    /\ ~cancelled
    /\ cancelled' = TRUE
    /\ UNCHANGED <<status, seen, closed>>

Progress(e) ==
    \/ \E s \in 1 .. MaxSinks : Deliver(e, s)
    \/ \E fate \in Statuses : Leave(e, fate)

Next ==
    \/ \E e \in Events : Take(e) \/ Progress(e)
    \/ Close
    \/ Cancel

Spec == Init /\ [][Next]_vars

\* Nothing stays under way for ever.
FairSpec == Spec /\ \A e \in Events : WF_vars(Progress(e))
=============================================================================
