----------------------------- MODULE RecentLog -----------------------------
(***************************************************************************)
(* What RingBufferSink promises: the last Capacity events it was given,    *)
(* oldest first.                                                           *)
(***************************************************************************)
EXTENDS Naturals, Sequences

CONSTANTS Event, Capacity

VARIABLE recent

Init == recent = <<>>

Record(e) ==
    recent' = IF Len(recent) < Capacity
                THEN Append(recent, e)
                ELSE Append(Tail(recent), e)

Next == \E e \in Event : Record(e)

Spec == Init /\ [][Next]_recent
=============================================================================
