----------------------------- MODULE MCStatsSink -----------------------------
(* Model-checking instances of StatsSink.                                  *)
EXTENDS StatsSink, TLC

\* One event of each shape OnEvent distinguishes.
AnEvent(bytes, error, latency, l3, l4) ==
    [bytes |-> bytes, error |-> error, latency |-> latency, l3 |-> l3, l4 |-> l4]

TCPPacket == AnEvent(3, FALSE, 2, "IPv4Count", "TCPCount")
Malformed == AnEvent(1, TRUE, 1, "none", "OtherCount")
SerialFrame == AnEvent(2, FALSE, 3, "none", "SerialCount")
ARPPacket == AnEvent(2, FALSE, 0, "ARPCount", "OtherCount")
TooShort == AnEvent(1, TRUE, 0, "none", "OtherCount")

MCPool == 1 .. 3
MCInfo == (1 :> TCPPacket) @@ (2 :> Malformed) @@ (3 :> SerialFrame)

\* Two callers of Snapshot need fewer kinds of event, but several in a row.
SnapPool == 1 .. 2
SnapInfo == (1 :> TooShort) @@ (2 :> ARPPacket)
=============================================================================
