---------------------------- MODULE MCDissector ----------------------------
\* Frames for Dissector: lengths on both sides of every comparison of the code.
EXTENDS Dissector

Base == [wire |-> 100, etype |-> "IPv4", ver |-> 4, ihl |-> 5, total |-> 40, proto |-> "TCP",
         doff |-> 5, src |-> "a", dst |-> "b", sport |-> 80, dport |-> 7]

IPv4Frames ==
  {[Base EXCEPT !.wire = 14 + n, !.ihl = h, !.total = t, !.proto = p, !.doff = d] :
     n \in {0, 19, 20, 23, 24, 28, 40, 44, 60}, h \in {4, 5, 6},
     t \in {0, 20, 23, 24, 40, 44, 45},
     p \in {"TCP", "UDP", "ICMP", "other"}, d \in {0, 6, 15}}
IPv6Frames ==
  {[Base EXCEPT !.wire = 14 + n, !.etype = "IPv6", !.ver = v, !.total = t, !.proto = p, !.doff = 6] :
     n \in {0, 39, 40, 47, 48, 60, 64, 70}, v \in {4, 6}, t \in {0, 7, 8, 20, 24, 30, 1000},
     p \in {"TCP", "UDP", "ICMP", "other"}}
OtherFrames ==
  {[Base EXCEPT !.wire = w, !.etype = e, !.ver = v] :
     w \in {0, 13, 14, 41, 42, 60}, e \in {"ARP", "other", "IPv4"}, v \in {4, 6}}

LengthFrames == IPv4Frames \cup IPv6Frames \cup OtherFrames

\* Complete frames of every kind, with ports and addresses of both directions.
FilterFrames ==
  {[Base EXCEPT !.etype = e, !.ver = IF e = "IPv6" THEN 6 ELSE 4, !.proto = p, !.sport = s,
      !.dport = d, !.src = a] :
     e \in {"IPv4", "IPv6", "ARP", "other"}, p \in {"TCP", "UDP", "ICMP"},
     s \in {7, 80}, d \in {7, 80}, a \in {"a", "c"}}
  \cup {[Base EXCEPT !.wire = 13], [Base EXCEPT !.ihl = 4]}

\* Every length with every filter.
AllFrames == LengthFrames \cup FilterFrames

Ports == {0, 7, 65536 + 80}
AllProtos == {"", "tcp", "udp", "icmp", "arp", "ip", "ipv6", "sctp"}
Hosts == {{}, {"a"}, {"b", "c"}, {"d"}}
=============================================================================
