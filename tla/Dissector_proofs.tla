-------------------------- MODULE Dissector_proofs --------------------------
(***************************************************************************)
(* Proofs about Dissector, for every frame: any captured length with any   *)
(* values of the header fields, and every combination of the filter flags. *)
(***************************************************************************)
EXTENDS Dissector, TLAPS

-----------------------------------------------------------------------------
(* The dissector.                                                          *)

\* What each layer needs of the frame.
L3Size(f, l3) == CASE l3 = "IPv4" -> f.ihl * 4 [] l3 = "IPv6" -> 40 [] l3 = "ARP" -> 28
                   [] OTHER -> 0
L4Size(l4) == CASE l4 = "TCP" -> 20 [] l4 = "UDP" -> 8 [] l4 = "ICMP" -> 4 [] OTHER -> 0

\* A dissected packet of f whose network layer is l3 and lies before low, with a
\* transport layer and a payload inside low..high.
Inside(p, l3, low, high) ==
  /\ p.err = FALSE /\ p.panic = FALSE /\ p.l3 = l3
  /\ p.l4 \in {"none", "TCP", "UDP", "ICMP"}
  /\ p.from \in Nat /\ p.to \in Nat
  /\ low + L4Size(p.l4) <= p.from /\ p.from <= p.to /\ p.to = high

\* dissectL4 keeps the payload in the segment it is given, behind the layer it reports.
LEMMA DissectL4Inside ==
    ASSUME NEW f \in FrameType, NEW l3, NEW low \in Nat, NEW high \in Nat, low <= high
    PROVE  Inside(DissectL4(f, l3, low, high), l3, low, high)
<1>1. f.doff \in Nat /\ f.proto \in {"TCP", "UDP", "ICMP", "other"}
  BY DEF FrameType
<1>2. L4Size("none") = 0 /\ L4Size("TCP") = 20 /\ L4Size("UDP") = 8 /\ L4Size("ICMP") = 4
  BY DEF L4Size
<1>3. CASE f.proto = "TCP"
  <2>1. CASE high - low < 20
    <3>1. DissectL4(f, l3, low, high) = Packet(FALSE, l3, "none", low, high)
      BY <1>3, <2>1 DEF DissectL4
    <3> QED
      BY <1>2, <3>1 DEF Inside, Packet
  <2>2. CASE ~(high - low < 20)
    <3>1. PICK skip : skip = IF f.doff * 4 > high - low \/ f.doff * 4 < 20 THEN 20
                             ELSE f.doff * 4
      OBVIOUS
    <3>2. skip \in Nat /\ 20 <= skip /\ skip <= high - low
      BY <1>1, <2>2, <3>1
    <3>3. DissectL4(f, l3, low, high) = Packet(FALSE, l3, "TCP", low + skip, high)
      BY <1>3, <2>2, <3>1 DEF DissectL4
    <3> QED
      BY <1>2, <3>2, <3>3 DEF Inside, Packet
  <2> QED
    BY <2>1, <2>2
<1>4. CASE f.proto = "UDP"
  <2>1. CASE high - low < 8
    <3>1. DissectL4(f, l3, low, high) = Packet(FALSE, l3, "none", low, high)
      BY <1>4, <2>1 DEF DissectL4
    <3> QED
      BY <1>2, <3>1 DEF Inside, Packet
  <2>2. CASE ~(high - low < 8)
    <3>1. DissectL4(f, l3, low, high) = Packet(FALSE, l3, "UDP", low + 8, high)
      BY <1>4, <2>2 DEF DissectL4
    <3> QED
      BY <1>2, <2>2, <3>1 DEF Inside, Packet
  <2> QED
    BY <2>1, <2>2
<1>5. CASE f.proto = "ICMP"
  <2>1. CASE high - low < 4
    <3>1. DissectL4(f, l3, low, high) = Packet(FALSE, l3, "none", low, high)
      BY <1>5, <2>1 DEF DissectL4
    <3> QED
      BY <1>2, <3>1 DEF Inside, Packet
  <2>2. CASE ~(high - low < 4)
    <3>1. DissectL4(f, l3, low, high) = Packet(FALSE, l3, "ICMP", low + 4, high)
      BY <1>5, <2>2 DEF DissectL4
    <3> QED
      BY <1>2, <2>2, <3>1 DEF Inside, Packet
  <2> QED
    BY <2>1, <2>2
<1>6. CASE f.proto = "other"
  <2>1. DissectL4(f, l3, low, high) = Packet(FALSE, l3, "none", low, high)
    BY <1>6 DEF DissectL4
  <2> QED
    BY <1>2, <2>1 DEF Inside, Packet
<1> QED
  BY <1>1, <1>3, <1>4, <1>5, <1>6

\* The packet of a frame: nil, a panic, an undecoded network layer, or layers whose
\* headers are before the payload and whose payload is in the frame.
Decoded(f, p) ==
  \/ p = NilPacket
  \/ p.panic = TRUE /\ p.err = FALSE
  \/ /\ f.etype # "other"
     /\ \E n \in Nat : n = f.wire - 14 /\ p = Packet(TRUE, "none", "none", 0, n)
  \/ /\ f.etype = "other"
     /\ \E n \in Nat : n = f.wire - 14 /\ p = Packet(FALSE, "none", "none", 0, n)
  \/ \E high \in Nat :
       /\ f.etype = "IPv4" /\ high <= f.wire - 14 /\ high <= f.total
       /\ Inside(p, "IPv4", f.ihl * 4, high)
  \/ \E high \in Nat :
       /\ f.etype = "IPv6" /\ high <= f.wire - 14 /\ high <= 40 + f.total
       /\ Inside(p, "IPv6", 40, high)
  \/ f.etype = "ARP" /\ p.l4 = "none" /\ Inside(p, "ARP", 28, f.wire - 14)

\* An IPv4 packet is cut to its total length and to what was captured.
LEMMA DissectIPv4Decoded ==
    ASSUME NEW f \in FrameType, f.etype = "IPv4", NEW n \in Nat, n = f.wire - 14
    PROVE  Decoded(f, DissectIPv4(f, n))
<1>1. f.ihl \in Nat /\ f.total \in Nat /\ f.ver \in Nat /\ f.wire \in Nat
  BY DEF FrameType
<1>2. CASE n < 20 \/ f.ver # 4 \/ n < f.ihl * 4 \/ f.ihl * 4 < 20
  BY <1>2 DEF DissectIPv4, Decoded
<1>3. CASE ~(n < 20 \/ f.ver # 4 \/ n < f.ihl * 4 \/ f.ihl * 4 < 20)
  <2>1. PICK total : total = IF f.total > n THEN n ELSE f.total
    OBVIOUS
  <2>2. total \in Nat /\ total <= n /\ total <= f.total /\ f.ihl * 4 \in Nat
    BY <1>1, <2>1
  <2>3. CASE total < f.ihl * 4
    <3>1. DissectIPv4(f, n) = [Packet(FALSE, "IPv4", "none", 0, 0) EXCEPT !.panic = TRUE]
      BY <1>3, <2>1, <2>3 DEF DissectIPv4
    <3> QED
      BY <3>1 DEF Decoded, Packet
  <2>4. CASE ~(total < f.ihl * 4)
    <3>1. DissectIPv4(f, n) = DissectL4(f, "IPv4", f.ihl * 4, total)
      BY <1>3, <2>1, <2>4 DEF DissectIPv4
    <3>2. Inside(DissectL4(f, "IPv4", f.ihl * 4, total), "IPv4", f.ihl * 4, total)
      BY <2>2, <2>4, DissectL4Inside
    <3> QED
      BY <2>2, <3>1, <3>2 DEF Decoded
  <2> QED
    BY <2>3, <2>4
<1> QED
  BY <1>2, <1>3

\* An IPv6 packet is cut to its payload length and to what was captured.
LEMMA DissectIPv6Decoded ==
    ASSUME NEW f \in FrameType, f.etype = "IPv6", NEW n \in Nat, n = f.wire - 14
    PROVE  Decoded(f, DissectIPv6(f, n))
<1>1. f.total \in Nat /\ f.ver \in Nat /\ f.wire \in Nat
  BY DEF FrameType
<1>2. CASE n < 40 \/ f.ver # 6
  BY <1>2 DEF DissectIPv6, Decoded
<1>3. CASE ~(n < 40 \/ f.ver # 6)
  <2>1. PICK high : high = IF f.total < n - 40 THEN 40 + f.total ELSE n
    OBVIOUS
  <2>2. high \in Nat /\ high <= n /\ high <= 40 + f.total /\ 40 <= high
    BY <1>1, <1>3, <2>1
  <2>3. DissectIPv6(f, n) = DissectL4(f, "IPv6", 40, high)
    BY <1>3, <2>1 DEF DissectIPv6
  <2>4. Inside(DissectL4(f, "IPv6", 40, high), "IPv6", 40, high)
    BY <2>2, DissectL4Inside
  <2> QED
    BY <2>2, <2>3, <2>4 DEF Decoded
<1> QED
  BY <1>2, <1>3

\* An ARP packet has 28 bytes, and what follows them.
LEMMA DissectARPDecoded ==
    ASSUME NEW f \in FrameType, f.etype = "ARP", NEW n \in Nat, n = f.wire - 14
    PROVE  Decoded(f, DissectARP(f, n))
<1>1. CASE n < 28
  BY <1>1 DEF DissectARP, Decoded
<1>2. CASE ~(n < 28)
  BY <1>2 DEF DissectARP, Decoded, Inside, Packet, L4Size
<1> QED
  BY <1>1, <1>2

\* Every frame gives one of the outcomes of Decoded.
LEMMA DissectDecoded ==
    ASSUME NEW f \in FrameType
    PROVE  Decoded(f, DissectWithTimestamp(f))
<1>1. f.wire \in Nat /\ f.etype \in {"IPv4", "IPv6", "ARP", "other"}
  BY DEF FrameType
<1>2. CASE f.wire - 14 < 0
  <2>0. ~(f.wire - 14 >= 0)
    BY <1>1, <1>2
  <2>1. DissectWithTimestamp(f) = NilPacket
    BY <1>2, <2>0 DEF DissectWithTimestamp
  <2> QED
    BY <2>1 DEF Decoded
<1>3. CASE ~(f.wire - 14 < 0)
  <2>1. PICK n : n = f.wire - 14
    OBVIOUS
  <2>2. n \in Nat
    BY <1>1, <1>3, <2>1
  <2>7. f.wire - 14 >= 0 /\ ~(f.wire - 14 < 0)
    BY <2>1, <2>2
  <2>3. CASE f.etype = "IPv4"
    <3>1. DissectWithTimestamp(f) = DissectIPv4(f, n)
      BY <2>1, <2>2, <2>7, <2>3 DEF DissectWithTimestamp
    <3> QED
      BY <2>1, <2>2, <2>3, <3>1, DissectIPv4Decoded
  <2>4. CASE f.etype = "IPv6"
    <3>1. DissectWithTimestamp(f) = DissectIPv6(f, n)
      BY <2>1, <2>2, <2>7, <2>4 DEF DissectWithTimestamp
    <3> QED
      BY <2>1, <2>2, <2>4, <3>1, DissectIPv6Decoded
  <2>5. CASE f.etype = "ARP"
    <3>1. DissectWithTimestamp(f) = DissectARP(f, n)
      BY <2>1, <2>2, <2>7, <2>5 DEF DissectWithTimestamp
    <3> QED
      BY <2>1, <2>2, <2>5, <3>1, DissectARPDecoded
  <2>6. CASE f.etype = "other"
    <3>1. DissectWithTimestamp(f) = Packet(FALSE, "none", "none", 0, n)
      BY <2>1, <2>2, <2>7, <2>6 DEF DissectWithTimestamp
    <3> QED
      BY <2>1, <2>2, <2>6, <3>1 DEF Decoded
  <2> QED
    BY <1>1, <2>3, <2>4, <2>5, <2>6
<1> QED
  BY <1>2, <1>3

-----------------------------------------------------------------------------
(* The inductive invariant: the packet and the verdict are those of the    *)
(* frame and the flags.                                                    *)

DissectInv ==
  /\ frame \in Frames /\ asked \in PortFlags
  /\ \E protocol \in Protos, host \in HostFlags : filter = NewPacketFilter(protocol, asked, host)
  /\ verdict \in {"none", "panic", "dissected", "broadcast", "discarded"}
  /\ verdict # "none" => pkt = DissectWithTimestamp(frame)
  /\ verdict \notin {"none", "panic"} => ~pkt.panic
  /\ verdict = "broadcast" => pkt.err \/ IsEmpty(filter) \/ Matches(filter, frame, pkt)

\* In every state the packet is what the dissector makes of the frame, and a broadcast
\* packet is one that the filter lets through.
THEOREM DissectInvariance == Spec => []DissectInv
<1>1. Init => DissectInv
  BY DEF Init, DissectInv
<1>2. DissectInv /\ [Next]_vars => DissectInv'
  <2> SUFFICES ASSUME DissectInv, [Next]_vars PROVE DissectInv'
    OBVIOUS
  <2>1. CASE Dissect
    <3>1. /\ UNCHANGED <<frame, filter, asked>>
          /\ pkt' = DissectWithTimestamp(frame)
          /\ verdict' = IF pkt'.panic THEN "panic" ELSE "dissected"
      BY <2>1 DEF Dissect
    <3>2. /\ verdict' \in {"panic", "dissected"}
          /\ verdict' # "panic" => ~pkt'.panic
      BY <3>1
    <3> QED
      BY <3>1, <3>2 DEF DissectInv
  <2>2. CASE Decide
    <3>1. /\ UNCHANGED <<frame, filter, asked, pkt>> /\ verdict = "dissected"
          /\ verdict' \in {"broadcast", "discarded"}
      BY <2>2 DEF Decide
    <3>2. verdict' = "broadcast" => pkt.err \/ IsEmpty(filter) \/ Matches(filter, frame, pkt)
      BY <2>2 DEF Decide
    <3>3. verdict' = "broadcast" =>
            pkt'.err \/ IsEmpty(filter') \/ Matches(filter', frame', pkt')
      BY <3>1, <3>2
    <3> QED
      BY <3>1, <3>3 DEF DissectInv
  <2>3. CASE UNCHANGED vars
    BY <2>3 DEF vars, DissectInv, IsEmpty, Matches, MatchesProtocol, HasPorts, HasAddresses
  <2> QED
    BY <2>1, <2>2, <2>3 DEF Next
<1> QED
  BY <1>1, <1>2, PTL DEF Spec

\* For every frame: the payload lies in the frame behind the headers of the layers that
\* are reported, an IP packet takes no bytes beyond its total length, and a frame gives
\* an error exactly when its network layer is announced but not decoded.
THEOREM DissectPayload == Spec => []PayloadInsidePacket
<1>1. DissectInv => PayloadInsidePacket
  <2> SUFFICES ASSUME DissectInv, verdict \in {"broadcast", "discarded", "dissected"},
                      pkt # NilPacket
               PROVE  PayloadInsidePacket
    BY DEF PayloadInsidePacket
  <2>1. /\ frame \in FrameType /\ ~pkt.panic
        /\ Decoded(frame, pkt)
    BY FramesAssumption, DissectDecoded DEF DissectInv
  <2>2. /\ frame.wire \in Nat /\ frame.total \in Nat /\ frame.ihl \in Nat
        /\ frame.etype \in {"IPv4", "IPv6", "ARP", "other"}
    BY <2>1 DEF FrameType
  <2>3. SUFFICES
          /\ L3Size(frame, pkt.l3) + L4Size(pkt.l4) <= pkt.from
          /\ pkt.from <= pkt.to /\ pkt.to <= frame.wire - 14
          /\ pkt.l3 = "IPv4" => pkt.to <= frame.total
          /\ pkt.l3 = "IPv6" => pkt.to <= 40 + frame.total
          /\ pkt.err <=> frame.etype # "other" /\ pkt.l3 = "none"
          /\ pkt.l4 # "none" => HasAddresses(pkt)
    BY DEF PayloadInsidePacket, L3Size, L4Size
  <2>4. CASE \E n \in Nat : n = frame.wire - 14 /\ frame.etype # "other"
                            /\ pkt = Packet(TRUE, "none", "none", 0, n)
    BY <2>2, <2>4 DEF Packet, L3Size, L4Size
  <2>5. CASE \E n \in Nat : n = frame.wire - 14 /\ frame.etype = "other"
                            /\ pkt = Packet(FALSE, "none", "none", 0, n)
    BY <2>2, <2>5 DEF Packet, L3Size, L4Size
  <2>6. CASE \E high \in Nat : /\ frame.etype = "IPv4" /\ high <= frame.wire - 14
                               /\ high <= frame.total
                               /\ Inside(pkt, "IPv4", frame.ihl * 4, high)
    BY <2>2, <2>6 DEF Inside, L3Size, HasAddresses
  <2>7. CASE \E high \in Nat : /\ frame.etype = "IPv6" /\ high <= frame.wire - 14
                               /\ high <= 40 + frame.total
                               /\ Inside(pkt, "IPv6", 40, high)
    BY <2>2, <2>7 DEF Inside, L3Size, HasAddresses
  <2>8. CASE /\ frame.etype = "ARP" /\ pkt.l4 = "none"
             /\ Inside(pkt, "ARP", 28, frame.wire - 14)
    BY <2>2, <2>8 DEF Inside, L3Size
  <2> QED
    BY <2>1, <2>4, <2>5, <2>6, <2>7, <2>8 DEF Decoded
<1> QED
  BY <1>1, DissectInvariance, PTL

-----------------------------------------------------------------------------
(* The filter.                                                             *)

\* What each criterion asks of a packet p of the frame f.
PortOf(f, p, port) == port = 0 \/ (HasPorts(p) /\ port \in {f.sport, f.dport})
SportOf(f, p, sport) == sport = 0 \/ (HasPorts(p) /\ sport = f.sport)
DportOf(f, p, dport) == dport = 0 \/ (HasPorts(p) /\ dport = f.dport)
HostOf(f, p, hosts) == hosts = {} \/ (HasAddresses(p) /\ {f.src, f.dst} \cap hosts # {})
ProtoOf(p, proto) == MatchesProtocol(PacketFilter(proto, 0, 0, 0, {}), p)

\* Matches asks each criterion on its own; the empty filter takes nil packets too.
LEMMA MatchesEach ==
    ASSUME NEW proto, NEW port, NEW sport, NEW dport, NEW hosts, NEW f, NEW p
    PROVE  Matches(PacketFilter(proto, port, sport, dport, hosts), f, p) <=>
             \/ proto = "" /\ port = 0 /\ sport = 0 /\ dport = 0 /\ hosts = {}
             \/ /\ p # NilPacket /\ ProtoOf(p, proto) /\ PortOf(f, p, port)
                /\ SportOf(f, p, sport) /\ DportOf(f, p, dport) /\ HostOf(f, p, hosts)
<1>1. PICK g : g = PacketFilter(proto, port, sport, dport, hosts)
  OBVIOUS
<1>2. /\ g.proto = proto /\ g.port = port /\ g.sport = sport /\ g.dport = dport
      /\ g.hosts = hosts
  BY <1>1 DEF PacketFilter
<1>3. IsEmpty(g) <=> proto = "" /\ port = 0 /\ sport = 0 /\ dport = 0 /\ hosts = {}
  BY <1>1 DEF IsEmpty, NoFilter, PacketFilter
<1>4. MatchesProtocol(g, p) <=> ProtoOf(p, proto)
  BY <1>2 DEF MatchesProtocol, ProtoOf, PacketFilter
<1> QED
  BY <1>1, <1>2, <1>3, <1>4 DEF Matches, PortOf, SportOf, DportOf, HostOf

\* No protocol is no criterion.
LEMMA ProtoOfNone ==
    ASSUME NEW p
    PROVE  ProtoOf(p, "")
BY DEF ProtoOf, MatchesProtocol, PacketFilter

\* The port of the filter is the one asked for, if that fits.
LEMMA PortFits ==
    ASSUME NEW port \in 1..(PortMod - 1)
    PROVE  port % PortMod = port
BY PortAssumption

\* The filter of the flags.
LEMMA FilterIs ==
    ASSUME DissectInv
    PROVE  \E proto, host : filter = PacketFilter(proto, asked % PortMod, 0, 0, host)
BY DEF DissectInv, NewPacketFilter

\* A packet that the filter kept and that was decoded has the port asked for.
LEMMA BroadcastHasPort ==
    ASSUME DissectInv, verdict = "broadcast", asked \in 1..(PortMod - 1), ~pkt.err
    PROVE  HasPorts(pkt) /\ asked \in {frame.sport, frame.dport}
<1>1. PICK proto, host : filter = PacketFilter(proto, asked % PortMod, 0, 0, host)
  BY FilterIs
<1>2. filter = PacketFilter(proto, asked, 0, 0, host) /\ asked # 0
  BY <1>1, PortFits, PortAssumption
<1>3. ~IsEmpty(filter)
  BY <1>2 DEF IsEmpty, NoFilter, PacketFilter
<1>4. Matches(PacketFilter(proto, asked, 0, 0, host), frame, pkt)
  BY <1>2, <1>3 DEF DissectInv
<1>5. PortOf(frame, pkt, asked)
  BY <1>2, <1>4, MatchesEach
<1> QED
  BY <1>2, <1>5 DEF PortOf

\* Each criterion on its own.
LEMMA MatchesOne ==
    ASSUME NEW f, NEW p, NEW x
    PROVE  /\ Matches(PacketFilter(x, 0, 0, 0, {}), f, p) <=>
                x = "" \/ (p # NilPacket /\ ProtoOf(p, x))
           /\ Matches(PacketFilter("", x, 0, 0, {}), f, p) <=>
                x = 0 \/ (p # NilPacket /\ PortOf(f, p, x))
           /\ Matches(PacketFilter("", 0, x, 0, {}), f, p) <=>
                x = 0 \/ (p # NilPacket /\ SportOf(f, p, x))
           /\ Matches(PacketFilter("", 0, 0, x, {}), f, p) <=>
                x = 0 \/ (p # NilPacket /\ DportOf(f, p, x))
           /\ Matches(PacketFilter("", 0, 0, 0, x), f, p) <=>
                x = {} \/ (p # NilPacket /\ HostOf(f, p, x))
<1>1. /\ PortOf(f, p, 0) /\ SportOf(f, p, 0) /\ DportOf(f, p, 0) /\ HostOf(f, p, {})
      /\ ProtoOf(p, "")
  BY ProtoOfNone DEF PortOf, SportOf, DportOf, HostOf
<1>2. Matches(PacketFilter(x, 0, 0, 0, {}), f, p) <=> x = "" \/ (p # NilPacket /\ ProtoOf(p, x))
  BY <1>1, MatchesEach
<1>3. Matches(PacketFilter("", x, 0, 0, {}), f, p) <=> x = 0 \/ (p # NilPacket /\ PortOf(f, p, x))
  <2>1. PICK z, e, h : z = 0 /\ e = "" /\ h = {}
    OBVIOUS
  <2>2. Matches(PacketFilter(e, x, z, z, h), f, p) <=>
          \/ e = "" /\ x = 0 /\ z = 0 /\ z = 0 /\ h = {}
          \/ /\ p # NilPacket /\ ProtoOf(p, e) /\ PortOf(f, p, x)
             /\ SportOf(f, p, z) /\ DportOf(f, p, z) /\ HostOf(f, p, h)
    BY MatchesEach
  <2> QED
    BY <1>1, <2>1, <2>2
<1>4. Matches(PacketFilter("", 0, x, 0, {}), f, p) <=> x = 0 \/ (p # NilPacket /\ SportOf(f, p, x))
  <2>1. PICK z, e, h : z = 0 /\ e = "" /\ h = {}
    OBVIOUS
  <2>2. Matches(PacketFilter(e, z, x, z, h), f, p) <=>
          \/ e = "" /\ z = 0 /\ x = 0 /\ z = 0 /\ h = {}
          \/ /\ p # NilPacket /\ ProtoOf(p, e) /\ PortOf(f, p, z)
             /\ SportOf(f, p, x) /\ DportOf(f, p, z) /\ HostOf(f, p, h)
    BY MatchesEach
  <2> QED
    BY <1>1, <2>1, <2>2
<1>5. Matches(PacketFilter("", 0, 0, x, {}), f, p) <=> x = 0 \/ (p # NilPacket /\ DportOf(f, p, x))
  <2>1. PICK z, e, h : z = 0 /\ e = "" /\ h = {}
    OBVIOUS
  <2>2. Matches(PacketFilter(e, z, z, x, h), f, p) <=>
          \/ e = "" /\ z = 0 /\ z = 0 /\ x = 0 /\ h = {}
          \/ /\ p # NilPacket /\ ProtoOf(p, e) /\ PortOf(f, p, z)
             /\ SportOf(f, p, z) /\ DportOf(f, p, x) /\ HostOf(f, p, h)
    BY MatchesEach
  <2> QED
    BY <1>1, <2>1, <2>2
<1>6. Matches(PacketFilter("", 0, 0, 0, x), f, p) <=> x = {} \/ (p # NilPacket /\ HostOf(f, p, x))
  BY <1>1, MatchesEach
<1> QED
  BY <1>2, <1>3, <1>4, <1>5, <1>6

\* Several criteria are the conjunction of each.
LEMMA MatchesAll ==
    ASSUME NEW f, NEW p, NEW proto, NEW port, NEW sport, NEW dport, NEW hosts
    PROVE  Matches(PacketFilter(proto, port, sport, dport, hosts), f, p) <=>
             /\ Matches(PacketFilter(proto, 0, 0, 0, {}), f, p)
             /\ Matches(PacketFilter("", port, 0, 0, {}), f, p)
             /\ Matches(PacketFilter("", 0, sport, 0, {}), f, p)
             /\ Matches(PacketFilter("", 0, 0, dport, {}), f, p)
             /\ Matches(PacketFilter("", 0, 0, 0, hosts), f, p)
<1>1. /\ proto = "" => ProtoOf(p, proto)
      /\ port = 0 => PortOf(f, p, port)
      /\ sport = 0 => SportOf(f, p, sport)
      /\ dport = 0 => DportOf(f, p, dport)
      /\ hosts = {} => HostOf(f, p, hosts)
  BY ProtoOfNone DEF PortOf, SportOf, DportOf, HostOf
<1>2. Matches(PacketFilter(proto, port, sport, dport, hosts), f, p) <=>
        \/ proto = "" /\ port = 0 /\ sport = 0 /\ dport = 0 /\ hosts = {}
        \/ /\ p # NilPacket /\ ProtoOf(p, proto) /\ PortOf(f, p, port)
           /\ SportOf(f, p, sport) /\ DportOf(f, p, dport) /\ HostOf(f, p, hosts)
  BY MatchesEach
<1>3. /\ Matches(PacketFilter(proto, 0, 0, 0, {}), f, p) <=>
           proto = "" \/ (p # NilPacket /\ ProtoOf(p, proto))
      /\ Matches(PacketFilter("", port, 0, 0, {}), f, p) <=>
           port = 0 \/ (p # NilPacket /\ PortOf(f, p, port))
      /\ Matches(PacketFilter("", 0, sport, 0, {}), f, p) <=>
           sport = 0 \/ (p # NilPacket /\ SportOf(f, p, sport))
      /\ Matches(PacketFilter("", 0, 0, dport, {}), f, p) <=>
           dport = 0 \/ (p # NilPacket /\ DportOf(f, p, dport))
      /\ Matches(PacketFilter("", 0, 0, 0, hosts), f, p) <=>
           hosts = {} \/ (p # NilPacket /\ HostOf(f, p, hosts))
  BY MatchesOne
<1> QED
  BY <1>1, <1>2, <1>3

\* For every packet and every combination of flags: a filter with several criteria is
\* the conjunction of the filters with one, a port is matched iff it is the source's or
\* the destination's, and of the decoded packets only those with the port asked for
\* are broadcast, if it fits 16 bits.
THEOREM DissectFilter == Spec => []FilterIsConjunction
<1>1. DissectInv => FilterIsConjunction
  <2> SUFFICES ASSUME DissectInv PROVE FilterIsConjunction
    OBVIOUS
  <2>1. PICK proto, host : filter = PacketFilter(proto, asked % PortMod, 0, 0, host)
    BY FilterIs
  <2>2. PICK port : port = asked % PortMod
    OBVIOUS
  <2>3. /\ filter = PacketFilter(proto, port, 0, 0, host)
        /\ filter.proto = proto /\ filter.port = port /\ filter.hosts = host
    BY <2>1, <2>2 DEF PacketFilter
  <2> DEFINE M(protocol, p, srcPort, dstPort, hosts) ==
               Matches(PacketFilter(protocol, p, srcPort, dstPort, hosts), frame, pkt)
  <2>4. \A a, b : M(proto, port, a, b, host) <=>
                     /\ M(proto, 0, 0, 0, {}) /\ M("", port, 0, 0, {})
                     /\ M("", 0, a, 0, {}) /\ M("", 0, 0, b, {}) /\ M("", 0, 0, 0, host)
    BY MatchesAll
  <2>5. ASSUME port # 0
        PROVE  M("", port, 0, 0, {}) <=> M("", 0, port, 0, {}) \/ M("", 0, 0, port, {})
    <3>1. PortOf(frame, pkt, port) <=> SportOf(frame, pkt, port) \/ DportOf(frame, pkt, port)
      BY DEF PortOf, SportOf, DportOf
    <3> QED
      BY <2>5, <3>1, MatchesOne
  <2>6. ASSUME port # 0, Matches(filter, frame, pkt)
        PROVE  HasPorts(pkt)
    <3>1. PortOf(frame, pkt, port)
      BY <2>3, <2>6, MatchesEach
    <3> QED
      BY <2>6, <3>1 DEF PortOf
  <2>7. verdict = "broadcast" /\ asked \in 1..(PortMod - 1) /\ ~pkt.err =>
          HasPorts(pkt) /\ asked \in {frame.sport, frame.dport}
    BY BroadcastHasPort
  <2> QED
    BY <2>3, <2>4, <2>5, <2>6, <2>7 DEF FilterIsConjunction
<1> QED
  BY <1>1, DissectInvariance, PTL
=============================================================================
