----------------------------- MODULE Dissector -----------------------------
(***************************************************************************)
(* net/dissect.go and net/filter.go.  A frame is what its headers say and  *)
(* how long it is; the dissector's slices are intervals of offsets behind  *)
(* the Ethernet header.  One behaviour dissects one frame and asks one     *)
(* filter, as a worker of the engine does.                                 *)
(***************************************************************************)
EXTENDS Integers, Sequences, FiniteSets, SequencesExt

CONSTANTS Frames,    \* the frames considered, see FrameType
          PortFlags, \* values of --port
          Protos,    \* values of --proto, "" for none
          HostFlags, \* values of --host: sets of addresses, one for an address, several for a
                     \* subnet (CIDR), {} for none
          PortMod    \* 2^16

FrameType ==
  [wire : Nat,                 \* bytes of the frame
   etype : {"IPv4", "IPv6", "ARP", "other"},
   ver : Nat, ihl : Nat,       \* version and header length field (32-bit words)
   total : Nat,                \* IPv4 total length, IPv6 payload length
   proto : {"TCP", "UDP", "ICMP", "other"},
   doff : Nat,                 \* TCP data offset (32-bit words)
   src : STRING, dst : STRING, sport : Nat, dport : Nat]

ASSUME FramesAssumption == Frames \subseteq FrameType
ASSUME PortAssumption == PortFlags \subseteq Int /\ PortMod \in Nat \ {0}

-----------------------------------------------------------------------------
(* dissection: a packet is [err, panic, l3, l4, from, to], payload = b[from:to] *)

Packet(err, l3, l4, from, to) ==
  [err |-> err, panic |-> FALSE, l3 |-> l3, l4 |-> l4, from |-> from, to |-> to]

\* Mutant: the data offset is not compared with the length of the segment.
DissectL4TrustsOffset(f, l3, from, to) ==
  LET n    == to - from
      skip == CASE f.proto = "TCP"  -> IF f.doff * 4 < 20 THEN 20 ELSE f.doff * 4
                [] f.proto = "UDP"  -> 8
                [] f.proto = "ICMP" -> 4
                [] OTHER            -> 0
      need == IF f.proto = "TCP" THEN 20 ELSE skip
  IN IF f.proto = "other" \/ n < need
     THEN Packet(FALSE, l3, "none", from, to)
     ELSE Packet(FALSE, l3, f.proto, from + skip, to)

\* dissectL4 on b[from:to]: short segments leave the layer out without an error.
DissectL4(f, l3, from, to) ==
  LET n    == to - from
      skip == CASE f.proto = "TCP"  -> IF f.doff * 4 > n \/ f.doff * 4 < 20 THEN 20 ELSE f.doff * 4
                [] f.proto = "UDP"  -> 8
                [] f.proto = "ICMP" -> 4
                [] OTHER            -> 0
      need == IF f.proto = "TCP" THEN 20 ELSE skip
  IN IF f.proto = "other" \/ n < need
     THEN Packet(FALSE, l3, "none", from, to)
     ELSE Packet(FALSE, l3, f.proto, from + skip, to)

\* The total length is cut to what was captured; the slice b[headerLen:totalLen]
\* panics when the total is shorter than the header.
DissectIPv4(f, n) ==
  LET header == f.ihl * 4
      total  == IF f.total > n THEN n ELSE f.total
  IN IF n < 20 \/ f.ver # 4 \/ n < header \/ header < 20
     THEN Packet(TRUE, "none", "none", 0, n)
     ELSE IF total < header
          THEN [Packet(FALSE, "IPv4", "none", 0, 0) EXCEPT !.panic = TRUE]
          ELSE DissectL4(f, "IPv4", header, total)

DissectIPv6(f, n) ==
  IF n < 40 \/ f.ver # 6
  THEN Packet(TRUE, "none", "none", 0, n)
  ELSE DissectL4(f, "IPv6", 40, IF f.total < n - 40 THEN 40 + f.total ELSE n)

DissectARP(f, n) ==
  IF n < 28 THEN Packet(TRUE, "none", "none", 0, n) ELSE Packet(FALSE, "ARP", "none", 28, n)

\* A frame without an Ethernet header gives no packet at all.
NilPacket == Packet(TRUE, "nil", "none", 0, 0)

DissectWithTimestamp(f) ==
  LET n == f.wire - 14
  IN CASE n < 0            -> NilPacket
       [] f.etype = "IPv4" /\ n >= 0 -> DissectIPv4(f, n)
       [] f.etype = "IPv6" /\ n >= 0 -> DissectIPv6(f, n)
       [] f.etype = "ARP"  /\ n >= 0 -> DissectARP(f, n)
       [] OTHER            -> Packet(FALSE, "none", "none", 0, n)

-----------------------------------------------------------------------------
(* filter *)

PacketFilter(protocol, port, srcPort, dstPort, hosts) ==
  [proto |-> protocol, port |-> port, sport |-> srcPort, dport |-> dstPort, hosts |-> hosts]

\* NewPacketFilter as the tools call it: the port flag is converted to 16 bits.
NewPacketFilter(protocol, portFlag, host) == PacketFilter(protocol, portFlag % PortMod, 0, 0, host)

NoFilter == PacketFilter("", 0, 0, 0, {})
IsEmpty(g) == g = NoFilter

MatchesProtocol(g, p) ==
  CASE g.proto \in {"tcp", "udp", "icmp"} ->
         p.l4 = [tcp |-> "TCP", udp |-> "UDP", icmp |-> "ICMP"][g.proto]
    [] g.proto = "arp"           -> p.l3 = "ARP"
    [] g.proto \in {"ip", "ipv4"} -> p.l3 = "IPv4"
    [] g.proto = "ipv6"          -> p.l3 = "IPv6"
    [] OTHER                     -> g.proto = ""

HasPorts(p) == p.l4 \in {"TCP", "UDP"}
HasAddresses(p) == p.l3 \in {"IPv4", "IPv6"}

\* Mutant: the source-port criterion lets packets without ports through.
MatchesPortless(g, f, p) ==
  \/ IsEmpty(g)
  \/ /\ p # NilPacket
     /\ MatchesProtocol(g, p)
     /\ g.port # 0 => HasPorts(p) /\ g.port \in {f.sport, f.dport}
     /\ g.sport # 0 /\ HasPorts(p) => g.sport = f.sport
     /\ g.dport # 0 => HasPorts(p) /\ g.dport = f.dport
     /\ g.hosts # {} => HasAddresses(p) /\ {f.src, f.dst} \cap g.hosts # {}

\* Matches; hosts = {} stands for neither --host address nor subnet.
Matches(g, f, p) ==
  \/ IsEmpty(g)
  \/ /\ p # NilPacket
     /\ MatchesProtocol(g, p)
     /\ g.port # 0 => HasPorts(p) /\ g.port \in {f.sport, f.dport}
     /\ g.sport # 0 => HasPorts(p) /\ g.sport = f.sport
     /\ g.dport # 0 => HasPorts(p) /\ g.dport = f.dport
     /\ g.hosts # {} => HasAddresses(p) /\ {f.src, f.dst} \cap g.hosts # {}

-----------------------------------------------------------------------------
(* a worker: dissect, then keep or discard *)

VARIABLES frame, filter, asked, pkt, verdict
vars == <<frame, filter, asked, pkt, verdict>>

\* The flags of the tool build the filter; asked is the port the user typed.
Init ==
  /\ frame \in Frames
  /\ asked \in PortFlags
  /\ \E protocol \in Protos, host \in HostFlags : filter = NewPacketFilter(protocol, asked, host)
  /\ pkt = NilPacket /\ verdict = "none"

Dissect ==
  /\ verdict = "none" /\ pkt' = DissectWithTimestamp(frame)
  /\ verdict' = IF pkt'.panic THEN "panic" ELSE "dissected"
  /\ UNCHANGED <<frame, filter, asked>>

\* Packets with an error pass the filter unseen.
Decide ==
  /\ verdict = "dissected"
  /\ verdict' = IF pkt.err \/ IsEmpty(filter) \/ Matches(filter, frame, pkt)
                THEN "broadcast" ELSE "discarded"
  /\ UNCHANGED <<frame, filter, asked, pkt>>

Next == Dissect \/ Decide
Spec == Init /\ [][Next]_vars

-----------------------------------------------------------------------------
(* Properties *)

\* For every combination of captured length and length fields: the payload lies in
\* the frame behind the headers of the layers reported, an IP packet never takes
\* bytes beyond its own total length (Ethernet padding), and a frame yields an error
\* exactly when its network layer is announced but not decoded.
PayloadInsidePacket ==
  verdict \in {"broadcast", "discarded", "dissected"} /\ pkt # NilPacket =>
    LET n == frame.wire - 14
        l3size == CASE pkt.l3 = "IPv4" -> frame.ihl * 4 [] pkt.l3 = "IPv6" -> 40
                    [] pkt.l3 = "ARP" -> 28 [] OTHER -> 0
        l4size == CASE pkt.l4 = "TCP" -> 20 [] pkt.l4 = "UDP" -> 8 [] pkt.l4 = "ICMP" -> 4
                    [] OTHER -> 0
    IN /\ l3size + l4size <= pkt.from /\ pkt.from <= pkt.to /\ pkt.to <= n
       /\ pkt.l3 = "IPv4" => pkt.to <= frame.total
       /\ pkt.l3 = "IPv6" => pkt.to <= 40 + frame.total
       /\ pkt.err <=> frame.etype # "other" /\ pkt.l3 = "none"
       /\ pkt.l4 # "none" => HasAddresses(pkt)

\* The criteria of a filter are independent: Matches with several is the conjunction
\* of Matches with each, and a port is matched iff it is the source's or the
\* destination's, for every packet the dissector can produce.  Of the decoded packets
\* only those with the port that was asked for are broadcast, if it fits 16 bits (of a
\* larger one the low bits are taken, 0 for no criterion at all).
FilterIsConjunction ==
  /\ verdict = "broadcast" /\ asked \in 1..(PortMod - 1) /\ ~pkt.err =>
       HasPorts(pkt) /\ asked \in {frame.sport, frame.dport}
  /\ verdict = "dissected" =>
       LET M(protocol, port, srcPort, dstPort, hosts) ==
             Matches(PacketFilter(protocol, port, srcPort, dstPort, hosts), frame, pkt)
       IN /\ \A a, b \in {frame.sport, frame.dport, 0} :
               M(filter.proto, filter.port, a, b, filter.hosts) <=>
                 /\ M(filter.proto, 0, 0, 0, {}) /\ M("", filter.port, 0, 0, {})
                 /\ M("", 0, a, 0, {}) /\ M("", 0, 0, b, {}) /\ M("", 0, 0, 0, filter.hosts)
          /\ filter.port # 0 =>
               (M("", filter.port, 0, 0, {})
                  <=> M("", 0, filter.port, 0, {}) \/ M("", 0, 0, filter.port, {}))
          /\ filter.port # 0 /\ Matches(filter, frame, pkt) => HasPorts(pkt)
=============================================================================
