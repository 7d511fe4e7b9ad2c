------------------------------ MODULE PcapFile ------------------------------
(***************************************************************************)
(* PcapSink and export/pcap.go: packets recorded to a file and replayed.   *)
(* The file is a sequence of cells, each a byte group of one record.       *)
(* WritePacket is two writes, and a write may stop short with an error; the*)
(* sink goes on with the next event, for the engine ignores its errors.    *)
(* The process may be killed at any point.  Then the file is read back.    *)
(* Files of other programs, in the other byte order or with nanoseconds,   *)
(* are read the same way.                                                  *)
(***************************************************************************)
EXTENDS Integers, Sequences, FiniteSets, SequencesExt

CONSTANTS Events,       \* the events: [network, size, sec, ns]
          Variants,     \* subset of {"le_us", "le_ns", "be_us", "be_ns"}
          H,            \* cells of a packet header (16 bytes)
          MaxSize,      \* bound on InclLen when a header is not one
          NsPerUs, Now, \* 1000; the time an event without timestamp gets
          WritesFail    \* whether writes may stop short

ASSUME PcapConstants ==
  /\ Events \in Seq([network : BOOLEAN, size : Nat, sec : Nat, ns : Nat])
  /\ Variants \subseteq {"le_us", "le_ns", "be_us", "be_ns"} /\ WritesFail \in BOOLEAN
  /\ H \in Nat \ {0} /\ MaxSize \in Nat /\ NsPerUs \in Nat \ {0}

\* The first four bytes of a file of each kind, as the format defines them.
Magic == [le_us |-> <<212, 195, 178, 161>>, le_ns |-> <<77, 60, 178, 161>>,
          be_us |-> <<161, 178, 195, 212>>, be_ns |-> <<161, 178, 60, 77>>]

BigEndian(v) == v \in {"be_us", "be_ns"}
Nano(v) == v \in {"le_ns", "be_ns"}

VARIABLES variant,   \* of the file; "le_us" is what PcapWriter writes
          pcap, current, wPc, torn,
          rPc, isBE, isNano, pos, yielded
pcapVars == <<variant, pcap, current, wPc, torn, rPc, isBE, isNano, pos, yielded>>
readerVars == <<rPc, isBE, isNano, pos, yielded>>

PcapInit ==
  /\ variant \in Variants
  /\ pcap = <<[rec |-> 0, part |-> "global", k |-> 1]>>
  /\ current = 1 /\ wPc = "idle" /\ torn = {}
  /\ rPc = "none" /\ isBE = FALSE /\ isNano = FALSE /\ pos = 1 /\ yielded = <<>>

Part(r, part, n) == [k \in 1..n |-> [rec |-> r, part |-> part, k |-> k]]

\* OnEvent returns at once for events that are not packets or are empty.
Skip ==
  /\ wPc = "idle" /\ current <= Len(Events)
  /\ ~Events[current].network \/ Events[current].size = 0
  /\ current' = current + 1 /\ UNCHANGED <<variant, pcap, wPc, torn, readerVars>>

\* Write n cells of a part of the current record: all of them, or fewer with an error,
\* after which WritePacket returns.
WritePart(part, n, after) ==
  \/ pcap' = pcap \o Part(current, part, n) /\ wPc' = after /\ UNCHANGED torn
     /\ current' = IF after = "idle" THEN current + 1 ELSE current
  \/ WritesFail /\ \E k \in 0..(n - 1) :
       pcap' = pcap \o Part(current, part, k) /\ wPc' = "idle" /\ torn' = torn \cup {current}
       /\ current' = current + 1

WriteHeader ==
  /\ wPc = "idle" /\ current <= Len(Events) /\ Events[current].network /\ Events[current].size > 0
  /\ WritePart("header", H, "payload") /\ UNCHANGED <<variant, readerVars>>

WritePayload ==
  /\ wPc = "payload" /\ WritePart("data", Events[current].size, "idle")
  /\ UNCHANGED <<variant, readerVars>>

\* Close of the sink, or the end of the process between any two writes.
CloseOrKill ==
  /\ wPc # "ended" /\ wPc' = "ended" /\ rPc' = "open"
  /\ torn' = IF wPc = "payload" THEN torn \cup {current} ELSE torn
  /\ UNCHANGED <<variant, pcap, current, isBE, isNano, pos, yielded>>

-----------------------------------------------------------------------------

\* Mutant: the byte-swapped nanosecond magic is taken for microseconds.
OpenPcapNoBigNano ==
  LET magic == Reverse(Magic[variant])
  IN /\ rPc = "open"
     /\ isBE' = (magic \in {<<212, 195, 178, 161>>, <<77, 60, 178, 161>>})
     /\ isNano' = (magic = <<161, 178, 60, 77>>)
     /\ rPc' = "next" /\ pos' = 2
     /\ UNCHANGED <<variant, pcap, current, wPc, torn, yielded>>

\* NewPcapReader: the magic number, read as a little-endian integer (written here
\* with the most significant byte first), selects byte order and resolution.
OpenPcap ==
  LET magic == Reverse(Magic[variant])
  IN /\ rPc = "open"
     /\ isBE' = (magic \in {<<212, 195, 178, 161>>, <<77, 60, 178, 161>>})
     /\ isNano' = (magic \in {<<161, 178, 60, 77>>, <<77, 60, 178, 161>>})
     /\ rPc' = "next" /\ pos' = 2
     /\ UNCHANGED <<variant, pcap, current, wPc, torn, yielded>>

\* The timestamp as the writer of this file put it into sec and frac, and as read back.
Frac(r) == IF Nano(variant) THEN Events[r].ns ELSE Events[r].ns \div NsPerUs
Stamp(sec, frac) == <<sec, IF isNano THEN frac ELSE frac * NsPerUs>>
Second(r) == IF Events[r].sec = 0 /\ Events[r].ns = 0 THEN Now ELSE Events[r].sec

\* The header at pos is intact and in the byte order the reader assumes.
IntactHeader ==
  /\ isBE = BigEndian(variant)
  /\ pcap[pos].part = "header"
  /\ SubSeq(pcap, pos, pos + H - 1) = Part(pcap[pos].rec, "header", H)

\* NextPacket: a full header, then InclLen bytes.  Anything else ends the replay;
\* bytes that are not a header give some length and some time.
NextPacket ==
  /\ rPc = "next"
  /\ IF Len(pcap) - pos + 1 < H
     THEN rPc' = "ended" /\ UNCHANGED <<pos, yielded>>
     ELSE \E size \in IF IntactHeader THEN {Events[pcap[pos].rec].size} ELSE 0..MaxSize :
            IF Len(pcap) - (pos + H) + 1 < size
            THEN rPc' = "ended" /\ UNCHANGED <<pos, yielded>>
            ELSE /\ pos' = pos + H + size /\ rPc' = "next"
                 /\ yielded' = Append(yielded,
                      [data |-> SubSeq(pcap, pos + H, pos + H + size - 1),
                       ts |-> IF IntactHeader
                              THEN Stamp(Second(pcap[pos].rec), Frac(pcap[pos].rec))
                              ELSE <<0, 0>>])
  /\ UNCHANGED <<variant, pcap, current, wPc, torn, isBE, isNano>>

PcapNext == Skip \/ WriteHeader \/ WritePayload \/ CloseOrKill \/ OpenPcap \/ NextPacket
PcapSpec == PcapInit /\ [][PcapNext]_pcapVars

-----------------------------------------------------------------------------
(* Properties *)

\* What a reader should see of record r.
Recorded(r) ==
  [data |-> Part(r, "data", Events[r].size),
   ts |-> <<Second(r), IF Nano(variant) THEN Events[r].ns
                       ELSE Events[r].ns - (Events[r].ns % NsPerUs)>>]
Eligible(r) == Events[r].network /\ Events[r].size > 0

\* The packets recorded before the first torn record.
Whole == {r \in 1..(current - 1) : Eligible(r) /\ \A t \in torn : r < t}
Rank(r) == Cardinality({q \in Whole : q <= r})
\* Nothing was written behind a torn record.
TornLast == \A t \in torn, i \in DOMAIN pcap : pcap[i].rec <= t

\* Replay returns them all, in order and with data and time (to the resolution of the
\* file), whenever the process was killed, and before anything else; if nothing was
\* written behind a torn record it returns nothing else.
ReplayReturnsRecorded ==
  rPc = "ended" =>
    /\ \A r \in Whole : Rank(r) <= Len(yielded) /\ yielded[Rank(r)] = Recorded(r)
    /\ TornLast => Len(yielded) = Cardinality(Whole)
=============================================================================
