--------------------------- MODULE Recording_proofs ---------------------------
(***************************************************************************)
(* Proofs about the modules that record: PcapFile, JsonlFile and ToolRun,  *)
(* for any events, workers, lines and buffers.                             *)
(***************************************************************************)
EXTENDS PcapFile, JsonlFile, ToolRun, FiniteSetTheorems, FunctionTheorems,
        SequenceTheorems, TLAPS

-----------------------------------------------------------------------------
(* PcapFile: the inductive invariant of a recording and its replay.        *)

Cell == [rec : Nat, part : {"global", "header", "data"}, k : Nat]

PcapTypeOK ==
  /\ variant \in Variants /\ pcap \in Seq(Cell)
  /\ current \in 1..(Len(Events) + 1) /\ wPc \in {"idle", "payload", "ended"}
  /\ torn \subseteq 1..current
  /\ rPc \in {"none", "open", "next", "ended"}
  /\ \E S : yielded \in Seq(S)

\* Cells p, p+1, ... of the file are the n cells of a part of record r.
CellsAt(p, r, part, n) ==
  \A k \in 1..n : /\ p + k - 1 \in DOMAIN pcap
                  /\ pcap[p + k - 1] = [rec |-> r, part |-> part, k |-> k]

\* The writer: torn records are behind it, and no cell is behind a torn record that
\* another one has followed.
WriterInv ==
  /\ wPc # "ended" => \A t \in torn : t < current
  /\ wPc = "payload" => current <= Len(Events) /\ Eligible(current)
  /\ wPc = "payload" => \E i \in DOMAIN pcap : pcap[i].rec = current

\* Record s[i] begins at cell st[i] and is complete, and the next one follows it.
Layout(s, st) ==
  /\ Len(st) = Len(s) + 1 /\ st[1] = 2
  /\ \A i \in 1..Len(st) : st[i] >= 2 /\ st[i] <= Len(pcap) + 1
  /\ \A i \in 1..Len(s) :
       /\ st[i + 1] = st[i] + H + Events[s[i]].size
       /\ CellsAt(st[i], s[i], "header", H)
       /\ CellsAt(st[i] + H, s[i], "data", Events[s[i]].size)

\* They are the whole ones, in order.
InOrder(s) ==
  /\ \A i, j \in 1..Len(s) : i < j => s[i] < s[j]
  /\ \A i \in 1..Len(s) : s[i] \in Whole
  /\ \A r \in Whole : \E i \in 1..Len(s) : s[i] = r

\* Behind the last of them, at cell z, are less than a header, or a header and less
\* than its payload.
TailAt(z) ==
  /\ torn = {} => IF wPc = "payload"
                  THEN Len(pcap) + 1 = z + H /\ CellsAt(z, current, "header", H)
                  ELSE Len(pcap) + 1 = z
  /\ torn # {} /\ TornLast =>
       \/ Len(pcap) + 1 < z + H
       \/ \E r \in 1..Len(Events) : /\ CellsAt(z, r, "header", H)
                                    /\ Len(pcap) + 1 < z + H + Events[r].size

\* The reader has replayed them in order, as far as it has come.
Replayed(s, st) ==
  /\ rPc = "none" <=> wPc # "ended"
  /\ rPc \in {"none", "open"} => yielded = <<>>
  /\ rPc \in {"next", "ended"} =>
       /\ isBE = BigEndian(variant) /\ isNano = Nano(variant)
       /\ \A i \in 1..Len(s) : i <= Len(yielded) => yielded[i] = Recorded(s[i])
       /\ Len(yielded) <= Len(s) => pos = st[Len(yielded) + 1]
       /\ TornLast => Len(yielded) <= Len(s)
       /\ rPc = "ended" => Len(yielded) >= Len(s)

RecordsInv ==
  \E s, st \in Seq(Nat) : Layout(s, st) /\ InOrder(s) /\ TailAt(st[Len(st)]) /\ Replayed(s, st)

PcapInv == PcapTypeOK /\ WriterInv /\ RecordsInv

-----------------------------------------------------------------------------
(* Cells.                                                                  *)

\* The file has grown by n cells of the current record.
Grown(n) ==
  /\ pcap' \in Seq(Cell) /\ Len(pcap') = Len(pcap) + n
  /\ \A i \in 1..Len(pcap) : pcap'[i] = pcap[i]
  /\ \A k \in 1..n : pcap'[Len(pcap) + k].rec = current

\* A file is a sequence of cells, and so are the events.
LEMMA PcapTypes ==
    ASSUME PcapTypeOK
    PROVE  /\ Len(pcap) \in Nat /\ DOMAIN pcap = 1..Len(pcap) /\ \A i \in 1..Len(pcap) : pcap[i] \in Cell
           /\ Len(Events) \in Nat /\ current \in Nat /\ H \in Nat /\ H >= 1
           /\ \A r \in 1..Len(Events) :
                /\ Events[r].size \in Nat /\ Events[r].ns \in Nat
                /\ Events[r].network \in BOOLEAN /\ Eligible(r) \in BOOLEAN
<1> DEFINE E == [network : BOOLEAN, size : Nat, sec : Nat, ns : Nat]
<1>1. Len(pcap) \in Nat /\ DOMAIN pcap = 1..Len(pcap) /\ \A i \in 1..Len(pcap) : pcap[i] \in Cell
    BY LenProperties, ElementOfSeq DEF PcapTypeOK
<1>2. Events \in Seq(E) BY PcapConstants
<1> HIDE DEF E
<1>3. Len(Events) \in Nat /\ \A r \in 1..Len(Events) : Events[r] \in E
    BY <1>2, LenProperties, ElementOfSeq
<1>4. current \in Nat BY <1>3 DEF PcapTypeOK
<1>5. \A r \in 1..Len(Events) : /\ Events[r].size \in Nat /\ Events[r].ns \in Nat
                                /\ Events[r].network \in BOOLEAN
    BY <1>3 DEF E
<1>6. \A r : Eligible(r) \in BOOLEAN BY DEF Eligible
<1>7. H \in Nat /\ H >= 1 BY PcapConstants
<1>8. QED BY <1>1, <1>3, <1>4, <1>5, <1>6, <1>7

\* Part of a record appended to the file.
LEMMA PartAppended ==
    ASSUME PcapTypeOK, NEW part \in {"header", "data"}, NEW n \in Nat,
           NEW z, NEW r, z = Len(pcap) + 1, r = current,
           pcap' = pcap \o Part(r, part, n)
    PROVE  Grown(n) /\ CellsAt(z, r, part, n)'
<1>1. PICK p : p = Part(r, part, n) OBVIOUS
<1>2. /\ p \in Seq(Cell) /\ Len(p) = n
      /\ \A k \in 1..n : p[k] = [rec |-> r, part |-> part, k |-> k]
    <2>1. r \in Nat BY PcapTypes
    <2>2. \A k \in 1..n : [rec |-> r, part |-> part, k |-> k] \in Cell BY <2>1 DEF Cell
    <2>3. p = [k \in 1..n |-> [rec |-> r, part |-> part, k |-> k]] BY <1>1 DEF Part
    <2>4. QED BY <2>2, <2>3
<1>3. pcap \in Seq(Cell) /\ Len(pcap) \in Nat BY PcapTypes DEF PcapTypeOK
<1>4. /\ pcap' \in Seq(Cell) /\ Len(pcap') = Len(pcap) + n
      /\ \A i \in 1..(Len(pcap) + n) : pcap'[i] = IF i <= Len(pcap) THEN pcap[i] ELSE p[i - Len(pcap)]
    BY <1>1, <1>2, <1>3, ConcatProperties
<1>5. \A i \in 1..Len(pcap) : pcap'[i] = pcap[i] BY <1>3, <1>4
<1>6. \A k \in 1..n : pcap'[Len(pcap) + k] = [rec |-> r, part |-> part, k |-> k]
    <2> TAKE k \in 1..n
    <2>1. /\ Len(pcap) + k \in 1..(Len(pcap) + n) /\ ~(Len(pcap) + k <= Len(pcap))
          /\ (Len(pcap) + k) - Len(pcap) = k
        BY <1>3
    <2>2. QED BY <1>2, <1>4, <2>1
<1>7. \A k \in 1..n : /\ z + k - 1 = Len(pcap) + k
                      /\ Len(pcap) + k \in DOMAIN pcap'
    <2>1. DOMAIN pcap' = 1..(Len(pcap) + n) BY <1>4, LenProperties
    <2>2. QED BY <1>3, <2>1
<1>8. CellsAt(z, r, part, n)'
    <2> SUFFICES ASSUME NEW k \in 1..n
                 PROVE  /\ z + k - 1 \in DOMAIN pcap'
                        /\ pcap'[z + k - 1] = [rec |-> r, part |-> part, k |-> k]
        BY DEF CellsAt
    <2>1. QED BY <1>6, <1>7
<1>9. \A k \in 1..n : pcap'[Len(pcap) + k].rec = current
    <2> TAKE k \in 1..n
    <2>1. PICK c : c = pcap'[Len(pcap) + k] OBVIOUS
    <2>2. c = [rec |-> r, part |-> part, k |-> k] BY <1>6, <2>1
    <2>3. c.rec = r BY <2>2
    <2>4. QED BY <2>1, <2>3
<1>10. QED BY <1>4, <1>5, <1>8, <1>9 DEF Grown

\* What was in the file stays there.
LEMMA CellsKept ==
    ASSUME PcapTypeOK, NEW n \in Nat, Grown(n),
           NEW p, NEW r, NEW part, NEW m, CellsAt(p, r, part, m)
    PROVE  CellsAt(p, r, part, m)'
<1>1. DOMAIN pcap' = 1..(Len(pcap) + n) BY LenProperties DEF Grown
<1>2. DOMAIN pcap = 1..Len(pcap) /\ Len(pcap) \in Nat BY PcapTypes
<1>3. \A i \in DOMAIN pcap : i \in DOMAIN pcap' /\ pcap'[i] = pcap[i] BY <1>1, <1>2 DEF Grown
<1>4. QED BY <1>3 DEF CellsAt

\* The whole records keep their places.
LEMMA LayoutKept ==
    ASSUME PcapTypeOK, NEW n \in Nat, Grown(n),
           NEW s \in Seq(Nat), NEW st \in Seq(Nat), Layout(s, st)
    PROVE  Layout(s, st)'
<1>1. Len(st) \in Nat /\ \A i \in 1..Len(st) : st[i] \in Nat BY LenProperties, ElementOfSeq
<1>2. \A i \in 1..Len(st) : st[i] >= 2 /\ st[i] <= Len(pcap') + 1
    BY <1>1, PcapTypes DEF Layout, Grown
<1>3. \A i \in 1..Len(s) : CellsAt(st[i], s[i], "header", H)' BY CellsKept DEF Layout
<1>4. \A i \in 1..Len(s) : CellsAt(st[i] + H, s[i], "data", Events[s[i]].size)' BY CellsKept DEF Layout
<1>5. QED BY <1>2, <1>3, <1>4 DEF Layout

\* The bytes of a part, read back.
LEMMA PartRead ==
    ASSUME PcapTypeOK, NEW p \in Nat, NEW r \in Nat, NEW part \in {"header", "data"}, NEW n \in Nat,
           CellsAt(p, r, part, n)
    PROVE  SubSeq(pcap, p, p + n - 1) = Part(r, part, n)
<1>1. PICK u, v : u = SubSeq(pcap, p, p + n - 1) /\ v = Part(r, part, n) OBVIOUS
<1>2. \A i \in p..(p + n - 1) : pcap[i] \in Cell
    <2> TAKE i \in p..(p + n - 1)
    <2>1. i - p + 1 \in 1..n /\ p + (i - p + 1) - 1 = i OBVIOUS
    <2>2. i \in DOMAIN pcap BY <2>1 DEF CellsAt
    <2>3. QED BY <2>2, PcapTypes
<1>3. u \in Seq(Cell) /\ Len(u) = n /\ \A i \in 1..n : u[i] = pcap[p + i - 1]
    <2>1. /\ u \in Seq(Cell)
          /\ Len(u) = IF p <= p + n - 1 THEN (p + n - 1) - p + 1 ELSE 0
          /\ \A i \in 1..((p + n - 1) - p + 1) : u[i] = pcap[p + i - 1]
        BY <1>1, <1>2, SubSeqProperties
    <2>2. (p + n - 1) - p + 1 = n /\ (p <= p + n - 1 <=> n # 0) OBVIOUS
    <2>3. QED BY <2>1, <2>2
<1>4. \A i \in 1..n : pcap[p + i - 1] = [rec |-> r, part |-> part, k |-> i] BY DEF CellsAt
<1>5. v = [i \in 1..n |-> [rec |-> r, part |-> part, k |-> i]] BY <1>1 DEF Part
<1>6. \A i \in 1..n : [rec |-> r, part |-> part, k |-> i] \in Cell BY DEF Cell
<1>7. v \in Seq(Cell) /\ Len(v) = n BY <1>5, <1>6
<1>8. \A i \in 1..Len(u) : u[i] = v[i] BY <1>3, <1>4, <1>5
<1>9. u = v BY <1>3, <1>7, <1>8, SeqEqual
<1>10. QED BY <1>1, <1>9

-----------------------------------------------------------------------------
(* The writer.                                                             *)

\* All that is known at some moment, with the whole records s at st.
Known(s, st) ==
  /\ PcapTypeOK /\ WriterInv
  /\ Layout(s, st) /\ InOrder(s) /\ TailAt(st[Len(st)]) /\ Replayed(s, st)

\* Before the file is read nothing has been replayed.
LEMMA NotRead ==
    ASSUME NEW s, NEW st, Replayed(s, st), wPc # "ended",
           UNCHANGED readerVars, wPc' # "ended"
    PROVE  Replayed(s, st)'
<1>1. rPc = "none" /\ yielded = <<>> /\ rPc' = rPc /\ yielded' = yielded BY DEF Replayed, readerVars
<1>2. QED BY <1>1 DEF Replayed

\* The same records are whole, or they and the current one.
LEMMA OrderKept ==
    ASSUME NEW s, InOrder(s), Whole' = Whole
    PROVE  InOrder(s)'
BY DEF InOrder

\* A record that was cut is not whole, and nor is any behind it.
LEMMA TornKeeps ==
    ASSUME NEW s \in Seq(Nat), NEW st \in Seq(Nat), Known(s, st),
           NEW n \in Nat, Grown(n), NEW z, z = st[Len(st)], NEW r, r = current,
           wPc \in {"idle", "payload"}, current <= Len(Events), torn' = torn \cup {current},
           current' \in {current, current + 1}, UNCHANGED variant,
           torn = {} => \/ Len(pcap') + 1 < z + H
                        \/ /\ CellsAt(z, r, "header", H)'
                           /\ Len(pcap') + 1 < z + H + Events[r].size
    PROVE  Layout(s, st)' /\ InOrder(s)' /\ TailAt(z)'
<1> USE DEF Known
<1>1. current \in Nat /\ torn \subseteq Nat /\ \A t \in torn : t < current
    BY PcapTypes DEF PcapTypeOK, WriterInv
<1>2. Layout(s, st)' BY LayoutKept
<1>3. Whole' = Whole
    <2>1. \A q : q \in Whole' <=> q \in 1..(current' - 1) /\ Eligible(q) /\ \A t \in torn' : q < t
        BY DEF Whole, Eligible
    <2>2. \A q : q \in Whole <=> q \in 1..(current - 1) /\ Eligible(q) /\ \A t \in torn : q < t
        BY DEF Whole
    <2>3. current' \in Nat BY <1>1
    <2>4. ASSUME NEW q \in Whole'
          PROVE  q \in Whole
        <3>1. q \in Nat /\ q >= 1 /\ Eligible(q) /\ \A t \in torn' : q < t BY <2>1, <2>3
        <3>2. q < current BY <3>1
        <3>3. q \in 1..(current - 1) /\ \A t \in torn : q < t BY <1>1, <3>1, <3>2
        <3>4. QED BY <2>2, <3>1, <3>3
    <2>5. \A q \in Whole : q \in Whole' BY <1>1, <2>1, <2>2, <2>3
    <2>6. QED BY <2>4, <2>5
<1>4. InOrder(s)' BY <1>3, OrderKept
<1>5. TailAt(z)'
    <2> SUFFICES ASSUME TornLast'
                 PROVE  \/ Len(pcap') + 1 < z + H
                        \/ \E q \in 1..Len(Events) : /\ CellsAt(z, q, "header", H)'
                                                     /\ Len(pcap') + 1 < z + H + Events[q].size
        BY DEF TailAt
    <2>1. r \in 1..Len(Events) BY PcapTypes DEF PcapTypeOK
    <2>2. CASE torn = {} BY <2>1, <2>2
    <2>3. CASE torn # {}
        <3>1. PICK t \in torn : t < current BY <1>1, <2>3
        <3>2. DOMAIN pcap' = 1..(Len(pcap) + n) /\ DOMAIN pcap = 1..Len(pcap) /\ Len(pcap) \in Nat
            BY LenProperties, PcapTypes DEF Grown
        <3>3. \A i \in DOMAIN pcap' : pcap'[i].rec <= t BY <3>1 DEF TornLast
        <3>4. n = 0
            <4> SUFFICES ASSUME n # 0 PROVE FALSE OBVIOUS
            <4>1. n \in 1..n /\ Len(pcap) + n \in DOMAIN pcap' BY <3>2
            <4>2. pcap'[Len(pcap) + n].rec = current BY <4>1 DEF Grown
            <4>3. current <= t BY <3>3, <4>1, <4>2
            <4>4. QED BY <1>1, <3>1, <4>3
        <3>5. Len(pcap') = Len(pcap) /\ \A i \in DOMAIN pcap : pcap'[i] = pcap[i] BY <3>2, <3>4 DEF Grown
        <3>6. TornLast
            <4>1. \A u \in torn, i \in DOMAIN pcap : pcap'[i].rec <= u
                BY <3>2, <3>4 DEF TornLast
            <4>2. QED BY <3>5, <4>1 DEF TornLast
        <3>7. \/ Len(pcap) + 1 < z + H
              \/ \E q \in 1..Len(Events) : /\ CellsAt(z, q, "header", H)
                                           /\ Len(pcap) + 1 < z + H + Events[q].size
            BY <2>3, <3>6 DEF TailAt
        <3>8. QED BY <3>5, <3>7, CellsKept
    <2>4. QED BY <2>2, <2>3
<1>6. QED BY <1>2, <1>4, <1>5

\* An event that is not recorded.
LEMMA SkipKeeps ==
    ASSUME NEW s \in Seq(Nat), NEW st \in Seq(Nat), Known(s, st), Skip
    PROVE  Known(s, st)'
<1> USE DEF Known
<1>1. /\ wPc = "idle" /\ wPc' = "idle" /\ current' = current + 1 /\ current <= Len(Events)
      /\ variant' = variant /\ pcap' = pcap /\ torn' = torn /\ ~Eligible(current)
      /\ rPc' = rPc /\ isBE' = isBE /\ isNano' = isNano /\ pos' = pos /\ yielded' = yielded
    BY PcapTypes DEF Skip, readerVars, Eligible, PcapTypeOK
<1>2. current \in Nat BY PcapTypes
<1>3. PcapTypeOK'
    <2>1. current' \in 1..(Len(Events) + 1) BY <1>1, <1>2, PcapTypes
    <2>2. torn' \subseteq 1..current' BY <1>1, <1>2 DEF PcapTypeOK
    <2>3. QED BY <1>1, <2>1, <2>2 DEF PcapTypeOK
<1>4. WriterInv'
    <2>1. \A t \in torn' : t < current' BY <1>1, <1>2 DEF WriterInv, PcapTypeOK
    <2>2. QED BY <1>1, <2>1 DEF WriterInv
<1>5. Grown(0) BY <1>1, PcapTypes DEF Grown, PcapTypeOK
<1>6. Layout(s, st)' BY <1>5, LayoutKept
<1>7. InOrder(s)'
    <2>1. \A q : q \in Whole' <=> q \in 1..(current' - 1) /\ Eligible(q) /\ \A t \in torn' : q < t
        BY DEF Whole, Eligible
    <2>2. \A q : q \in Whole <=> q \in 1..(current - 1) /\ Eligible(q) /\ \A t \in torn : q < t
        BY DEF Whole
    <2>3. \A q : q \in 1..(current' - 1) <=> q \in 1..(current - 1) \/ q = current
        BY <1>1, <1>2, PcapTypes DEF PcapTypeOK
    <2>4. Whole' = Whole BY <1>1, <2>1, <2>2, <2>3
    <2>5. QED BY <2>4, OrderKept
<1>8. TailAt(st[Len(st)])'
    <2>1. PICK z : z = st[Len(st)] OBVIOUS
    <2>2. TornLast' = TornLast BY <1>1 DEF TornLast
    <2>3. \A q : CellsAt(z, q, "header", H)' <=> CellsAt(z, q, "header", H) BY <1>1 DEF CellsAt
    <2>4. TailAt(z)' BY <1>1, <2>1, <2>2, <2>3 DEF TailAt
    <2>5. QED BY <2>1, <2>4
<1>9. Replayed(s, st)' BY <1>1 DEF Replayed
<1>10. QED BY <1>3, <1>4, <1>6, <1>7, <1>8, <1>9

\* Types and the writer's own state after a write that ended with the record.
LEMMA RecordEnds ==
    ASSUME PcapTypeOK, WriterInv, NEW n \in Nat, Grown(n), wPc \in {"idle", "payload"},
           current <= Len(Events), wPc' = "idle", current' = current + 1,
           torn' = torn \/ torn' = torn \cup {current},
           UNCHANGED <<variant, readerVars>>
    PROVE  PcapTypeOK' /\ WriterInv'
<1>1. current \in Nat /\ torn \subseteq Nat /\ \A t \in torn : t < current
    BY PcapTypes DEF PcapTypeOK, WriterInv
<1>2. variant' = variant /\ rPc' = rPc /\ yielded' = yielded BY DEF readerVars
<1>3. current' = current + 1 /\ \A t \in torn' : t \in torn \/ t = current OBVIOUS
<1>4. PcapTypeOK'
    <2>1. current' \in 1..(Len(Events) + 1) BY <1>1, PcapTypes
    <2>2. ASSUME NEW t \in torn' PROVE t \in 1..current'
        <3>1. \A x \in torn : x \in 1..current BY DEF PcapTypeOK
        <3>2. current \in 1..current
            <4>1. current >= 1 BY PcapTypes DEF PcapTypeOK
            <4>2. QED BY <1>1, <4>1
        <3>3. t \in 1..current BY <1>3, <3>1, <3>2
        <3>4. QED BY <1>1, <1>3, <3>3
    <2>3. QED BY <1>2, <2>1, <2>2 DEF PcapTypeOK, Grown
<1>5. WriterInv'
    <2>1. ASSUME NEW t \in torn' PROVE t < current'
        <3>1. t \in Nat /\ (t < current \/ t = current) BY <1>1, <1>3
        <3>2. QED BY <1>1, <1>3, <3>1
    <2>2. QED BY <2>1 DEF WriterInv
<1>6. QED BY <1>4, <1>5

\* The header is written, completely or not.
LEMMA HeaderKeeps ==
    ASSUME NEW s \in Seq(Nat), NEW st \in Seq(Nat), Known(s, st), WriteHeader
    PROVE  Known(s, st)'
<1> USE DEF Known
<1>1. PICK z, r : z = st[Len(st)] /\ r = current OBVIOUS
<1>2. /\ wPc = "idle" /\ current <= Len(Events) /\ Eligible(current)
      /\ variant' = variant /\ UNCHANGED readerVars
    BY DEF WriteHeader, Eligible
<1>3. /\ current \in Nat /\ torn \subseteq Nat /\ \A t \in torn : t < current
      /\ H \in Nat /\ H >= 1 /\ Len(pcap) \in Nat
    BY <1>2, PcapTypes DEF PcapTypeOK, WriterInv
<1>4. torn = {} => Len(pcap) + 1 = z BY <1>1, <1>2 DEF TailAt
<1>5. CASE /\ pcap' = pcap \o Part(r, "header", H) /\ wPc' = "payload" /\ torn' = torn /\ current' = current
    <2>1. PICK y : y = Len(pcap) + 1 OBVIOUS
    <2>2. Grown(H) /\ CellsAt(y, r, "header", H)' BY <1>1, <1>3, <1>5, <2>1, PartAppended
    <2>3. PcapTypeOK'
        <3>1. rPc' = rPc /\ yielded' = yielded BY <1>2 DEF readerVars
        <3>2. QED BY <1>2, <1>5, <2>2, <3>1 DEF PcapTypeOK, Grown
    <2>4. \E i \in DOMAIN pcap' : pcap'[i].rec = current
        <3>1. 1 \in 1..H BY <1>3
        <3>2. pcap'[Len(pcap) + 1].rec = current /\ Len(pcap) + 1 \in 1..Len(pcap') /\ DOMAIN pcap' = 1..Len(pcap')
            BY <1>3, <2>2, <3>1, LenProperties DEF Grown
        <3>3. QED BY <3>2
    <2>5. WriterInv' BY <1>2, <1>3, <1>5, <2>4 DEF WriterInv, Eligible
    <2>6. Layout(s, st)' BY <1>3, <2>2, LayoutKept
    <2>7. InOrder(s)'
        <3>1. Whole' = Whole BY <1>5 DEF Whole, Eligible
        <3>2. QED BY <3>1, OrderKept
    <2>8. TailAt(z)'
        <3>1. CASE torn = {}
            <4>1. Len(pcap') + 1 = z + H /\ y = z BY <1>3, <1>4, <2>1, <2>2, <3>1 DEF Grown
            <4>2. QED BY <1>1, <1>5, <2>2, <3>1, <4>1 DEF TailAt
        <3>2. CASE torn # {}
            <4>1. PICK t \in torn : t < current BY <1>3, <3>2
            <4>2. ~TornLast'
                <5>1. PICK i \in DOMAIN pcap' : pcap'[i].rec = current BY <2>4
                <5>2. ~(pcap'[i].rec <= t) BY <1>3, <4>1, <5>1
                <5>3. QED BY <1>5, <4>1, <5>2 DEF TornLast
            <4>3. QED BY <1>5, <3>2, <4>2 DEF TailAt
        <3>3. QED BY <3>1, <3>2
    <2>9. Replayed(s, st)' BY <1>2, <1>5, NotRead
    <2>10. QED BY <1>1, <2>3, <2>5, <2>6, <2>7, <2>8, <2>9
<1>6. ASSUME NEW k \in 0..(H - 1),
             pcap' = pcap \o Part(r, "header", k), wPc' = "idle", torn' = torn \cup {current},
             current' = current + 1
      PROVE  Known(s, st)'
    <2>1. k \in Nat /\ k < H BY <1>3
    <2>2. Grown(k) BY <1>1, <1>6, <2>1, PartAppended
    <2>3. PcapTypeOK' /\ WriterInv' BY <1>2, <1>6, <2>1, <2>2, RecordEnds
    <2>4. torn = {} => Len(pcap') + 1 < z + H BY <1>3, <1>4, <2>1, <2>2 DEF Grown
    <2>5. Layout(s, st)' /\ InOrder(s)' /\ TailAt(z)' BY <1>1, <1>2, <1>6, <2>1, <2>2, <2>4, TornKeeps
    <2>6. Replayed(s, st)' BY <1>2, <1>6, NotRead
    <2>7. QED BY <1>1, <2>3, <2>5, <2>6
<1>7. QED BY <1>1, <1>5, <1>6 DEF WriteHeader, WritePart

\* The payload of a record that is whole.
LEMMA RecordWhole ==
    ASSUME NEW s \in Seq(Nat), NEW st \in Seq(Nat), Known(s, st), wPc = "payload", torn = {},
           NEW r, r = current, NEW n \in Nat, n = Events[r].size,
           pcap' = pcap \o Part(r, "data", n), wPc' = "idle", torn' = torn, current' = current + 1,
           UNCHANGED <<variant, readerVars>>
    PROVE  \E u, v \in Seq(Nat) : Known(u, v)'
<1> USE DEF Known
<1>1. PICK z, y : z = st[Len(st)] /\ y = Len(pcap) + 1 OBVIOUS
<1>2. Grown(n) /\ CellsAt(y, r, "data", n)' BY <1>1, PartAppended
<1>3. /\ current \in Nat /\ H \in Nat /\ H >= 1 /\ Len(pcap) \in Nat /\ current <= Len(Events)
      /\ Eligible(current)
    BY PcapTypes DEF PcapTypeOK, WriterInv
<1>4. y = z + H /\ CellsAt(z, r, "header", H) BY <1>1 DEF TailAt
<1>5. PcapTypeOK' /\ WriterInv' BY <1>2, <1>3, RecordEnds
<1>6. PICK e : e = y + n OBVIOUS
<1>7. PICK u, v : u = Append(s, r) /\ v = Append(st, e) OBVIOUS
<1>8. Len(s) \in Nat /\ Len(st) \in Nat /\ Len(st) = Len(s) + 1 BY LenProperties DEF Layout
<1>9. z \in Nat /\ y \in Nat /\ e \in Nat /\ e = Len(pcap') + 1 /\ e >= 2
    <2>1. Len(st) \in 1..Len(st) BY <1>8
    <2>2. z \in Nat /\ z >= 2 BY <1>1, <2>1, ElementOfSeq DEF Layout
    <2>3. Len(pcap') = Len(pcap) + n BY <1>2 DEF Grown
    <2>4. y \in Nat /\ y >= 2 /\ y = Len(pcap) + 1 BY <1>1, <1>3, <1>4, <2>2
    <2>5. e \in Nat /\ e >= 2 BY <1>6, <2>4
    <2>6. e = Len(pcap') + 1
        <3>1. \A l, m \in Nat : (l + 1) + m = (l + m) + 1 OBVIOUS
        <3>2. (Len(pcap) + 1) + n = Len(pcap') + 1 BY ONLY Len(pcap) \in Nat, n \in Nat, <2>3, <3>1
        <3>3. QED BY <1>6, <2>4, <3>2
    <2>7. QED BY <2>2, <2>4, <2>5, <2>6
<1>10. /\ u \in Seq(Nat) /\ Len(u) = Len(s) + 1 /\ u[Len(s) + 1] = r
       /\ \A i \in 1..Len(s) : u[i] = s[i]
    BY <1>3, <1>7, AppendProperties
<1>11. /\ v \in Seq(Nat) /\ Len(v) = Len(s) + 2 /\ v[Len(s) + 2] = e /\ v[Len(s) + 1] = z
       /\ \A i \in 1..(Len(s) + 1) : v[i] = st[i]
    <2>1. /\ v \in Seq(Nat) /\ Len(v) = Len(st) + 1 /\ v[Len(st) + 1] = e
          /\ \A i \in 1..Len(st) : v[i] = st[i]
        BY <1>7, <1>9, AppendProperties
    <2>2. Len(s) + 1 \in 1..(Len(s) + 1) BY <1>8
    <2>3. st[Len(s) + 1] = z BY <1>1, <1>8
    <2>4. Len(st) + 1 = Len(s) + 2 BY <1>8
    <2>5. v[Len(s) + 1] = z BY <1>8, <2>1, <2>2, <2>3
    <2>6. QED BY <1>8, <2>1, <2>4, <2>5
<1>12. Layout(s, st)' BY <1>2, LayoutKept
<1>13. Layout(u, v)'
    <2>1. Len(v) = Len(u) + 1 /\ v[1] = 2
        <3>1. 1 \in 1..(Len(s) + 1) BY <1>8
        <3>2. QED BY <1>8, <1>10, <1>11, <3>1 DEF Layout
    <2>2. ASSUME NEW i \in 1..Len(v)
          PROVE  v[i] >= 2 /\ v[i] <= Len(pcap') + 1
        <3>1. CASE i \in 1..Len(st) BY <1>8, <1>11, <1>12, <3>1 DEF Layout
        <3>2. CASE i = Len(s) + 2 BY <1>9, <1>11, <3>2
        <3>3. QED BY <1>8, <1>11, <3>1, <3>2
    <2>3. ASSUME NEW i \in 1..Len(u)
          PROVE  /\ v[i + 1] = v[i] + H + Events[u[i]].size
                 /\ CellsAt(v[i], u[i], "header", H)'
                 /\ CellsAt(v[i] + H, u[i], "data", Events[u[i]].size)'
        <3>1. CASE i \in 1..Len(s)
            <4>1. i \in 1..(Len(s) + 1) /\ i + 1 \in 1..(Len(s) + 1) BY <1>8, <3>1
            <4>2. v[i] = st[i] /\ v[i + 1] = st[i + 1] /\ u[i] = s[i] BY <1>10, <1>11, <3>1, <4>1
            <4>3. QED BY <1>12, <3>1, <4>2 DEF Layout
        <3>2. CASE i = Len(s) + 1
            <4>1. v[i] = z /\ v[i + 1] = e /\ u[i] = r BY <1>8, <1>10, <1>11, <3>2
            <4>2. CellsAt(z, r, "header", H)' BY <1>2, <1>4, CellsKept
            <4>3. QED BY <1>2, <1>3, <1>4, <1>6, <1>9, <4>1, <4>2
        <3>3. QED BY <1>8, <1>10, <3>1, <3>2
    <2>4. QED BY <2>1, <2>2, <2>3 DEF Layout
<1>14. Whole' = Whole \cup {r} /\ \A q \in Whole : q < r
    <2>1. \A q : q \in Whole' <=> q \in 1..(current' - 1) /\ Eligible(q) BY DEF Whole, Eligible
    <2>2. \A q : q \in Whole <=> q \in 1..(current - 1) /\ Eligible(q) BY DEF Whole
    <2>3. \A q : q \in 1..(current' - 1) <=> q \in 1..(current - 1) \/ q = current
        BY <1>3 DEF PcapTypeOK
    <2>4. \A q \in 1..(current - 1) : q < current BY <1>3
    <2>5. QED BY <1>3, <2>1, <2>2, <2>3, <2>4
<1>15. InOrder(u)'
    <2>1. \A i \in 1..Len(s) : s[i] \in Whole /\ s[i] < r BY <1>14 DEF InOrder
    <2>2. \A i \in 1..Len(u) : i \in 1..Len(s) \/ i = Len(s) + 1 BY <1>8, <1>10
    <2>3. \A i \in 1..Len(u) : u[i] \in Whole' BY <1>10, <1>14, <2>1, <2>2
    <2>4. \A i, j \in 1..Len(u) : i < j => u[i] < u[j]
        <3> SUFFICES ASSUME NEW i \in 1..Len(u), NEW j \in 1..Len(u), i < j PROVE u[i] < u[j] OBVIOUS
        <3>1. i \in 1..Len(s) BY <1>8, <1>10
        <3>2. CASE j \in 1..Len(s) BY <1>10, <3>1, <3>2 DEF InOrder
        <3>3. CASE j = Len(s) + 1 BY <1>10, <2>1, <3>1, <3>3
        <3>4. QED BY <2>2, <3>2, <3>3
    <2>5. ASSUME NEW q \in Whole'
          PROVE  \E i \in 1..Len(u) : u[i] = q
        <3>1. CASE q = r
            <4>1. Len(s) + 1 \in 1..Len(u) BY <1>8, <1>10
            <4>2. QED BY <1>10, <3>1, <4>1
        <3>2. CASE q \in Whole
            <4>1. PICK i \in 1..Len(s) : s[i] = q BY <3>2 DEF InOrder
            <4>2. i \in 1..Len(u) BY <1>8, <1>10
            <4>3. QED BY <1>10, <4>1, <4>2
        <3>3. QED BY <1>14, <3>1, <3>2
    <2>6. QED BY <2>3, <2>4, <2>5 DEF InOrder
<1>16. TailAt(v[Len(v)])'
    <2>1. TailAt(e)' BY <1>9 DEF TailAt
    <2>2. v[Len(v)] = e BY <1>11
    <2>3. QED BY <2>1, <2>2
<1>17. Replayed(u, v)'
    <2>1. rPc = "none" /\ yielded = <<>> BY DEF Replayed
    <2>2. rPc' = "none" /\ yielded' = <<>> BY <2>1 DEF readerVars
    <2>3. QED BY <2>2 DEF Replayed
<1>18. QED BY <1>5, <1>10, <1>11, <1>13, <1>15, <1>16, <1>17

\* The payload is written, completely or not.
LEMMA PayloadKeeps ==
    ASSUME NEW s \in Seq(Nat), NEW st \in Seq(Nat), Known(s, st), WritePayload
    PROVE  \E u, v \in Seq(Nat) : Known(u, v)'
<1> USE DEF Known
<1>1. PICK z, r : z = st[Len(st)] /\ r = current OBVIOUS
<1>2. /\ wPc = "payload" /\ variant' = variant /\ UNCHANGED readerVars
      /\ current \in Nat /\ current <= Len(Events) /\ Len(pcap) \in Nat /\ H \in Nat
      /\ torn \subseteq Nat /\ \A t \in torn : t < current
    BY PcapTypes DEF WritePayload, WriterInv, PcapTypeOK
<1>3. PICK n \in Nat : n = Events[r].size
    <2>1. r \in 1..Len(Events) BY <1>1, <1>2, PcapTypes DEF PcapTypeOK
    <2>2. QED BY <2>1, PcapTypes
<1>4. torn = {} => Len(pcap) + 1 = z + H /\ CellsAt(z, r, "header", H) BY <1>1, <1>2 DEF TailAt
<1>5. CASE pcap' = pcap \o Part(r, "data", n) /\ wPc' = "idle" /\ torn' = torn /\ current' = current + 1
    <2>1. CASE torn = {} BY <1>1, <1>2, <1>3, <1>5, <2>1, RecordWhole
    <2>2. CASE torn # {}
        <3>1. Grown(n)
            <4>1. PICK y : y = Len(pcap) + 1 OBVIOUS
            <4>2. QED BY <1>1, <1>5, <4>1, PartAppended
        <3>2. PcapTypeOK' /\ WriterInv' BY <1>2, <1>5, <3>1, RecordEnds
        <3>3. Layout(s, st)' BY <3>1, LayoutKept
        <3>4. PICK t \in torn : t < current BY <1>2, <2>2
        <3>5. InOrder(s)'
            <4>1. \A q : q \in Whole' <=> q \in 1..(current' - 1) /\ Eligible(q) /\ \A x \in torn : q < x
                BY <1>5 DEF Whole, Eligible
            <4>2. \A q : q \in Whole <=> q \in 1..(current - 1) /\ Eligible(q) /\ \A x \in torn : q < x
                BY DEF Whole
            <4>3. \A q \in 1..(current' - 1) : q < t => q \in 1..(current - 1) BY <1>2, <1>5, <3>4
            <4>4. \A q \in 1..(current - 1) : q \in 1..(current' - 1) BY <1>2, <1>5
            <4>5. Whole' = Whole BY <3>4, <4>1, <4>2, <4>3, <4>4
            <4>6. QED BY <4>5, OrderKept
        <3>6. TailAt(z)'
            <4>1. PICK i \in DOMAIN pcap : pcap[i].rec = current BY <1>2 DEF WriterInv
            <4>2. i \in DOMAIN pcap' /\ pcap'[i].rec = current
                <5>1. DOMAIN pcap' = 1..(Len(pcap) + n) BY <3>1, LenProperties DEF Grown
                <5>2. i \in 1..Len(pcap) BY <4>1, PcapTypes
                <5>3. QED BY <1>2, <3>1, <4>1, <5>1, <5>2 DEF Grown
            <4>3. ~(pcap'[i].rec <= t) BY <1>2, <3>4, <4>2
            <4>4. ~TornLast' BY <1>5, <3>4, <4>2, <4>3 DEF TornLast
            <4>5. QED BY <1>5, <2>2, <4>4 DEF TailAt
        <3>7. Replayed(s, st)' BY <1>2, <1>5, NotRead
        <3>8. Known(s, st)' BY <1>1, <3>2, <3>3, <3>5, <3>6, <3>7
        <3>9. QED BY <3>8
    <2>3. QED BY <2>1, <2>2
<1>6. ASSUME NEW k \in 0..(n - 1),
             pcap' = pcap \o Part(r, "data", k), wPc' = "idle", torn' = torn \cup {current},
             current' = current + 1
      PROVE  Known(s, st)'
    <2>1. k \in Nat /\ k < n BY <1>3
    <2>2. Grown(k)
        <3>1. PICK y : y = Len(pcap) + 1 OBVIOUS
        <3>2. QED BY <1>1, <1>6, <2>1, <3>1, PartAppended
    <2>3. PcapTypeOK' /\ WriterInv' BY <1>2, <1>6, <2>1, <2>2, RecordEnds
    <2>4. torn = {} => CellsAt(z, r, "header", H)' /\ Len(pcap') + 1 < z + H + Events[r].size
        <3>1. torn = {} => CellsAt(z, r, "header", H)' BY <1>4, <2>1, <2>2, CellsKept
        <3>2. Len(pcap') = Len(pcap) + k BY <2>2 DEF Grown
        <3>3. Len(st) \in 1..Len(st) BY LenProperties DEF Layout
        <3>4. z \in Nat BY <1>1, <3>3, ElementOfSeq
        <3>5. torn = {} => Len(pcap') + 1 < z + H + n BY <1>2, <1>4, <2>1, <3>2, <3>4
        <3>6. QED BY <1>3, <3>1, <3>5
    <2>5. Layout(s, st)' /\ InOrder(s)' /\ TailAt(z)' BY <1>1, <1>2, <1>6, <2>1, <2>2, <2>4, TornKeeps
    <2>6. Replayed(s, st)' BY <1>2, <1>6, NotRead
    <2>7. QED BY <1>1, <2>3, <2>5, <2>6
<1>7. QED BY <1>1, <1>3, <1>5, <1>6 DEF WritePayload, WritePart

\* The sink is closed or the process ends: a record whose payload is missing is torn.
LEMMA KillKeeps ==
    ASSUME NEW s \in Seq(Nat), NEW st \in Seq(Nat), Known(s, st), CloseOrKill
    PROVE  Known(s, st)'
<1> USE DEF Known
<1>1. PICK z, r : z = st[Len(st)] /\ r = current OBVIOUS
<1>2. /\ wPc \in {"idle", "payload"} /\ wPc' = "ended" /\ rPc' = "open"
      /\ torn' = (IF wPc = "payload" THEN torn \cup {current} ELSE torn)
      /\ variant' = variant /\ pcap' = pcap /\ current' = current /\ yielded' = yielded
    BY DEF CloseOrKill, PcapTypeOK
<1>3. current \in Nat /\ torn \subseteq Nat /\ \A t \in torn : t < current
    BY <1>2, PcapTypes DEF PcapTypeOK, WriterInv
<1>4. Grown(0) BY <1>2, PcapTypes DEF Grown, PcapTypeOK
<1>5. PcapTypeOK'
    <2>1. current \in 1..current
        <3>1. current >= 1 BY PcapTypes DEF PcapTypeOK
        <3>2. QED BY <1>3, <3>1
    <2>2. torn' \subseteq 1..current' BY <1>2, <2>1 DEF PcapTypeOK
    <2>3. QED BY <1>2, <2>2 DEF PcapTypeOK
<1>6. WriterInv' BY <1>2 DEF WriterInv
<1>7. Replayed(s, st)' BY <1>2 DEF Replayed
<1>8. CASE wPc = "idle"
    <2>1. InOrder(s)'
        <3>1. Whole' = Whole BY <1>2, <1>8 DEF Whole, Eligible
        <3>2. QED BY <3>1, OrderKept
    <2>2. TailAt(z)'
        <3>1. TornLast' = TornLast BY <1>2, <1>8 DEF TornLast
        <3>2. \A q : CellsAt(z, q, "header", H)' <=> CellsAt(z, q, "header", H) BY <1>2 DEF CellsAt
        <3>3. QED BY <1>1, <1>2, <1>8, <3>1, <3>2 DEF TailAt
    <2>3. QED BY <1>1, <1>4, <1>5, <1>6, <1>7, <2>1, <2>2, LayoutKept
<1>9. CASE wPc = "payload"
    <2>1. current <= Len(Events) /\ Eligible(current) BY <1>9 DEF WriterInv
    <2>2. r \in 1..Len(Events) BY <1>1, <2>1, PcapTypes DEF PcapTypeOK
    <2>3. Events[r].size \in Nat /\ Events[r].size > 0 BY <1>1, <2>1, <2>2, PcapTypes DEF Eligible
    <2>4. torn = {} => CellsAt(z, r, "header", H)' /\ Len(pcap') + 1 < z + H + Events[r].size
        <3>1. torn = {} => CellsAt(z, r, "header", H) /\ Len(pcap) + 1 = z + H BY <1>1, <1>9 DEF TailAt
        <3>2. torn = {} => CellsAt(z, r, "header", H)' BY <1>4, <3>1, CellsKept
        <3>3. Len(st) \in 1..Len(st) BY LenProperties DEF Layout
        <3>4. z \in Nat /\ H \in Nat BY <1>1, <3>3, ElementOfSeq, PcapTypes
        <3>5. torn = {} => Len(pcap') + 1 < z + H + Events[r].size BY <1>2, <2>3, <3>1, <3>4
        <3>6. QED BY <3>2, <3>5
    <2>5. Layout(s, st)' /\ InOrder(s)' /\ TailAt(z)' BY <1>1, <1>2, <1>4, <1>9, <2>1, <2>4, TornKeeps
    <2>6. QED BY <1>1, <1>5, <1>6, <1>7, <2>5
<1>10. QED BY <1>2, <1>8, <1>9

-----------------------------------------------------------------------------
(* The reader.                                                             *)

\* The magic number tells the byte order and the resolution.
LEMMA OpenKeeps ==
    ASSUME NEW s \in Seq(Nat), NEW st \in Seq(Nat), Known(s, st), OpenPcap
    PROVE  Known(s, st)'
<1> USE DEF Known
<1>1. /\ rPc = "open" /\ rPc' = "next" /\ pos' = 2
      /\ variant' = variant /\ pcap' = pcap /\ current' = current /\ wPc' = wPc /\ torn' = torn
      /\ yielded' = yielded
    BY DEF OpenPcap
<1>2. isBE' = BigEndian(variant) /\ isNano' = Nano(variant)
    <2>1. variant \in {"le_us", "le_ns", "be_us", "be_ns"} BY PcapConstants DEF PcapTypeOK
    <2>2. PICK m : m = Reverse(Magic[variant]) OBVIOUS
    <2>3. /\ isBE' = (m \in {<<212, 195, 178, 161>>, <<77, 60, 178, 161>>})
          /\ isNano' = (m \in {<<161, 178, 60, 77>>, <<77, 60, 178, 161>>})
        BY <2>2 DEF OpenPcap
    <2>4. \A a, b, c, d : Reverse(<<a, b, c, d>>) = <<d, c, b, a>> BY DEF Reverse
    <2>5. CASE variant = "le_us"
        <3>1. m = <<161, 178, 195, 212>> BY <2>2, <2>4, <2>5 DEF Magic
        <3>2. QED BY <2>3, <2>5, <3>1 DEF BigEndian, Nano
    <2>6. CASE variant = "le_ns"
        <3>1. m = <<161, 178, 60, 77>> BY <2>2, <2>4, <2>6 DEF Magic
        <3>2. QED BY <2>3, <2>6, <3>1 DEF BigEndian, Nano
    <2>7. CASE variant = "be_us"
        <3>1. m = <<212, 195, 178, 161>> BY <2>2, <2>4, <2>7 DEF Magic
        <3>2. QED BY <2>3, <2>7, <3>1 DEF BigEndian, Nano
    <2>8. CASE variant = "be_ns"
        <3>1. m = <<77, 60, 178, 161>> BY <2>2, <2>4, <2>8 DEF Magic
        <3>2. QED BY <2>3, <2>8, <3>1 DEF BigEndian, Nano
    <2>9. QED BY <2>1, <2>5, <2>6, <2>7, <2>8
<1>3. PcapTypeOK' /\ WriterInv' BY <1>1 DEF PcapTypeOK, WriterInv, Eligible
<1>4. Grown(0) BY <1>1, PcapTypes DEF Grown, PcapTypeOK
<1>5. Layout(s, st)' BY <1>4, LayoutKept
<1>6. InOrder(s)'
    <2>1. Whole' = Whole BY <1>1 DEF Whole, Eligible
    <2>2. QED BY <2>1, OrderKept
<1>7. TailAt(st[Len(st)])'
    <2>1. PICK z : z = st[Len(st)] OBVIOUS
    <2>2. TornLast' = TornLast BY <1>1 DEF TornLast
    <2>3. \A q : CellsAt(z, q, "header", H)' <=> CellsAt(z, q, "header", H) BY <1>1 DEF CellsAt
    <2>4. TailAt(z)' BY <1>1, <2>1, <2>2, <2>3 DEF TailAt
    <2>5. QED BY <2>1, <2>4
<1>8. Replayed(s, st)'
    <2>1. yielded = <<>> /\ wPc = "ended" BY <1>1 DEF Replayed
    <2>2. st[1] = 2 /\ Len(<<>>) = 0 BY DEF Layout
    <2>3. Len(s) \in Nat BY LenProperties
    <2>4. BigEndian(variant)' = BigEndian(variant) /\ Nano(variant)' = Nano(variant) BY <1>1
    <2>5. QED BY <1>1, <1>2, <2>1, <2>2, <2>3, <2>4 DEF Replayed
<1>9. QED BY <1>3, <1>5, <1>6, <1>7, <1>8

\* A header that is there is recognised, in the right byte order.
LEMMA HeaderRead ==
    ASSUME PcapTypeOK, isBE = BigEndian(variant), NEW p \in Nat, pos = p, NEW r \in 1..Len(Events),
           CellsAt(p, r, "header", H)
    PROVE  IntactHeader /\ pcap[pos].rec = r
<1>1. H \in Nat /\ H >= 1 /\ r \in Nat BY PcapTypes
<1>2. 1 \in 1..H /\ p + 1 - 1 = p BY <1>1
<1>3. pcap[p + 1 - 1] = [rec |-> r, part |-> "header", k |-> 1] BY <1>2 DEF CellsAt
<1>4. pcap[p] = [rec |-> r, part |-> "header", k |-> 1] BY <1>2, <1>3
<1>5. SubSeq(pcap, p, p + H - 1) = Part(r, "header", H) BY <1>1, PartRead
<1>6. QED BY <1>4, <1>5 DEF IntactHeader

\* The time read back is the time recorded, to the resolution of the file.
LEMMA TimeRead ==
    ASSUME PcapTypeOK, isNano = Nano(variant), NEW r \in 1..Len(Events)
    PROVE  Stamp(Second(r), Frac(r)) = Recorded(r).ts
<1>1. PICK n \in Nat : n = Events[r].ns BY PcapTypes
<1>2. NsPerUs \in Nat \ {0} BY PcapConstants
<1>3. \A d \in Nat \ {0} : (n \div d) * d = n - (n % d) OBVIOUS
<1>4. CASE Nano(variant) BY <1>4 DEF Stamp, Frac, Recorded
<1>5. CASE ~Nano(variant)
    <2>1. (n \div NsPerUs) * NsPerUs = n - (n % NsPerUs) BY <1>2, <1>3
    <2>2. Stamp(Second(r), Frac(r)) = <<Second(r), (n \div NsPerUs) * NsPerUs>>
        BY <1>1, <1>5 DEF Stamp, Frac
    <2>3. Recorded(r).ts = <<Second(r), n - (n % NsPerUs)>> BY <1>1, <1>5 DEF Recorded
    <2>4. QED BY <2>1, <2>2, <2>3
<1>6. QED BY <1>4, <1>5

\* Reading changes nothing but what has been replayed.
LEMMA ReadFrame ==
    ASSUME NEW s \in Seq(Nat), NEW st \in Seq(Nat), Known(s, st),
           UNCHANGED <<variant, pcap, current, wPc, torn, isBE, isNano>>,
           rPc' \in {"next", "ended"}, \E S : yielded' \in Seq(S)
    PROVE  /\ PcapTypeOK' /\ WriterInv' /\ Layout(s, st)' /\ InOrder(s)' /\ TailAt(st[Len(st)])'
           /\ TornLast' = TornLast /\ \A r : Recorded(r)' = Recorded(r)
<1> USE DEF Known
<1>1. PcapTypeOK' BY DEF PcapTypeOK
<1>2. WriterInv' BY DEF WriterInv, Eligible
<1>3. Grown(0) BY PcapTypes DEF Grown, PcapTypeOK
<1>4. Layout(s, st)' BY <1>3, LayoutKept
<1>5. InOrder(s)'
    <2>1. Whole' = Whole BY DEF Whole, Eligible
    <2>2. QED BY <2>1, OrderKept
<1>6. TornLast' = TornLast BY DEF TornLast
<1>7. TailAt(st[Len(st)])'
    <2>1. PICK z : z = st[Len(st)] OBVIOUS
    <2>2. \A q : CellsAt(z, q, "header", H)' <=> CellsAt(z, q, "header", H) BY DEF CellsAt
    <2>3. TailAt(z)' BY <1>6, <2>1, <2>2 DEF TailAt
    <2>4. QED BY <2>1, <2>3
<1>8. \A r : Recorded(r)' = Recorded(r) BY DEF Recorded, Nano, Second, Part
<1>9. QED BY <1>1, <1>2, <1>4, <1>5, <1>6, <1>7, <1>8

\* A packet that is appended leaves the others.
LEMMA YieldedAppend ==
    ASSUME PcapTypeOK, NEW e, yielded' = Append(yielded, e)
    PROVE  /\ Len(yielded) \in Nat /\ Len(yielded') = Len(yielded) + 1
           /\ yielded'[Len(yielded) + 1] = e /\ \A i \in 1..Len(yielded) : yielded'[i] = yielded[i]
           /\ \E S : yielded' \in Seq(S)
<1>1. PICK S : yielded \in Seq(S) BY DEF PcapTypeOK
<1>2. PICK T : T = S \cup {e} OBVIOUS
<1>3. yielded \in Seq(T) /\ e \in T BY <1>1, <1>2, SeqMonotonic
<1>4. QED BY <1>3, AppendProperties, LenProperties

\* A record that is whole is replayed with its data and time.
LEMMA NextWhole ==
    ASSUME NEW s \in Seq(Nat), NEW st \in Seq(Nat), Known(s, st), NextPacket,
           Len(yielded) < Len(s)
    PROVE  Known(s, st)'
<1> USE DEF Known
<1>1. /\ rPc = "next" /\ wPc = "ended" /\ isBE = BigEndian(variant) /\ isNano = Nano(variant)
      /\ UNCHANGED <<variant, pcap, current, wPc, torn, isBE, isNano>>
      /\ \A i \in 1..Len(s) : i <= Len(yielded) => yielded[i] = Recorded(s[i])
      /\ Len(yielded) <= Len(s) => pos = st[Len(yielded) + 1]
    BY DEF NextPacket, Replayed
<1>2. PICK m : m = Len(yielded) OBVIOUS
<1>3. /\ m \in Nat /\ Len(s) \in Nat /\ Len(st) = Len(s) + 1 /\ m < Len(s)
      /\ \A i \in 1..Len(s) : s[i] \in Nat
      /\ \A i \in 1..Len(st) : st[i] \in Nat
    BY <1>2, LenProperties, ElementOfSeq DEF PcapTypeOK, Layout
<1>4. m + 1 \in 1..Len(s) /\ m + 1 \in 1..Len(st) /\ m + 2 \in 1..Len(st) /\ (m + 1) + 1 = m + 2
    BY <1>3
<1>5. PICK r, p, q : r = s[m + 1] /\ p = st[m + 1] /\ q = st[m + 2] OBVIOUS
<1>6. p \in Nat /\ q \in Nat /\ pos = p BY <1>1, <1>2, <1>3, <1>4, <1>5
<1>7. r \in 1..Len(Events)
    <2>1. r \in 1..(current - 1) BY <1>4, <1>5 DEF InOrder, Whole
    <2>2. QED BY <2>1, PcapTypes DEF PcapTypeOK
<1>8. PICK n \in Nat : n = Events[r].size BY <1>7, PcapTypes
<1>9. /\ q = p + H + n /\ CellsAt(p, r, "header", H) /\ CellsAt(p + H, r, "data", n)
      /\ q <= Len(pcap) + 1
    <2>1. st[(m + 1) + 1] = st[m + 1] + H + Events[s[m + 1]].size BY <1>4 DEF Layout
    <2>2. QED BY <1>4, <1>5, <1>8, <2>1 DEF Layout
<1>10. IntactHeader /\ pcap[pos].rec = r BY <1>1, <1>6, <1>7, <1>9, HeaderRead
<1>11. H \in Nat /\ Len(pcap) \in Nat /\ r \in Nat /\ p + H \in Nat BY <1>6, <1>7, PcapTypes
<1>12. ~(Len(pcap) - pos + 1 < H) /\ ~(Len(pcap) - (pos + H) + 1 < n)
    <2>1. \A l, h, y, x \in Nat : y + h + x <= l + 1 => ~(l - y + 1 < h) /\ ~(l - (y + h) + 1 < x)
        OBVIOUS
    <2>2. p + H + n <= Len(pcap) + 1 BY <1>9
    <2>3. QED BY ONLY <1>6, <1>8, <1>11, <2>1, <2>2, n \in Nat
<1>13. PICK e : e = [data |-> SubSeq(pcap, pos + H, pos + H + n - 1),
                     ts |-> Stamp(Second(r), Frac(r))]
    OBVIOUS
<1>14. pos' = pos + H + n /\ rPc' = "next" /\ yielded' = Append(yielded, e)
    <2>1. ~(Len(pcap) - pos + 1 < H) BY <1>12
    <2>2. {Events[pcap[pos].rec].size} = {n} BY <1>8, <1>10
    <2>3. QED BY <1>10, <1>12, <1>13, <2>1, <2>2 DEF NextPacket
<1>15. e = Recorded(r)
    <2>1. SubSeq(pcap, p + H, p + H + n - 1) = Part(r, "data", n) BY <1>9, <1>11, PartRead
    <2>2. Stamp(Second(r), Frac(r)) = Recorded(r).ts BY <1>1, <1>7, TimeRead
    <2>3. e = [data |-> Part(r, "data", n), ts |-> Recorded(r).ts] BY <1>6, <1>13, <2>1, <2>2
    <2>4. QED BY <1>8, <2>3 DEF Recorded
<1>16. /\ Len(yielded') = m + 1 /\ yielded'[m + 1] = Recorded(r)
       /\ \A i \in 1..m : yielded'[i] = yielded[i]
       /\ \E S : yielded' \in Seq(S)
    BY <1>2, <1>14, <1>15, YieldedAppend
<1>17. /\ PcapTypeOK' /\ WriterInv' /\ Layout(s, st)' /\ InOrder(s)' /\ TailAt(st[Len(st)])'
       /\ TornLast' = TornLast /\ \A x : Recorded(x)' = Recorded(x)
    BY <1>1, <1>14, <1>16, ReadFrame
<1>18. Replayed(s, st)'
    <2>1. \A i \in 1..Len(s) : i <= m + 1 => yielded'[i] = Recorded(s[i])
        <3> SUFFICES ASSUME NEW i \in 1..Len(s), i <= m + 1 PROVE yielded'[i] = Recorded(s[i])
            OBVIOUS
        <3>1. CASE i = m + 1 BY <1>5, <1>16, <3>1
        <3>2. CASE i # m + 1
            <4>1. i \in 1..m BY <1>3, <3>2
            <4>2. QED BY <1>1, <1>2, <1>3, <1>16, <4>1
        <3>3. QED BY <3>1, <3>2
    <2>2. \A i \in 1..Len(s) : i <= Len(yielded') => yielded'[i] = Recorded(s[i])'
        BY <1>16, <1>17, <2>1
    <2>3. pos' = st[Len(yielded') + 1] BY <1>4, <1>5, <1>6, <1>9, <1>14, <1>16
    <2>4. Len(yielded') <= Len(s) BY <1>3, <1>16
    <2>5. isBE' = BigEndian(variant)' /\ isNano' = Nano(variant)' BY <1>1
    <2>6. wPc' = "ended" BY <1>1
    <2>7. QED BY <1>14, <2>2, <2>3, <2>4, <2>5, <2>6 DEF Replayed
<1>19. QED BY <1>17, <1>18

\* Behind the whole records the replay ends, unless something was written behind a torn one.
LEMMA TailEnds ==
    ASSUME NEW s \in Seq(Nat), NEW st \in Seq(Nat), Known(s, st), NextPacket,
           Len(yielded) = Len(s), TornLast
    PROVE  rPc' = "ended" /\ UNCHANGED <<pos, yielded>>
<1> USE DEF Known
<1>1. /\ rPc = "next" /\ wPc = "ended" /\ isBE = BigEndian(variant) /\ pos = st[Len(st)]
    BY DEF NextPacket, Replayed, Layout
<1>2. PICK z : z = st[Len(st)] OBVIOUS
<1>3. z \in Nat /\ Len(pcap) \in Nat /\ H \in Nat /\ H >= 1
    <2>1. Len(st) \in 1..Len(st) BY LenProperties DEF Layout
    <2>2. QED BY <1>2, <2>1, ElementOfSeq, PcapTypes
<1>4. CASE Len(pcap) + 1 < z + H
    <2>1. Len(pcap) - pos + 1 < H BY <1>1, <1>2, <1>3, <1>4
    <2>2. QED BY <2>1 DEF NextPacket
<1>5. CASE \E r \in 1..Len(Events) : /\ CellsAt(z, r, "header", H)
                                     /\ Len(pcap) + 1 < z + H + Events[r].size
    <2>1. PICK r \in 1..Len(Events) : /\ CellsAt(z, r, "header", H)
                                      /\ Len(pcap) + 1 < z + H + Events[r].size
        BY <1>5
    <2>2. IntactHeader /\ pcap[pos].rec = r BY <1>1, <1>2, <1>3, <2>1, HeaderRead
    <2>3. PICK n \in Nat : n = Events[r].size BY PcapTypes
    <2>4. Len(pcap) - (pos + H) + 1 < n
        <3>1. \A l, h, y, x \in Nat : l + 1 < y + h + x => l - (y + h) + 1 < x OBVIOUS
        <3>2. pos = z /\ Len(pcap) + 1 < z + H + n BY <1>1, <1>2, <2>1, <2>3
        <3>3. QED BY ONLY <1>3, <2>3, <3>1, <3>2, n \in Nat
    <2>5. {Events[pcap[pos].rec].size} = {n} BY <2>2, <2>3
    <2>6. QED BY <2>2, <2>4, <2>5 DEF NextPacket
<1>6. Len(pcap) + 1 < z + H \/ \E r \in 1..Len(Events) : /\ CellsAt(z, r, "header", H)
                                                         /\ Len(pcap) + 1 < z + H + Events[r].size
    <2>1. CASE torn = {}
        <3>1. Len(pcap) + 1 = z BY <1>1, <1>2, <2>1 DEF TailAt
        <3>2. QED BY <1>3, <3>1
    <2>2. CASE torn # {} BY <1>2, <2>2 DEF TailAt
    <2>3. QED BY <2>1, <2>2
<1>7. QED BY <1>4, <1>5, <1>6

\* The reader has replayed the whole records: it ends, or finds more.
LEMMA NextTail ==
    ASSUME NEW s \in Seq(Nat), NEW st \in Seq(Nat), Known(s, st), NextPacket,
           Len(yielded) >= Len(s)
    PROVE  Known(s, st)'
<1> USE DEF Known
<1>1. /\ rPc = "next" /\ wPc = "ended" /\ isBE = BigEndian(variant) /\ isNano = Nano(variant)
      /\ UNCHANGED <<variant, pcap, current, wPc, torn, isBE, isNano>>
      /\ \A i \in 1..Len(s) : i <= Len(yielded) => yielded[i] = Recorded(s[i])
      /\ Len(yielded) <= Len(s) => pos = st[Len(yielded) + 1]
      /\ TornLast => Len(yielded) <= Len(s)
    BY DEF NextPacket, Replayed
<1>2. Len(yielded) \in Nat /\ Len(s) \in Nat /\ \E S : yielded \in Seq(S)
    BY LenProperties DEF PcapTypeOK
<1>3. isBE' = BigEndian(variant)' /\ isNano' = Nano(variant)' /\ wPc' = "ended" BY <1>1
<1>4. CASE rPc' = "ended" /\ UNCHANGED <<pos, yielded>>
    <2>1. /\ PcapTypeOK' /\ WriterInv' /\ Layout(s, st)' /\ InOrder(s)' /\ TailAt(st[Len(st)])'
          /\ TornLast' = TornLast /\ \A x : Recorded(x)' = Recorded(x)
        BY <1>1, <1>2, <1>4, ReadFrame
    <2>2. yielded' = yielded /\ pos' = pos /\ rPc' = "ended" BY <1>4
    <2>3. \A i \in 1..Len(s) : i <= Len(yielded') => yielded'[i] = Recorded(s[i])'
        BY <1>1, <2>1, <2>2
    <2>4. Replayed(s, st)' BY <1>1, <1>3, <2>1, <2>2, <2>3 DEF Replayed
    <2>5. QED BY <2>1, <2>4
<1>5. CASE ~TornLast /\ rPc' = "next" /\ \E e : yielded' = Append(yielded, e)
    <2>1. /\ Len(yielded') = Len(yielded) + 1 /\ \A i \in 1..Len(yielded) : yielded'[i] = yielded[i]
          /\ \E S : yielded' \in Seq(S)
        BY <1>5, YieldedAppend
    <2>2. /\ PcapTypeOK' /\ WriterInv' /\ Layout(s, st)' /\ InOrder(s)' /\ TailAt(st[Len(st)])'
          /\ TornLast' = TornLast /\ \A x : Recorded(x)' = Recorded(x)
        BY <1>1, <1>5, <2>1, ReadFrame
    <2>3. \A i \in 1..Len(s) : yielded'[i] = Recorded(s[i])
        <3> TAKE i \in 1..Len(s)
        <3>1. i \in 1..Len(yielded) BY <1>2
        <3>2. QED BY <1>1, <2>1, <3>1
    <2>4. \A i \in 1..Len(s) : i <= Len(yielded') => yielded'[i] = Recorded(s[i])' BY <2>2, <2>3
    <2>5. ~(Len(yielded') <= Len(s)) BY <1>2, <2>1
    <2>6. rPc' = "next" /\ ~TornLast' BY <1>5, <2>2
    <2>7. Replayed(s, st)' BY <1>3, <2>4, <2>5, <2>6 DEF Replayed
    <2>8. QED BY <2>2, <2>7
<1>6. \/ rPc' = "ended" /\ UNCHANGED <<pos, yielded>>
      \/ rPc' = "next" /\ \E e : yielded' = Append(yielded, e)
    BY DEF NextPacket
<1>7. TornLast => rPc' = "ended" /\ UNCHANGED <<pos, yielded>> BY <1>1, <1>2, TailEnds
<1>8. QED BY <1>4, <1>5, <1>6, <1>7

-----------------------------------------------------------------------------
(* The theorems.                                                           *)

\* At first there is the file header and no record.
LEMMA InitPcap == PcapInit => PcapInv
<1> SUFFICES ASSUME PcapInit PROVE PcapInv OBVIOUS
<1>1. PICK s, st : s = <<>> /\ st = <<2>> OBVIOUS
<1>2. s \in Seq(Nat) /\ st \in Seq(Nat) /\ Len(s) = 0 /\ Len(st) = 1 /\ st[1] = 2 BY <1>1
<1>3. Len(pcap) = 1 /\ pcap \in Seq(Cell) BY DEF PcapInit, Cell
<1>4. PcapTypeOK
    <2>1. current \in 1..(Len(Events) + 1)
        <3>1. Len(Events) \in Nat BY PcapConstants, LenProperties
        <3>2. QED BY <3>1 DEF PcapInit
    <2>2. yielded \in Seq({}) BY DEF PcapInit
    <2>3. QED BY <1>3, <2>1, <2>2 DEF PcapInit, PcapTypeOK
<1>5. WriterInv BY DEF PcapInit, WriterInv
<1>6. Layout(s, st)
    <2>1. \A i \in 1..Len(st) : st[i] >= 2 /\ st[i] <= Len(pcap) + 1 BY <1>2, <1>3
    <2>2. QED BY <1>2, <2>1 DEF Layout
<1>7. InOrder(s)
    <2>1. Whole = {} BY DEF Whole, PcapInit
    <2>2. QED BY <1>2, <2>1 DEF InOrder
<1>8. TailAt(st[Len(st)]) BY <1>2, <1>3 DEF TailAt, PcapInit
<1>9. Replayed(s, st) BY DEF Replayed, PcapInit
<1>10. QED BY <1>2, <1>4, <1>5, <1>6, <1>7, <1>8, <1>9 DEF PcapInv, RecordsInv

\* The inductive invariant of a recording and its replay: where the whole records are in
\* the file, what is behind them, and how far the reader has come.
THEOREM PcapInvariance == PcapSpec => []PcapInv
<1>1. PcapInv /\ [PcapNext]_pcapVars => PcapInv'
    <2> SUFFICES ASSUME PcapInv, [PcapNext]_pcapVars PROVE PcapInv' OBVIOUS
    <2>1. PICK s, st \in Seq(Nat) : Known(s, st) BY DEF PcapInv, RecordsInv, Known
    <2>2. ASSUME NEW u \in Seq(Nat), NEW v \in Seq(Nat), Known(u, v)'
          PROVE  PcapInv'
        BY <2>2 DEF PcapInv, RecordsInv, Known
    <2>3. CASE Skip BY <2>1, <2>2, <2>3, SkipKeeps
    <2>4. CASE WriteHeader BY <2>1, <2>2, <2>4, HeaderKeeps
    <2>5. CASE WritePayload BY <2>1, <2>2, <2>5, PayloadKeeps
    <2>6. CASE CloseOrKill BY <2>1, <2>2, <2>6, KillKeeps
    <2>7. CASE OpenPcap BY <2>1, <2>2, <2>7, OpenKeeps
    <2>8. CASE NextPacket
        <3>1. Len(yielded) \in Nat /\ Len(s) \in Nat BY <2>1, LenProperties DEF Known, PcapTypeOK
        <3>2. CASE Len(yielded) < Len(s) BY <2>1, <2>2, <2>8, <3>2, NextWhole
        <3>3. CASE Len(yielded) >= Len(s) BY <2>1, <2>2, <2>8, <3>3, NextTail
        <3>4. QED BY <3>1, <3>2, <3>3
    <2>9. CASE UNCHANGED pcapVars
        <3> SUFFICES Known(s, st)' BY <2>1, <2>2
        <3>1. /\ variant' = variant /\ pcap' = pcap /\ current' = current /\ wPc' = wPc /\ torn' = torn
              /\ rPc' = rPc /\ isBE' = isBE /\ isNano' = isNano /\ pos' = pos /\ yielded' = yielded
            BY <2>9 DEF pcapVars
        <3>2. PcapTypeOK' /\ WriterInv' BY <2>1, <3>1 DEF Known, PcapTypeOK, WriterInv, Eligible
        <3>3. Grown(0) BY <2>1, <3>1, PcapTypes DEF Grown, PcapTypeOK, Known
        <3>4. Layout(s, st)' BY <2>1, <3>3, LayoutKept DEF Known
        <3>5. Whole' = Whole /\ TornLast' = TornLast BY <3>1 DEF Whole, Eligible, TornLast
        <3>6. InOrder(s)' BY <2>1, <3>5, OrderKept DEF Known
        <3>7. PICK z : z = st[Len(st)] OBVIOUS
        <3>8. \A q : CellsAt(z, q, "header", H)' <=> CellsAt(z, q, "header", H) BY <3>1 DEF CellsAt
        <3>9. TailAt(z)' BY <2>1, <3>1, <3>5, <3>7, <3>8 DEF TailAt, Known
        <3>10. \A r : Recorded(r)' = Recorded(r) BY <3>1 DEF Recorded, Nano, Second, Part
        <3>11. BigEndian(variant)' = BigEndian(variant) /\ Nano(variant)' = Nano(variant) BY <3>1
        <3>12. Replayed(s, st)' BY <2>1, <3>1, <3>5, <3>10, <3>11 DEF Replayed, Known
        <3>13. QED BY <3>2, <3>4, <3>6, <3>7, <3>9, <3>12 DEF Known
    <2>10. QED BY <2>3, <2>4, <2>5, <2>6, <2>7, <2>8, <2>9 DEF PcapNext
<1>2. QED BY <1>1, InitPcap, PTL DEF PcapSpec

\* A set that an increasing sequence lists has the sequence's length.
LEMMA Listed ==
    ASSUME NEW s \in Seq(Nat), NEW n \in 0..Len(s), NEW W,
           \A i, j \in 1..Len(s) : i < j => s[i] < s[j],
           \A x : x \in W <=> \E i \in 1..n : s[i] = x
    PROVE  Cardinality(W) = n
<1>1. Len(s) \in Nat /\ n \in Nat /\ \A i \in 1..n : i \in 1..Len(s) /\ s[i] \in Nat
    BY LenProperties, ElementOfSeq
<1>2. PICK f : f = [i \in 1..n |-> s[i]] OBVIOUS
<1>3. f \in Bijection(1..n, W)
    <2>1. f \in [1..n -> W] BY <1>2
    <2>2. ASSUME NEW i \in 1..n, NEW j \in 1..n, f[i] = f[j]
          PROVE  i = j
        <3>1. s[i] = s[j] /\ s[i] \in Nat BY <1>1, <1>2, <2>2
        <3>2. ~(s[i] < s[j]) /\ ~(s[j] < s[i]) BY <3>1
        <3>3. ~(i < j) /\ ~(j < i) BY <1>1, <3>2
        <3>4. QED BY <1>1, <3>3
    <2>3. \A x \in W : \E i \in 1..n : f[i] = x BY <1>2
    <2>4. QED BY <2>1, <2>2, <2>3, Fun_IsBij DEF Bijection, Injection, Surjection, IsInjective
<1>4. ExistsBijection(1..n, W) BY <1>3 DEF ExistsBijection
<1>5. IsFiniteSet(1..n) /\ Cardinality(1..n) = n
    <2>1. IsFiniteSet(1..n) /\ Cardinality(1..n) = IF 1 > n THEN 0 ELSE n - 1 + 1
        BY ONLY <1>1, FS_Interval
    <2>2. QED BY <1>1, <2>1
<1>6. QED BY <1>4, <1>5, FS_Bijection

\* For every sequence of events, every kind of file and every moment at which the
\* process ends or a write fails, the replay returns what was recorded.
THEOREM PcapReplays == PcapSpec => []ReplayReturnsRecorded
<1>1. PcapInv => ReplayReturnsRecorded
    <2> SUFFICES ASSUME PcapInv, rPc = "ended"
                 PROVE  /\ \A r \in Whole : Rank(r) <= Len(yielded) /\ yielded[Rank(r)] = Recorded(r)
                        /\ TornLast => Len(yielded) = Cardinality(Whole)
        BY DEF ReplayReturnsRecorded
    <2>1. PICK s, st \in Seq(Nat) : Known(s, st) BY DEF PcapInv, RecordsInv, Known
    <2>2. /\ \A i \in 1..Len(s) : i <= Len(yielded) => yielded[i] = Recorded(s[i])
          /\ TornLast => Len(yielded) <= Len(s)
          /\ Len(yielded) >= Len(s)
        BY <2>1 DEF Known, Replayed
    <2>3. Len(yielded) \in Nat /\ Len(s) \in Nat /\ \A i \in 1..Len(s) : s[i] \in Nat
        BY <2>1, LenProperties, ElementOfSeq DEF Known, PcapTypeOK
    <2>4. \A i, j \in 1..Len(s) : i < j => s[i] < s[j] BY <2>1 DEF Known, InOrder
    <2>5. \A x : x \in Whole <=> \E i \in 1..Len(s) : s[i] = x BY <2>1 DEF Known, InOrder
    <2>6. Cardinality(Whole) = Len(s)
        <3>1. Len(s) \in 0..Len(s) BY <2>3
        <3>2. QED BY <2>4, <2>5, <3>1, Listed
    <2>7. ASSUME NEW i \in 1..Len(s)
          PROVE  Rank(s[i]) = i
        <3>1. PICK r : r = s[i] OBVIOUS
        <3>2. PICK W : W = {q \in Whole : q <= r} OBVIOUS
        <3>3. \A x : x \in W <=> \E j \in 1..i : s[j] = x
            <4> TAKE x
            <4>1. ASSUME x \in W PROVE \E j \in 1..i : s[j] = x
                <5>1. PICK j \in 1..Len(s) : s[j] = x BY <2>5, <3>2, <4>1
                <5>2. s[j] <= s[i] BY <3>1, <3>2, <4>1, <5>1
                <5>3. ~(s[i] < s[j]) BY <2>3, <5>2
                <5>4. ~(i < j) BY <2>4, <5>3
                <5>5. QED BY <5>1, <5>4
            <4>2. ASSUME NEW j \in 1..i, s[j] = x PROVE x \in W
                <5>1. j \in 1..Len(s) /\ (j < i \/ j = i) BY <2>3
                <5>2. s[j] <= s[i] BY <2>3, <2>4, <5>1
                <5>3. QED BY <2>5, <3>1, <3>2, <4>2, <5>1, <5>2
            <4>3. QED BY <4>1, <4>2
        <3>4. i \in 0..Len(s) BY <2>3
        <3>5. Cardinality(W) = i BY <2>4, <3>3, <3>4, Listed
        <3>6. QED BY <3>1, <3>2, <3>5 DEF Rank
    <2>8. ASSUME NEW r \in Whole
          PROVE  Rank(r) <= Len(yielded) /\ yielded[Rank(r)] = Recorded(r)
        <3>1. PICK i \in 1..Len(s) : s[i] = r BY <2>5
        <3>2. Rank(r) = i BY <2>7, <3>1
        <3>3. i <= Len(yielded) BY <2>2, <2>3
        <3>4. QED BY <2>2, <3>1, <3>2, <3>3
    <2>9. QED BY <2>2, <2>3, <2>6, <2>8
<1>2. QED BY <1>1, PcapInvariance, PTL

-----------------------------------------------------------------------------
(* JsonlFile: the inductive invariant.                                     *)

LineCell == Workers \X Nat \X Nat

\* What has been accepted: a short write moves cells from the buffer to the file and
\* drops none.
Stream == file \o buf

\* The newline of line n of worker w stands behind that whole line.
EndsLine(s, i) ==
  LET w == s[i][1]  n == s[i][2]
  IN /\ n \in 1..Len(Lines[w]) /\ Lines[w][n] < i
     /\ \A k \in 1..Lines[w][n] : s[(i - 1 - Lines[w][n]) + k] = <<w, n, k>>

AllWhole(s) == \A i \in 1..Len(s) : IsNewline(s[i]) => EndsLine(s, i)
Ordered(s) ==
  \A i \in 1..Len(s), j \in 1..Len(s) :
    /\ IsNewline(s[i]) /\ IsNewline(s[j]) /\ j < i /\ s[j][1] = s[i][1]
    => s[j][2] < s[i][2]

JsonlTypeOK ==
  /\ next \in [Workers -> Nat] /\ \A w \in Workers : next[w] <= Len(Lines[w])
  /\ file \in Seq(LineCell) /\ buf \in Seq(LineCell) /\ sent \in Seq(LineCell)

\* The lock: one worker is between its data and its newline.
LockInv ==
  /\ half = {} \/ \E w \in Workers : half = {w} /\ next[w] # 0
  /\ ioErr => half = {}

\* No newline in the stream is ahead of its worker; the one between its data and its
\* newline has not yet written the newline.
BehindInv ==
  \A i \in 1..Len(Stream) : IsNewline(Stream[i]) =>
    /\ Stream[i][2] <= next[Stream[i][1]]
    /\ Stream[i][1] \in half => Stream[i][2] # next[Stream[i][1]]

\* As long as there was no error the stream is what was acknowledged, and the data of
\* the line under way.
SentInv ==
  /\ ~ioErr /\ half = {} => Stream = sent
  /\ ~ioErr => \A w \in half : Stream = sent \o Data(w, next[w])
  /\ ~ioErr => ~failed
  /\ closeRes = "nil" => ~ioErr /\ half = {} /\ buf = <<>>

JsonlInv ==
  JsonlTypeOK /\ LockInv /\ AllWhole(Stream) /\ Ordered(Stream) /\ BehindInv /\ SentInv

-----------------------------------------------------------------------------
(* The buffered writer.                                                    *)

\* A write to the file, whole or short: what is not in the file stays in the buffer.
LEMMA FileWriteKeeps ==
    ASSUME file \in Seq(LineCell), NEW out \in Seq(LineCell), NEW rest \in Seq(LineCell),
           FileWrite(out, rest)
    PROVE  /\ file' \in Seq(LineCell) /\ buf' \in Seq(LineCell)
           /\ Stream' = file \o (out \o rest)
           /\ ioErr => ioErr'
           /\ ~ioErr' => buf' = rest
<1>1. CASE isOpen /\ file' = file \o out /\ buf' = rest /\ UNCHANGED ioErr
  <2>1. file' \in Seq(LineCell) /\ buf' \in Seq(LineCell)
    BY <1>1, ConcatProperties
  <2>2. Stream' = file \o (out \o rest)
    BY <1>1, ConcatAssociative DEF Stream
  <2> QED
    BY <1>1, <2>1, <2>2
<1>2. ASSUME NEW k \in 0..(Len(out) - 1), file' = file \o SubSeq(out, 1, k),
             buf' = SubSeq(out, k + 1, Len(out)) \o rest, ioErr' = TRUE
      PROVE  /\ file' \in Seq(LineCell) /\ buf' \in Seq(LineCell)
             /\ Stream' = file \o (out \o rest)
  <2>1. PICK a, b : a = SubSeq(out, 1, k) /\ b = SubSeq(out, k + 1, Len(out))
    OBVIOUS
  <2>2. Len(out) \in Nat /\ k \in Nat /\ k <= Len(out) /\ \A i \in 1..Len(out) : out[i] \in LineCell
    BY <1>2, LenProperties, ElementOfSeq
  <2>3. a \in Seq(LineCell)
    <3>1. \A i \in 1..k : out[i] \in LineCell
      BY <2>2
    <3> QED
      BY <2>1, <2>2, <3>1, SubSeqProperties
  <2>4. b \in Seq(LineCell)
    <3>1. \A i \in (k + 1)..Len(out) : out[i] \in LineCell
      BY <2>2
    <3> QED
      BY <2>1, <2>2, <3>1, SubSeqProperties
  <2>5. a \o b = out
    <3>1. 1 \in 1..(Len(out) + 1) /\ k \in (1 - 1)..Len(out) /\ Len(out) \in k..Len(out)
      BY <2>2
    <3>2. SubSeq(out, 1, k) \o SubSeq(out, k + 1, Len(out)) = SubSeq(out, 1, Len(out))
      BY <3>1, ConcatAdjacentSubSeq
    <3> QED
      BY <2>1, <3>2, SubSeqFull
  <2>6. file' \in Seq(LineCell) /\ buf' \in Seq(LineCell)
    BY <1>2, <2>1, <2>3, <2>4, ConcatProperties
  <2>7. (file \o a) \o (b \o rest) = file \o (out \o rest)
    <3>1. PICK c : c = b \o rest
      OBVIOUS
    <3>2. c \in Seq(LineCell)
      BY <2>4, <3>1, ConcatProperties
    <3>3. (file \o a) \o c = file \o (a \o c)
      BY <2>3, <3>2, ConcatAssociative
    <3>4. (a \o b) \o rest = a \o (b \o rest)
      <4>1. PICK d : d = rest
        OBVIOUS
      <4>2. d \in Seq(LineCell)
        BY <4>1
      <4>3. (a \o b) \o d = a \o (b \o d)
        BY <2>3, <2>4, <4>2, ConcatAssociative
      <4> QED
        BY <4>1, <4>3
    <3>5. a \o c = out \o rest
      BY <2>5, <3>1, <3>4
    <3> QED
      BY <3>1, <3>3, <3>5
  <2> QED
    BY <1>2, <2>1, <2>6, <2>7 DEF Stream
<1> QED
  BY <1>1, <1>2 DEF FileWrite

\* Write: nothing happens after an error; before one the stream grows by what is written.
LEMMA BufWriteAppends ==
    ASSUME file \in Seq(LineCell), buf \in Seq(LineCell), NEW p \in Seq(LineCell),
           BufWrite(p)
    PROVE  /\ file' \in Seq(LineCell) /\ buf' \in Seq(LineCell)
           /\ ioErr => ioErr' /\ Stream' = Stream
           /\ ~ioErr => Stream' = Stream \o p
<1>1. CASE ioErr
  <2>1. UNCHANGED <<file, buf, ioErr>>
    BY <1>1 DEF BufWrite
  <2> QED
    BY <1>1, <2>1 DEF Stream
<1>2. CASE ~ioErr
  <2>1. PICK all : all = buf \o p
    OBVIOUS
  <2>2. PICK out : out = IF buf = <<>> THEN Len(p) ELSE BufferSize
    OBVIOUS
  <2>3. /\ all \in Seq(LineCell) /\ Len(all) = Len(buf) + Len(p)
        /\ Len(buf) \in Nat /\ Len(p) \in Nat /\ BufferSize \in Nat
    BY <2>1, ConcatProperties, LenProperties, JsonlConstants
  <2>4. Stream \o p = file \o all
    BY <2>1, ConcatAssociative DEF Stream
  <2>5. CASE Len(all) <= BufferSize
    <3>1. buf' = all /\ UNCHANGED <<file, ioErr>>
      BY <1>2, <2>1, <2>5 DEF BufWrite
    <3> QED
      BY <1>2, <2>3, <2>4, <3>1 DEF Stream
  <2>6. CASE ~(Len(all) <= BufferSize)
    <3>1. IF Len(all) - out > BufferSize
          THEN FileWrite(all, <<>>)
          ELSE FileWrite(SubSeq(all, 1, out), SubSeq(all, out + 1, Len(all)))
      BY <1>2, <2>1, <2>2, <2>6 DEF BufWrite
    <3>2. CASE Len(all) - out > BufferSize
      <4>1. <<>> \in Seq(LineCell) /\ all \o <<>> = all
        BY <2>3, EmptySeq, ConcatEmptySeq
      <4> QED
        BY <1>2, <2>3, <2>4, <3>1, <3>2, <4>1, FileWriteKeeps
    <3>3. CASE ~(Len(all) - out > BufferSize)
      <4>1. PICK a, b : a = SubSeq(all, 1, out) /\ b = SubSeq(all, out + 1, Len(all))
        OBVIOUS
      <4>2. out \in Nat /\ out <= Len(all) /\ \A i \in 1..Len(all) : all[i] \in LineCell
        <5>1. buf = <<>> => Len(buf) = 0
          BY EmptySeq
        <5> QED
          BY <2>2, <2>3, <2>6, <5>1, ElementOfSeq
      <4>3. a \in Seq(LineCell)
        <5>1. \A i \in 1..out : all[i] \in LineCell
          BY <2>3, <4>2
        <5> QED
          BY <4>1, <4>2, <5>1, SubSeqProperties
      <4>4. b \in Seq(LineCell)
        <5>1. \A i \in (out + 1)..Len(all) : all[i] \in LineCell
          BY <2>3, <4>2
        <5>2. out + 1 \in Int /\ Len(all) \in Int
          BY <2>3, <4>2
        <5> QED
          BY <4>1, <5>1, <5>2, SubSeqProperties
      <4>5. a \o b = all
        <5>1. /\ 1 \in 1..(Len(all) + 1) /\ out \in (1 - 1)..Len(all)
              /\ Len(all) \in out..Len(all)
          BY <2>3, <4>2
        <5>2. SubSeq(all, 1, out) \o SubSeq(all, out + 1, Len(all)) = SubSeq(all, 1, Len(all))
          BY <2>3, <5>1, ConcatAdjacentSubSeq
        <5> QED
          BY <2>3, <4>1, <5>2, SubSeqFull
      <4>6. FileWrite(a, b)
        BY <3>1, <3>3, <4>1
      <4> QED
        BY <1>2, <2>4, <4>3, <4>4, <4>5, <4>6, FileWriteKeeps
    <3> QED
      BY <3>2, <3>3
  <2> QED
    BY <2>5, <2>6
<1> QED
  BY <1>1, <1>2

\* Flush leaves the stream as it is; without an error it leaves nothing in the buffer.
LEMMA BufFlushKeeps ==
    ASSUME file \in Seq(LineCell), buf \in Seq(LineCell), BufFlush
    PROVE  /\ file' \in Seq(LineCell) /\ buf' \in Seq(LineCell)
           /\ Stream' = Stream
           /\ ioErr => ioErr'
           /\ ~ioErr' => buf' = <<>>
<1>1. CASE ioErr \/ buf = <<>>
  <2>1. UNCHANGED <<file, buf, ioErr>>
    BY <1>1 DEF BufFlush
  <2> QED
    BY <1>1, <2>1 DEF Stream
<1>2. CASE ~(ioErr \/ buf = <<>>)
  <2>1. FileWrite(buf, <<>>) /\ <<>> \in Seq(LineCell) /\ buf \o <<>> = buf
    BY <1>2, EmptySeq, ConcatEmptySeq DEF BufFlush
  <2> QED
    BY <2>1, FileWriteKeeps DEF Stream
<1> QED
  BY <1>1, <1>2

-----------------------------------------------------------------------------
(* Lines in a stream.                                                      *)

\* The data of a line are its cells, without the newline.
LEMMA DataCells ==
    ASSUME NEW w \in Workers, NEW n \in 1..Len(Lines[w])
    PROVE  /\ n \in Nat /\ Lines[w][n] \in Nat
           /\ Data(w, n) \in Seq(LineCell) /\ Len(Data(w, n)) = Lines[w][n]
           /\ \A k \in 1..Lines[w][n] : Data(w, n)[k] = <<w, n, k>>
<1>1. n \in Nat /\ Lines[w][n] \in Nat
  <2>1. Lines[w] \in Seq(Nat)
    BY JsonlConstants
  <2> QED
    BY <2>1, ElementOfSeq, LenProperties
<1>2. PICK m \in Nat : m = Lines[w][n]
  BY <1>1
<1>3. PICK d : d = [k \in 1..m |-> <<w, n, k>>]
  OBVIOUS
<1>4. d \in [1..m -> LineCell] /\ \A k \in 1..m : d[k] = <<w, n, k>>
  BY <1>1, <1>3 DEF LineCell
<1>5. d \in Seq(LineCell)
  BY <1>4, SeqDef
<1>6. Len(d) = m
  <2>1. DOMAIN d = 1..m /\ DOMAIN d = 1..Len(d) /\ Len(d) \in Nat
    BY <1>4, <1>5, LenProperties
  <2> QED
    BY <2>1
<1>7. d = Data(w, n)
  BY <1>2, <1>3 DEF Data
<1> QED
  BY <1>1, <1>2, <1>4, <1>5, <1>6, <1>7

\* Whether a line ends in its place depends on nothing behind.
LEMMA EndsLineSame ==
    ASSUME NEW s, NEW t, NEW i \in Nat,
           \A j \in 1..i : t[j] = s[j], EndsLine(s, i), i # 0,
           \A n \in 1..Len(Lines[s[i][1]]) : Lines[s[i][1]][n] \in Nat
    PROVE  EndsLine(t, i)
<1>1. t[i] = s[i]
  OBVIOUS
<1>2. PICK w, n : w = s[i][1] /\ n = s[i][2]
  OBVIOUS
<1>3. /\ n \in 1..Len(Lines[w]) /\ Lines[w][n] < i /\ Lines[w][n] \in Nat
      /\ \A k \in 1..Lines[w][n] : s[(i - 1 - Lines[w][n]) + k] = <<w, n, k>>
  BY <1>2 DEF EndsLine
<1>4. ASSUME NEW k \in 1..Lines[w][n]
      PROVE  t[(i - 1 - Lines[w][n]) + k] = <<w, n, k>>
  <2>1. (i - 1 - Lines[w][n]) + k \in 1..i
    BY <1>3
  <2> QED
    BY <1>3, <2>1
<1> QED
  BY <1>1, <1>2, <1>3, <1>4 DEF EndsLine

\* The lengths of the lines a cell may belong to.
LEMMA LinesOfCell ==
    ASSUME NEW s \in Seq(LineCell), NEW i \in 1..Len(s)
    PROVE  /\ s[i] \in LineCell /\ s[i][1] \in Workers /\ s[i][2] \in Nat
           /\ \A n \in 1..Len(Lines[s[i][1]]) : Lines[s[i][1]][n] \in Nat
<1>1. s[i] \in LineCell
  BY ElementOfSeq
<1>2. s[i][1] \in Workers /\ s[i][2] \in Nat
  BY <1>1 DEF LineCell
<1> QED
  BY <1>1, <1>2, DataCells

\* Data add no newline.
LEMMA DataAppended ==
    ASSUME NEW s \in Seq(LineCell), AllWhole(s), Ordered(s),
           NEW w \in Workers, NEW n \in 1..Len(Lines[w])
    PROVE  LET t == s \o Data(w, n)
           IN  /\ AllWhole(t) /\ Ordered(t)
               /\ \A i \in 1..Len(t) : IsNewline(t[i]) => i \in 1..Len(s) /\ t[i] = s[i]
<1>1. PICK d : d = Data(w, n)
  OBVIOUS
<1>2. /\ d \in Seq(LineCell) /\ Len(d) \in Nat /\ Len(s) \in Nat
      /\ \A k \in 1..Len(d) : d[k] = <<w, n, k>>
  BY <1>1, DataCells, LenProperties
<1>3. PICK t : t = s \o d
  OBVIOUS
<1>4. /\ Len(t) = Len(s) + Len(d)
      /\ \A i \in 1..Len(s) : t[i] = s[i]
      /\ \A i \in 1..Len(t) : i \notin 1..Len(s) => t[i] = d[i - Len(s)]
  BY <1>2, <1>3, ConcatProperties
<1>5. ASSUME NEW i \in 1..Len(t), IsNewline(t[i])
      PROVE  i \in 1..Len(s) /\ t[i] = s[i]
  <2>1. ASSUME i \notin 1..Len(s)
        PROVE  FALSE
    <3>1. i - Len(s) \in 1..Len(d)
      BY <1>2, <1>4, <2>1
    <3>2. t[i] = <<w, n, i - Len(s)>>
      BY <1>2, <1>4, <2>1, <3>1
    <3>3. i - Len(s) = 0
      BY <1>5, <3>2 DEF IsNewline
    <3> QED
      BY <3>1, <3>3
  <2> QED
    BY <1>4, <2>1
<1>6. AllWhole(t)
  <2>1. SUFFICES ASSUME NEW i \in 1..Len(t), IsNewline(t[i])
                 PROVE  EndsLine(t, i)
    BY DEF AllWhole
  <2>2. i \in 1..Len(s) /\ t[i] = s[i]
    BY <1>5, <2>1
  <2>3. EndsLine(s, i)
    BY <2>1, <2>2 DEF AllWhole
  <2>4. i \in Nat /\ i # 0 /\ \A j \in 1..i : t[j] = s[j]
    BY <1>2, <1>4, <2>2
  <2> QED
    BY <2>2, <2>3, <2>4, LinesOfCell, EndsLineSame
<1>7. Ordered(t)
  BY <1>5 DEF Ordered
<1> QED
  BY <1>1, <1>3, <1>5, <1>6, <1>7

\* A newline behind the data of its line, the worker's next one.
LEMMA NewlineAppended ==
    ASSUME NEW s \in Seq(LineCell), AllWhole(s), Ordered(s),
           NEW w \in Workers, NEW n \in 1..Len(Lines[w]),
           NEW r \in Seq(LineCell), s = r \o Data(w, n),
           \A i \in 1..Len(s) : IsNewline(s[i]) /\ s[i][1] = w => s[i][2] < n
    PROVE  LET t == s \o << <<w, n, 0>> >>
           IN  /\ AllWhole(t) /\ Ordered(t)
               /\ \A i \in 1..Len(t) : IsNewline(t[i]) =>
                    \/ i \in 1..Len(s) /\ t[i] = s[i]
                    \/ t[i] = <<w, n, 0>>
<1>1. PICK c : c = <<w, n, 0>>
  OBVIOUS
<1>2. /\ c \in LineCell /\ c[1] = w /\ c[2] = n /\ IsNewline(c)
      /\ <<c>> \in Seq(LineCell) /\ Len(<<c>>) = 1 /\ <<c>>[1] = c
  BY <1>1, DataCells DEF LineCell, IsNewline
<1>3. PICK t : t = s \o <<c>>
  OBVIOUS
<1>4. PICK m : m = Lines[w][n]
  OBVIOUS
<1>5. PICK d : d = Data(w, n)
  OBVIOUS
<1>6. /\ n \in Nat /\ m \in Nat /\ d \in Seq(LineCell) /\ Len(d) = m
      /\ \A k \in 1..m : d[k] = <<w, n, k>>
  BY <1>4, <1>5, DataCells
<1>7. /\ Len(r) \in Nat /\ Len(s) = Len(r) + m
      /\ \A k \in 1..m : s[Len(r) + k] = <<w, n, k>>
  <2>1. /\ Len(r) \in Nat /\ Len(s) = Len(r) + m
        /\ \A i \in 1..(Len(r) + m) : s[i] = IF i <= Len(r) THEN r[i] ELSE d[i - Len(r)]
    BY <1>5, <1>6, ConcatProperties, LenProperties
  <2>2. ASSUME NEW k \in 1..m
        PROVE  s[Len(r) + k] = <<w, n, k>>
    <3>1. /\ Len(r) + k \in 1..(Len(r) + m) /\ ~(Len(r) + k <= Len(r))
          /\ (Len(r) + k) - Len(r) = k
      BY <1>6, <2>1
    <3> QED
      BY <1>6, <2>1, <3>1
  <2> QED
    BY <2>1, <2>2
<1>8. /\ Len(s) \in Nat /\ Len(t) = Len(s) + 1
      /\ \A i \in 1..Len(s) : t[i] = s[i]
      /\ t[Len(s) + 1] = c
  <2>1. /\ Len(s) \in Nat /\ Len(t) = Len(s) + 1
        /\ \A i \in 1..(Len(s) + 1) : t[i] = IF i <= Len(s) THEN s[i] ELSE <<c>>[i - Len(s)]
    BY <1>2, <1>3, ConcatProperties, LenProperties
  <2>2. Len(s) + 1 \in 1..(Len(s) + 1) /\ ~(Len(s) + 1 <= Len(s)) /\ (Len(s) + 1) - Len(s) = 1
    BY <2>1
  <2>3. t[Len(s) + 1] = c
    BY <1>2, <2>1, <2>2
  <2> QED
    BY <2>1, <2>3
<1>9. \A i \in 1..Len(t) : i \in 1..Len(s) \/ i = Len(s) + 1
  <2>1. PICK a, b : a = Len(s) /\ b = Len(t)
    OBVIOUS
  <2>2. a \in Nat /\ b = a + 1
    BY <1>8, <2>1
  <2>3. \A i \in 1..b : i \in 1..a \/ i = a + 1
    BY <2>2
  <2> QED
    BY <2>1, <2>3
<1>10. AllWhole(t)
  <2>1. SUFFICES ASSUME NEW i \in 1..Len(t), IsNewline(t[i])
                 PROVE  EndsLine(t, i)
    BY DEF AllWhole
  <2>2. CASE i \in 1..Len(s)
    <3>1. EndsLine(s, i)
      BY <1>8, <2>1, <2>2 DEF AllWhole
    <3>2. i \in Nat /\ i # 0 /\ \A j \in 1..i : t[j] = s[j]
      BY <1>8, <2>2
    <3> QED
      BY <2>2, <3>1, <3>2, LinesOfCell, EndsLineSame
  <2>3. CASE i = Len(s) + 1
    <3>1. t[i][1] = w /\ t[i][2] = n
      BY <1>2, <1>8, <2>3
    <3>2. m < i /\ i - 1 - m = Len(r)
      BY <1>6, <1>7, <1>8, <2>3
    <3>3. \A k \in 1..m : Len(r) + k \in 1..Len(s)
      BY <1>6, <1>7
    <3>4. \A k \in 1..m : t[(i - 1 - m) + k] = <<w, n, k>>
      BY <1>7, <1>8, <3>2, <3>3
    <3> QED
      BY <1>4, <3>1, <3>2, <3>4 DEF EndsLine
  <2> QED
    BY <1>9, <2>2, <2>3
<1>11. Ordered(t)
  <2>1. SUFFICES ASSUME NEW i \in 1..Len(t), NEW j \in 1..Len(t),
                        IsNewline(t[i]), IsNewline(t[j]), j < i, t[j][1] = t[i][1]
                 PROVE  t[j][2] < t[i][2]
    BY DEF Ordered
  <2>2. j \in 1..Len(s)
    BY <1>8, <2>1
  <2>3. CASE i \in 1..Len(s)
    BY <1>8, <2>1, <2>2, <2>3 DEF Ordered
  <2>4. CASE i = Len(s) + 1
    <3>1. t[i] = c /\ t[j] = s[j]
      BY <1>8, <2>2, <2>4
    <3> QED
      BY <1>2, <2>1, <2>2, <3>1
  <2> QED
    BY <1>9, <2>3, <2>4
<1> QED
  BY <1>1, <1>3, <1>8, <1>9, <1>10, <1>11

-----------------------------------------------------------------------------
(* The steps.                                                              *)

\* A step that leaves the stream and the lock alone.
LEMMA StreamSame ==
    ASSUME JsonlInv, Stream' = Stream, half' = half, next' = next
    PROVE  AllWhole(Stream)' /\ Ordered(Stream)' /\ BehindInv'
<1>1. /\ AllWhole(Stream') /\ Ordered(Stream')
      /\ \A i \in 1..Len(Stream') : IsNewline(Stream'[i]) =>
           /\ Stream'[i][2] <= next'[Stream'[i][1]]
           /\ Stream'[i][1] \in half' => Stream'[i][2] # next'[Stream'[i][1]]
  BY DEF JsonlInv, BehindInv
<1> QED
  BY <1>1 DEF AllWhole, Ordered, BehindInv, EndsLine, IsNewline

\* WriteRecord, first half.
LEMMA WriteDataStep ==
    ASSUME JsonlInv, NEW w \in Workers, WriteData(w)
    PROVE  JsonlInv'
<1> USE DEF JsonlInv
<1>1. PICK n : n = next[w] + 1
  OBVIOUS
<1>2. /\ next \in [Workers -> Nat] /\ next[w] \in Nat /\ n \in Nat /\ Len(Lines[w]) \in Nat
      /\ n \in 1..Len(Lines[w]) /\ next[w] < n /\ n # 0
  <2>1. next \in [Workers -> Nat] /\ next[w] < Len(Lines[w])
    BY DEF WriteData, JsonlTypeOK
  <2>2. Len(Lines[w]) \in Nat
    <3>1. Lines[w] \in Seq(Nat)
      BY JsonlConstants
    <3> QED
      BY <3>1, LenProperties
  <2>3. next[w] \in Nat
    BY <2>1
  <2> QED
    BY <1>1, <2>1, <2>2, <2>3
<1>3. PICK d : d = Data(w, n)
  OBVIOUS
<1>4. /\ closeRes = "none" /\ half = {} /\ next' = [next EXCEPT ![w] = n]
      /\ BufWrite(d) /\ half' = (IF ioErr' THEN {} ELSE {w})
      /\ failed' = (failed \/ ioErr') /\ sent' = sent /\ closeRes' = closeRes
  BY <1>1, <1>3 DEF WriteData
<1>5. d \in Seq(LineCell)
  BY <1>2, <1>3, DataCells
<1>6. /\ file' \in Seq(LineCell) /\ buf' \in Seq(LineCell)
      /\ ioErr => ioErr' /\ Stream' = Stream
      /\ ~ioErr => Stream' = Stream \o d
  BY <1>4, <1>5, BufWriteAppends DEF JsonlTypeOK
<1>7. /\ next' \in [Workers -> Nat] /\ next'[w] = n
      /\ \A v \in Workers : next[v] <= next'[v] /\ next'[v] <= Len(Lines[v])
  <2>1. next' \in [Workers -> Nat] /\ next'[w] = n
    BY <1>2, <1>4
  <2>2. ASSUME NEW v \in Workers
        PROVE  next[v] <= next'[v] /\ next'[v] <= Len(Lines[v])
    <3>1. CASE v = w
      BY <1>2, <2>1, <3>1
    <3>2. CASE v # w
      <4>1. next'[v] = next[v] /\ next[v] \in Nat
        BY <1>2, <1>4, <3>2
      <4> QED
        BY <4>1 DEF JsonlTypeOK
    <3> QED
      BY <3>1, <3>2
  <2> QED
    BY <2>1, <2>2
<1>8. JsonlTypeOK'
  BY <1>4, <1>6, <1>7 DEF JsonlTypeOK
<1>9. LockInv'
  BY <1>2, <1>4, <1>7 DEF LockInv
<1>10. PICK s : s = Stream
  OBVIOUS
<1>11. s \in Seq(LineCell) /\ AllWhole(s) /\ Ordered(s)
  BY <1>10, ConcatProperties DEF Stream, JsonlTypeOK
<1>12. PICK t : t = Stream'
  OBVIOUS
<1>13. /\ AllWhole(t) /\ Ordered(t)
       /\ \A i \in 1..Len(t) : IsNewline(t[i]) => i \in 1..Len(s) /\ t[i] = s[i]
  <2>1. CASE ioErr
    BY <1>6, <1>10, <1>11, <1>12, <2>1
  <2>2. CASE ~ioErr
    <3>1. t = s \o Data(w, n)
      BY <1>3, <1>6, <1>10, <1>12, <2>2
    <3> QED
      BY <1>2, <1>11, <3>1, DataAppended
  <2> QED
    BY <2>1, <2>2
<1>14. ASSUME NEW i \in 1..Len(t), IsNewline(t[i])
       PROVE  t[i][2] <= next'[t[i][1]] /\ (t[i][1] \in half' => t[i][2] # next'[t[i][1]])
  <2>1. i \in 1..Len(s) /\ t[i] = s[i]
    BY <1>13, <1>14
  <2>2. t[i][1] \in Workers /\ t[i][2] \in Nat
    BY <1>11, <2>1, LinesOfCell
  <2>3. PICK v, k : v = t[i][1] /\ k = t[i][2]
    OBVIOUS
  <2>4. k <= next[v]
    BY <1>10, <1>14, <2>1, <2>3 DEF BehindInv
  <2>5. next[v] \in Nat /\ next'[v] \in Nat /\ next[v] <= next'[v] /\ k \in Nat
    BY <1>2, <1>7, <2>2, <2>3
  <2>6. v \in half' => v = w /\ next[v] < next'[v]
    BY <1>2, <1>4, <1>7
  <2> QED
    BY <2>3, <2>4, <2>5, <2>6
<1>15. AllWhole(Stream)' /\ Ordered(Stream)' /\ BehindInv'
  BY <1>12, <1>13, <1>14 DEF AllWhole, Ordered, BehindInv, EndsLine, IsNewline
<1>16. SentInv'
  <2>1. CASE ioErr'
    BY <1>4, <2>1 DEF SentInv
  <2>2. CASE ~ioErr'
    <3>1. ~ioErr /\ half' = {w} /\ ~failed /\ Stream = sent
      BY <1>4, <1>6, <2>2 DEF SentInv
    <3>2. Stream' = sent \o Data(w, n)
      BY <1>3, <1>6, <3>1
    <3>3. \A v \in half' : Stream' = sent' \o Data(v, next'[v])
      BY <1>4, <1>7, <3>1, <3>2
    <3>4. \A v \in half' : Data(v, next[v])' = Data(v, next'[v])
      BY DEF Data
    <3>5. ~failed' /\ closeRes' # "nil" /\ half' # {}
      BY <1>4, <2>2, <3>1
    <3> QED
      BY <3>3, <3>4, <3>5 DEF SentInv
  <2> QED
    BY <2>1, <2>2
<1> QED
  BY <1>8, <1>9, <1>15, <1>16

\* WriteRecord, second half.
LEMMA WriteNewlineStep ==
    ASSUME JsonlInv, NEW w \in Workers, WriteNewline(w)
    PROVE  JsonlInv'
<1> USE DEF JsonlInv
<1>1. PICK n : n = next[w]
  OBVIOUS
<1>2. PICK c : c = <<w, n, 0>>
  OBVIOUS
<1>3. /\ closeRes = "none" /\ w \in half /\ half' = half \ {w} /\ BufWrite(<<c>>)
      /\ IF ioErr' THEN failed' = TRUE /\ UNCHANGED sent
                   ELSE sent' = sent \o Append(Data(w, n), c) /\ UNCHANGED failed
      /\ next' = next /\ closeRes' = closeRes
  BY <1>1, <1>2 DEF WriteNewline
<1>4. half = {w} /\ half' = {} /\ ~ioErr
  BY <1>3 DEF LockInv
<1>5. n \in 1..Len(Lines[w]) /\ next \in [Workers -> Nat]
  <2>1. next \in [Workers -> Nat] /\ n \in Nat /\ n # 0 /\ n <= Len(Lines[w])
    BY <1>1, <1>4 DEF LockInv, JsonlTypeOK
  <2>2. Len(Lines[w]) \in Nat
    <3>1. Lines[w] \in Seq(Nat)
      BY JsonlConstants
    <3> QED
      BY <3>1, LenProperties
  <2> QED
    BY <2>1, <2>2
<1>6. c \in LineCell /\ <<c>> \in Seq(LineCell)
  BY <1>2, <1>5, DataCells DEF LineCell
<1>7. /\ file' \in Seq(LineCell) /\ buf' \in Seq(LineCell)
      /\ Stream' = Stream \o <<c>>
  BY <1>3, <1>4, <1>6, BufWriteAppends DEF JsonlTypeOK
<1>8. PICK d : d = Data(w, n)
  OBVIOUS
<1>9. d \in Seq(LineCell) /\ Append(d, c) = d \o <<c>> /\ Append(d, c) \in Seq(LineCell)
  BY <1>5, <1>6, <1>8, DataCells, AppendIsConcat, AppendProperties
<1>10. JsonlTypeOK'
  <2>1. sent' \in Seq(LineCell)
    <3>1. sent \in Seq(LineCell)
      BY DEF JsonlTypeOK
    <3>2. sent \o Append(d, c) \in Seq(LineCell)
      BY <1>9, <3>1, ConcatProperties
    <3> QED
      BY <1>3, <1>8, <3>1, <3>2
  <2> QED
    BY <1>3, <1>7, <2>1 DEF JsonlTypeOK
<1>11. LockInv'
  BY <1>4 DEF LockInv
<1>12. PICK s : s = Stream
  OBVIOUS
<1>13. PICK t : t = Stream'
  OBVIOUS
<1>14. s \in Seq(LineCell) /\ AllWhole(s) /\ Ordered(s) /\ s = sent \o d /\ sent \in Seq(LineCell)
  BY <1>1, <1>4, <1>8, <1>12, ConcatProperties DEF Stream, JsonlTypeOK, SentInv
<1>15. \A i \in 1..Len(s) : IsNewline(s[i]) =>
         s[i][1] \in Workers /\ s[i][2] \in Nat /\ s[i][2] <= next[s[i][1]]
  BY <1>12, <1>14, LinesOfCell DEF BehindInv
<1>16. ASSUME NEW i \in 1..Len(s), IsNewline(s[i]) /\ s[i][1] = w
       PROVE  s[i][2] < n
  <2>1. s[i][2] # n
    BY <1>1, <1>4, <1>12, <1>16 DEF BehindInv
  <2>2. s[i][2] <= n /\ s[i][2] \in Nat /\ n \in Nat
    BY <1>1, <1>5, <1>15, <1>16
  <2> QED
    BY <2>1, <2>2
<1>17. /\ AllWhole(t) /\ Ordered(t)
       /\ \A i \in 1..Len(t) : IsNewline(t[i]) =>
            \/ i \in 1..Len(s) /\ t[i] = s[i]
            \/ t[i] = c
  <2>1. t = s \o << <<w, n, 0>> >>
    BY <1>2, <1>7, <1>12, <1>13
  <2>2. s = sent \o Data(w, n)
    BY <1>8, <1>14
  <2> QED
    BY <1>2, <1>5, <1>14, <1>16, <2>1, <2>2, NewlineAppended
<1>18. \A i \in 1..Len(t) : IsNewline(t[i]) => t[i][2] <= next'[t[i][1]]
  <2>1. c[2] <= next[c[1]]
    BY <1>1, <1>2, <1>5
  <2> QED
    BY <1>3, <1>15, <1>17, <2>1
<1>19. AllWhole(Stream)' /\ Ordered(Stream)' /\ BehindInv'
  BY <1>4, <1>13, <1>17, <1>18 DEF AllWhole, Ordered, BehindInv, EndsLine, IsNewline
<1>20. SentInv'
  <2>1. CASE ioErr'
    BY <1>3, <1>4, <2>1 DEF SentInv
  <2>2. CASE ~ioErr'
    <3>1. Stream' = sent'
      <4>1. (sent \o d) \o <<c>> = sent \o (d \o <<c>>)
        BY <1>6, <1>9, <1>14, ConcatAssociative
      <4> QED
        BY <1>3, <1>7, <1>8, <1>9, <1>12, <1>14, <2>2, <4>1
    <3>2. ~failed' /\ closeRes' # "nil"
      BY <1>3, <1>4, <2>2 DEF SentInv
    <3> QED
      BY <1>4, <3>1, <3>2 DEF SentInv
  <2> QED
    BY <2>1, <2>2
<1> QED
  BY <1>10, <1>11, <1>19, <1>20

\* The end of the sink, or of the process.
LEMMA EndStep ==
    ASSUME JsonlInv, SinkClose \/ Kill \/ UNCHANGED jsonlVars
    PROVE  JsonlInv'
<1> USE DEF JsonlInv
<1>1. /\ UNCHANGED <<next, half, sent, failed>>
      /\ file' \in Seq(LineCell) /\ buf' \in Seq(LineCell) /\ Stream' = Stream
      /\ ioErr => ioErr'
      /\ ioErr' => half = {}
      /\ closeRes' = "nil" => ~ioErr' /\ half = {} /\ buf' = <<>>
  <2>1. CASE SinkClose
    <3>1. /\ UNCHANGED <<next, half, sent, failed>> /\ half = {} /\ BufFlush
          /\ closeRes' = IF ioErr' THEN "error" ELSE "nil"
      BY <2>1 DEF SinkClose
    <3> QED
      BY <3>1, BufFlushKeeps DEF JsonlTypeOK
  <2>2. CASE Kill
    BY <2>2 DEF Kill, JsonlTypeOK, LockInv, Stream
  <2>3. CASE UNCHANGED jsonlVars
    BY <2>3 DEF jsonlVars, JsonlTypeOK, LockInv, SentInv, Stream
  <2> QED
    BY <2>1, <2>2, <2>3
<1>2. JsonlTypeOK'
  BY <1>1 DEF JsonlTypeOK
<1>3. LockInv'
  BY <1>1 DEF LockInv
<1>4. AllWhole(Stream)' /\ Ordered(Stream)' /\ BehindInv'
  BY <1>1, StreamSame
<1>5. SentInv'
  BY <1>1 DEF SentInv, Data
<1> QED
  BY <1>2, <1>3, <1>4, <1>5

\* In every state the stream is whole lines in order and the beginning of one more, and
\* without an error it is exactly what was acknowledged.
THEOREM JsonlInvariance == JsonlSpec => []JsonlInv
<1>1. JsonlInit => JsonlInv
  <2> SUFFICES ASSUME JsonlInit PROVE JsonlInv
    OBVIOUS
  <2>1. /\ next = [w \in Workers |-> 0] /\ half = {} /\ buf = <<>> /\ ~ioErr /\ file = <<>>
        /\ sent = <<>> /\ ~failed /\ closeRes = "none"
    BY DEF JsonlInit
  <2>2. <<>> \in Seq(LineCell) /\ Len(<<>>) = 0 /\ <<>> \o <<>> = <<>>
    BY EmptySeq, ConcatEmptySeq
  <2>3. JsonlTypeOK
    <3>1. ASSUME NEW w \in Workers
          PROVE  next[w] <= Len(Lines[w])
      <4>1. Lines[w] \in Seq(Nat)
        BY JsonlConstants
      <4>2. Len(Lines[w]) \in Nat
        BY <4>1, LenProperties
      <4> QED
        BY <2>1, <4>2
    <3> QED
      BY <2>1, <2>2, <3>1 DEF JsonlTypeOK
  <2>4. Stream = <<>> /\ Len(Stream) = 0
    BY <2>1, <2>2 DEF Stream
  <2>5. AllWhole(Stream) /\ Ordered(Stream) /\ BehindInv
    BY <2>4 DEF AllWhole, Ordered, BehindInv
  <2>6. LockInv /\ SentInv
    BY <2>1, <2>4 DEF LockInv, SentInv
  <2> QED
    BY <2>3, <2>5, <2>6 DEF JsonlInv
<1>2. JsonlInv /\ [JsonlNext]_jsonlVars => JsonlInv'
  BY WriteDataStep, WriteNewlineStep, EndStep DEF JsonlNext
<1> QED
  BY <1>1, <1>2, PTL DEF JsonlSpec

\* A prefix of whole lines in order is that too.
LEMMA FileIsPrefix ==
    ASSUME JsonlInv
    PROVE  AllWhole(file) /\ Ordered(file)
<1>1. PICK s : s = Stream
  OBVIOUS
<1>2. /\ file \in Seq(LineCell) /\ buf \in Seq(LineCell) /\ s \in Seq(LineCell)
      /\ Len(file) \in Nat /\ Len(buf) \in Nat /\ Len(s) = Len(file) + Len(buf)
      /\ \A i \in 1..Len(file) : s[i] = file[i]
  BY <1>1, ConcatProperties, LenProperties DEF Stream, JsonlInv, JsonlTypeOK
<1>3. AllWhole(s) /\ Ordered(s)
  BY <1>1 DEF JsonlInv
<1>4. \A i \in 1..Len(file) : i \in 1..Len(s)
  BY <1>2
<1>5. AllWhole(file)
  <2>1. SUFFICES ASSUME NEW i \in 1..Len(file), IsNewline(file[i])
                 PROVE  EndsLine(file, i)
    BY DEF AllWhole
  <2>2. EndsLine(s, i)
    BY <1>2, <1>3, <1>4, <2>1 DEF AllWhole
  <2>3. i \in Nat /\ i # 0 /\ \A j \in 1..i : file[j] = s[j]
    BY <1>2
  <2> QED
    BY <1>2, <1>4, <2>2, <2>3, LinesOfCell, EndsLineSame
<1>6. Ordered(file)
  BY <1>2, <1>3, <1>4 DEF Ordered
<1> QED
  BY <1>5, <1>6

\* Each worker's line stays in one piece: in the file, at any moment, with short writes
\* and after a kill, every newline closes a whole line of one worker, and a worker's
\* lines come in its order.
THEOREM JsonlLinesWhole == JsonlSpec => []LinesWhole
<1>1. JsonlInv => LinesWhole
  <2> SUFFICES ASSUME JsonlInv PROVE LinesWhole
    OBVIOUS
  <2>1. AllWhole(file) /\ Ordered(file) /\ file \in Seq(LineCell) /\ DOMAIN file = 1..Len(file)
    BY FileIsPrefix, LenProperties DEF JsonlInv, JsonlTypeOK
  <2>2. ASSUME NEW i \in LineEnds
        PROVE  LET line == Append(Data(file[i][1], file[i][2]), file[i])
               IN i >= Len(line) /\ SubSeq(file, i - Len(line) + 1, i) = line
    <3>1. i \in 1..Len(file) /\ IsNewline(file[i])
      BY <2>1, <2>2 DEF LineEnds
    <3>2. PICK w, n, m : w = file[i][1] /\ n = file[i][2] /\ m = Lines[w][n]
      OBVIOUS
    <3>3. /\ file[i] \in LineCell /\ w \in Workers /\ n \in 1..Len(Lines[w]) /\ m < i
          /\ \A k \in 1..m : file[(i - 1 - m) + k] = <<w, n, k>>
      BY <2>1, <3>1, <3>2, LinesOfCell DEF AllWhole, EndsLine
    <3>4. PICK d : d = Data(w, n)
      OBVIOUS
    <3>5. m \in Nat /\ d \in Seq(LineCell) /\ Len(d) = m /\ \A k \in 1..m : d[k] = <<w, n, k>>
      BY <3>2, <3>3, <3>4, DataCells
    <3>6. PICK line : line = Append(d, file[i])
      OBVIOUS
    <3>7. /\ line \in Seq(LineCell) /\ Len(line) = m + 1
          /\ \A k \in 1..m : line[k] = d[k]
          /\ line[m + 1] = file[i]
      BY <3>3, <3>5, <3>6, AppendProperties
    <3>8. PICK l : l = SubSeq(file, i - m, i)
      OBVIOUS
    <3>9. /\ l \in Seq(LineCell) /\ Len(l) = m + 1
          /\ \A k \in 1..(m + 1) : l[k] = file[(i - 1 - m) + k]
      <4>1. Len(file) \in Nat /\ i - m \in Int /\ i \in Int /\ i - m <= i /\ i - (i - m) + 1 = m + 1
        BY <2>1, <3>1, <3>5, LenProperties
      <4>2. \A j \in (i - m)..i : j \in 1..Len(file)
        BY <3>1, <3>3, <3>5, <4>1
      <4>3. \A j \in (i - m)..i : file[j] \in LineCell
        BY <2>1, <4>2, ElementOfSeq
      <4>4. /\ l \in Seq(LineCell) /\ Len(l) = i - (i - m) + 1
            /\ \A k \in 1..(i - (i - m) + 1) : l[k] = file[(i - m) + k - 1]
        BY <3>8, <4>1, <4>3, SubSeqProperties
      <4>5. \A k \in 1..(m + 1) : (i - m) + k - 1 = (i - 1 - m) + k
        BY <3>1, <3>5, <4>1
      <4> QED
        BY <4>1, <4>4, <4>5
    <3>10. ASSUME NEW k \in 1..(m + 1)
           PROVE  l[k] = line[k]
      <4>1. CASE k \in 1..m
        BY <3>3, <3>5, <3>7, <3>9, <4>1
      <4>2. CASE k = m + 1
        <5>1. (i - 1 - m) + k = i
          BY <3>1, <3>5, <4>2
        <5> QED
          BY <3>7, <3>9, <4>2, <5>1
      <4> QED
        BY <3>5, <4>1, <4>2
    <3>11. l = line
      BY <3>7, <3>9, <3>10, SeqEqual
    <3>12. i >= Len(line) /\ i - Len(line) + 1 = i - m
      BY <3>1, <3>3, <3>5, <3>7
    <3> QED
      BY <3>2, <3>4, <3>6, <3>8, <3>11, <3>12
  <2>3. ASSUME NEW i \in LineEnds, NEW j \in LineEnds, j < i, file[j][1] = file[i][1]
        PROVE  file[j][2] < file[i][2]
    BY <2>1, <2>3 DEF LineEnds, Ordered
  <2> QED
    BY <2>2, <2>3 DEF LinesWhole
<1> QED
  BY <1>1, JsonlInvariance, PTL

\* If Close returns nil every line whose WriteRecord returned nil is in the file, and
\* nothing else: no error of the file is forgotten before Close.
THEOREM JsonlCloseReportsLoss == JsonlSpec => []CloseReportsLoss
<1>1. JsonlInv => CloseReportsLoss
  <2> SUFFICES ASSUME JsonlInv, closeRes = "nil" PROVE file = sent /\ ~failed
    BY DEF CloseReportsLoss
  <2>1. ~failed /\ file \o buf = sent /\ buf = <<>> /\ file \in Seq(LineCell)
    BY DEF JsonlInv, SentInv, Stream, JsonlTypeOK
  <2> QED
    BY <2>1, ConcatEmptySeq
<1> QED
  BY <1>1, JsonlInvariance, PTL

-----------------------------------------------------------------------------
(* ToolRun: the inductive invariant of the run of a command.               *)

OutputNames == {"pcap", "jsonl", "console"}

ToolTypeOK ==
  /\ command \in Commands /\ opts \in SUBSET Options
  /\ phase \in {"open", "running", "stopping", "exited"}
  /\ arrived \in Nat /\ item \in [Loops -> 0..arrived] /\ output \in [Loops -> Nat]
  /\ got \in [OutputNames -> Seq(Nat)] /\ onDisk \in 0..Len(got["jsonl"])

\* No event is in two hands; a capture has one pair of them.
LoopsInv ==
  /\ \A w \in Loops : item[w] = 0 <=> output[w] = 0
  /\ \A v, w \in Loops : item[v] = item[w] /\ item[v] # 0 => v = w
  /\ ~Live => \A w \in Loops : item[w] # 0 => w = Main
  /\ phase = "exited" /\ status = 0 =>
       onDisk = Len(got["jsonl"]) /\ \A w \in Loops : item[w] = 0

\* The events that have not come to output k yet.
Before(k) == {item[w] : w \in {v \in Loops : item[v] # 0 /\ output[v] <= k}}

OnceEach(s) == \A i, j \in DOMAIN s : s[i] = s[j] => i = j

\* Every output has been given, once each, the events that have come to it.
GivenInv ==
  /\ \A x \in OutputNames : OnceEach(got[x])
  /\ \A k \in DOMAIN Outputs : ToSet(got[Outputs[k]]) = (1..arrived) \ Before(k)
  /\ \A x \in OutputNames \ ToSet(Outputs) : got[x] = <<>>

\* A capture shows the event it holds last.
ShownInv ==
  ~Live /\ output[Main] >= 2 =>
    got["console"] # <<>> /\ got["console"][Len(got["console"])] = item[Main]

ToolInv == ToolTypeOK /\ LoopsInv /\ GivenInv /\ ShownInv

-----------------------------------------------------------------------------
(* Sequences of events.                                                    *)

\* The set of the elements of a sequence.
LEMMA ToSetIs == \A S : \A s \in Seq(S) : ToSet(s) = {s[i] : i \in 1..Len(s)} /\ ToSet(s) \subseteq S
<1> SUFFICES ASSUME NEW S, NEW s \in Seq(S)
             PROVE  ToSet(s) = {s[i] : i \in 1..Len(s)} /\ ToSet(s) \subseteq S
    OBVIOUS
<1>1. DOMAIN s = 1..Len(s) /\ \A i \in 1..Len(s) : s[i] \in S BY LenProperties, ElementOfSeq
<1>2. QED BY <1>1 DEF ToSet

\* A sequence that has each of 1..n once has n elements.
LEMMA OnceEachLen ==
    ASSUME NEW s \in Seq(Nat), NEW n \in Nat, OnceEach(s), ToSet(s) = 1..n
    PROVE  Len(s) = n
<1>1. DOMAIN s = 1..Len(s) /\ Len(s) \in Nat BY LenProperties
<1>2. s \in Bijection(1..Len(s), 1..n)
    <2>1. s \in [1..Len(s) -> 1..n] BY <1>1, ToSetIs DEF ToSet
    <2>2. \A i, j \in 1..Len(s) : s[i] = s[j] => i = j BY <1>1 DEF OnceEach
    <2>3. \A e \in 1..n : \E i \in 1..Len(s) : s[i] = e BY <1>1, ToSetIs DEF ToSet
    <2>4. QED BY <2>1, <2>2, <2>3, Fun_IsBij DEF Bijection, Injection, Surjection, IsInjective
<1>3. ExistsBijection(1..Len(s), 1..n) BY <1>2 DEF ExistsBijection
<1>4. IsFiniteSet(1..Len(s)) /\ Cardinality(1..Len(s)) = Len(s) /\ Cardinality(1..n) = n
    <2>1. Cardinality(1..Len(s)) = Len(s)
        <3>1. Len(s) \in Int /\ 1 \in Int BY <1>1
        <3>2. Cardinality(1..Len(s)) = IF 1 > Len(s) THEN 0 ELSE Len(s) - 1 + 1 BY ONLY <3>1, FS_Interval
        <3>3. QED BY <1>1, <3>2
    <2>2. Cardinality(1..n) = n
        <3>1. Cardinality(1..n) = IF 1 > n THEN 0 ELSE n - 1 + 1 BY FS_Interval
        <3>2. QED BY <3>1
    <2>3. QED BY <1>1, <2>1, <2>2, FS_Interval
<1>5. QED BY <1>3, <1>4, FS_Bijection

\* An event that was not there is given.
LEMMA AppendNew ==
    ASSUME NEW s \in Seq(Nat), NEW e \in Nat, OnceEach(s), e \notin ToSet(s)
    PROVE  /\ Append(s, e) \in Seq(Nat) /\ Append(s, e) # <<>>
           /\ OnceEach(Append(s, e)) /\ ToSet(Append(s, e)) = ToSet(s) \cup {e}
           /\ Len(Append(s, e)) = Len(s) + 1 /\ Append(s, e)[Len(s) + 1] = e
<1> DEFINE t == Append(s, e)
<1>1. /\ t \in Seq(Nat) /\ t # <<>> /\ Len(t) = Len(s) + 1 /\ t[Len(s) + 1] = e
      /\ \A i \in 1..Len(s) : t[i] = s[i]
    BY AppendProperties
<1>2. Len(s) \in Nat /\ DOMAIN s = 1..Len(s) /\ DOMAIN t = 1..(Len(s) + 1) BY <1>1, LenProperties
<1>3. \A i \in 1..Len(s) : s[i] # e BY ToSetIs
<1> HIDE DEF t
<1>4. OnceEach(t)
    <2> SUFFICES ASSUME NEW i \in 1..(Len(s) + 1), NEW j \in 1..(Len(s) + 1), t[i] = t[j]
                 PROVE  i = j
        BY <1>2 DEF OnceEach
    <2>1. CASE i \in 1..Len(s) /\ j \in 1..Len(s) BY <1>1, <1>2, <2>1 DEF OnceEach
    <2>2. CASE i \in 1..Len(s) /\ j = Len(s) + 1 BY <1>1, <1>3, <2>2
    <2>3. CASE i = Len(s) + 1 /\ j \in 1..Len(s) BY <1>1, <1>3, <2>3
    <2>4. QED BY <1>2, <2>1, <2>2, <2>3
<1>5. ToSet(t) = ToSet(s) \cup {e}
    <2>1. ToSet(t) = {t[i] : i \in 1..(Len(s) + 1)} BY <1>2 DEF ToSet
    <2>2. ToSet(s) = {s[i] : i \in 1..Len(s)} BY ToSetIs
    <2>3. \A i \in 1..(Len(s) + 1) : i \in 1..Len(s) \/ i = Len(s) + 1 BY <1>2
    <2>4. \A i \in 1..Len(s) : i \in 1..(Len(s) + 1) BY <1>2
    <2>5. Len(s) + 1 \in 1..(Len(s) + 1) BY <1>2
    <2>6. QED BY <1>1, <2>1, <2>2, <2>3, <2>4, <2>5
<1>6. QED BY <1>1, <1>4, <1>5 DEF t

-----------------------------------------------------------------------------
(* The outputs of each command.                                            *)

OutputsOK ==
  /\ Outputs \in Seq(OutputNames)
  /\ OnceEach(Outputs)
  /\ ToSet(Files) \subseteq ToSet(Outputs) /\ "console" \notin ToSet(Files)
  /\ Live => \A j, k \in DOMAIN Outputs : Outputs[k] = "console" /\ j # k => j < k
  /\ ~Live => Len(Outputs) >= 1 /\ Outputs[1] = "console"

\* Short sequences put one behind the other.
LEMMA PairUp ==
    /\ \A x, y : <<x>> \o <<y>> = <<x, y>>
    /\ \A x, y, z : <<x, y>> \o <<z>> = <<x, y, z>> /\ <<x>> \o <<y, z>> = <<x, y, z>>
<1>1. ASSUME NEW x, NEW y
      PROVE  <<x>> \o <<y>> = <<x, y>>
    <2>1. <<x>> \in Seq({x, y}) /\ <<y>> \in Seq({x, y}) /\ <<x, y>> \in Seq({x, y}) OBVIOUS
    <2>2. PICK s : s = <<x>> \o <<y>> OBVIOUS
    <2>3. s \in Seq({x, y}) /\ Len(s) = 2 /\ s[1] = x /\ s[2] = y BY <2>1, <2>2, ConcatProperties
    <2>4. PICK t : t = <<x, y>> OBVIOUS
    <2>5. t \in Seq({x, y}) /\ Len(t) = 2 /\ t[1] = x /\ t[2] = y BY <2>1, <2>4
    <2>6. s = t BY <2>3, <2>5, SeqEqual
    <2>7. QED BY <2>2, <2>4, <2>6
<1>2. ASSUME NEW x, NEW y, NEW z
      PROVE  <<x, y>> \o <<z>> = <<x, y, z>> /\ <<x>> \o <<y, z>> = <<x, y, z>>
    <2> DEFINE S == {x, y, z}
    <2>1. <<x, y>> \in Seq(S) /\ <<z>> \in Seq(S) /\ <<x>> \in Seq(S) /\ <<y, z>> \in Seq(S) OBVIOUS
    <2>2. PICK s, r : s = <<x, y>> \o <<z>> /\ r = <<x>> \o <<y, z>> OBVIOUS
    <2>3. s \in Seq(S) /\ Len(s) = 3 /\ s[1] = x /\ s[2] = y /\ s[3] = z BY <2>1, <2>2, ConcatProperties
    <2>4. r \in Seq(S) /\ Len(r) = 3 /\ r[1] = x /\ r[2] = y /\ r[3] = z BY <2>1, <2>2, ConcatProperties
    <2>5. PICK t : t = <<x, y, z>> OBVIOUS
    <2>6. t \in Seq(S) /\ Len(t) = 3 /\ t[1] = x /\ t[2] = y /\ t[3] = z BY <2>5
    <2>7. s = t /\ r = t
        <3>1. \A i \in 1..3 : i = 1 \/ i = 2 \/ i = 3 OBVIOUS
        <3>2. QED BY <2>3, <2>4, <2>6, <3>1, SeqEqual
    <2>8. QED BY <2>2, <2>5, <2>7
<1>3. QED BY <1>1, <1>2

\* Which they are, for every subset of the options.
LEMMA OutputsCases ==
    ASSUME command \in Commands, opts \in SUBSET Options
    PROVE  \/ /\ Live
              /\ \/ Files = <<>> /\ Outputs \in {<<>>, <<"console">>}
                 \/ Files = <<"pcap">> /\ Outputs \in {<<"pcap">>, <<"pcap", "console">>}
                 \/ Files = <<"jsonl">> /\ Outputs \in {<<"jsonl">>, <<"jsonl", "console">>}
                 \/ /\ Files = <<"pcap", "jsonl">>
                    /\ Outputs \in {<<"pcap", "jsonl">>, <<"pcap", "jsonl", "console">>}
           \/ /\ ~Live
              /\ \/ Files = <<>> /\ Outputs = <<"console">>
                 \/ Files = <<"pcap">> /\ Outputs = <<"console", "pcap">>
<1>1. \A x : Chosen(x) = <<x>> \/ Chosen(x) = <<>> BY DEF Chosen
<1>2. <<>> \o <<>> = <<>> /\ \A x : <<>> \o <<x>> = <<x>> /\ <<x>> \o <<>> = <<x>> OBVIOUS
<1>3. \A x, y : <<x, y>> \o <<>> = <<x, y>> OBVIOUS
<1>5. CASE Live
    <2>1. command # "gocore capture" BY <1>5 DEF Live
    <2>2. PICK p, q, c : p = Chosen("pcap") /\ q = Chosen("jsonl") /\ c = Chosen("console") OBVIOUS
    <2>3. Files = p \o q /\ Outputs = p \o q \o c BY <1>5, <2>1, <2>2 DEF Files, Outputs, LiveSinks
    <2>4. /\ p = <<>> \/ p = <<"pcap">>
          /\ q = <<>> \/ q = <<"jsonl">>
          /\ c = <<>> \/ c = <<"console">>
        BY <1>1, <2>2
    <2>5. CASE p = <<>>
        <3>1. CASE q = <<>>
            <4>1. p \o q = <<>> BY <1>2, <2>5, <3>1
            <4>2. Outputs = <<>> \o c BY <2>3, <4>1
            <4>3. QED BY <1>2, <1>5, <2>3, <2>4, <4>1, <4>2
        <3>2. CASE q = <<"jsonl">>
            <4>1. p \o q = <<"jsonl">> BY <1>2, <2>5, <3>2
            <4>2. Outputs = <<"jsonl">> \o c BY <2>3, <4>1
            <4>3. QED BY <1>2, <1>5, <2>3, <2>4, <4>1, <4>2, PairUp
        <3>3. QED BY <2>4, <3>1, <3>2
    <2>6. CASE p = <<"pcap">>
        <3>1. CASE q = <<>>
            <4>1. p \o q = <<"pcap">> BY <1>2, <2>6, <3>1
            <4>2. QED BY <1>2, <1>5, <2>3, <2>4, <4>1, PairUp
        <3>2. CASE q = <<"jsonl">>
            <4>1. p \o q = <<"pcap", "jsonl">> BY <2>6, <3>2, PairUp
            <4>2. /\ <<"pcap", "jsonl">> \o <<"console">> = <<"pcap", "jsonl", "console">>
                  /\ <<"pcap", "jsonl">> \o <<>> = <<"pcap", "jsonl">>
                BY PairUp
            <4>3. Outputs = <<"pcap", "jsonl">> \o c BY <2>3, <4>1
            <4>4. QED BY <1>5, <2>3, <2>4, <4>1, <4>2, <4>3
        <3>3. QED BY <2>4, <3>1, <3>2
    <2>7. QED BY <2>4, <2>5, <2>6
<1>6. CASE ~Live
    <2>1. command \in {"gocore capture", "net-probe capture"} BY <1>6, ToolConstants DEF Live
    <2>2. Chosen("jsonl") = <<>> BY <2>1 DEF Chosen, Options
    <2>3. Files = <<>> \/ Files = Chosen("pcap") \o <<>> BY <2>2 DEF Files
    <2>4. Files = <<>> \/ Files = <<"pcap">> BY <1>1, <1>2, <2>3
    <2>5. Outputs = <<"console">> \o Files BY <1>6 DEF Outputs
    <2>6. QED BY <1>2, <1>6, <2>4, <2>5, PairUp
<1>7. QED BY <1>5, <1>6

\* The console comes after the files of a live recording, and before those of a capture.
LEMMA OutputsFacts ==
    ASSUME command \in Commands, opts \in SUBSET Options
    PROVE  OutputsOK
<1>1. ToSet(<<>>) = {} /\ OnceEach(<<>>) BY DEF ToSet, OnceEach
<1>2. \A x : ToSet(<<x>>) = {x} /\ OnceEach(<<x>>) BY DEF ToSet, OnceEach
<1>3. \A x, y : ToSet(<<x, y>>) = {x, y} /\ (x # y => OnceEach(<<x, y>>)) BY DEF ToSet, OnceEach
<1>4. \A x, y, z : /\ ToSet(<<x, y, z>>) = {x, y, z}
                   /\ x # y /\ y # z /\ x # z => OnceEach(<<x, y, z>>)
    BY DEF ToSet, OnceEach
<1>5. PICK S : S = OutputNames OBVIOUS
<1>6. <<>> \in Seq(S) /\ \A x \in S : <<x>> \in Seq(S) OBVIOUS
<1>7. \A x \in S, y \in S : <<x, y>> \in Seq(S) /\ \A z \in S : <<x, y, z>> \in Seq(S) OBVIOUS
<1>8. "pcap" \in S /\ "jsonl" \in S /\ "console" \in S BY <1>5 DEF OutputNames
<1>9. CASE Live
    <2>1. Outputs \in Seq(OutputNames) /\ OnceEach(Outputs)
        <3>1. OnceEach(<<"pcap", "console">>) /\ OnceEach(<<"jsonl", "console">>) BY <1>3
        <3>2. OnceEach(<<"pcap", "jsonl">>) /\ OnceEach(<<"pcap", "jsonl", "console">>) BY <1>3, <1>4
        <3>3. OnceEach(Outputs) BY <1>1, <1>2, <1>9, <3>1, <3>2, OutputsCases
        <3>4. Outputs \in Seq(OutputNames) BY <1>9, <1>5, <1>6, <1>7, <1>8, OutputsCases
        <3>5. QED BY <3>3, <3>4
    <2>2. ToSet(Files) \subseteq ToSet(Outputs) /\ "console" \notin ToSet(Files)
        BY <1>1, <1>2, <1>3, <1>4, <1>9, OutputsCases
    <2>3. \A j, k \in DOMAIN Outputs : Outputs[k] = "console" /\ j # k => j < k
        BY <1>9, OutputsCases
    <2>4. QED BY <1>9, <2>1, <2>2, <2>3 DEF OutputsOK
<1>10. CASE ~Live
    <2>1. Outputs \in Seq(OutputNames) /\ OnceEach(Outputs)
        <3>1. OnceEach(<<"console", "pcap">>) BY <1>3
        <3>2. OnceEach(Outputs) BY <1>2, <1>10, <3>1, OutputsCases
        <3>3. Outputs \in Seq(OutputNames) BY <1>10, <1>5, <1>6, <1>7, <1>8, OutputsCases
        <3>4. QED BY <3>2, <3>3
    <2>2. ToSet(Files) \subseteq ToSet(Outputs) /\ "console" \notin ToSet(Files)
        BY <1>1, <1>2, <1>3, <1>4, <1>10, OutputsCases
    <2>3. Len(Outputs) >= 1 /\ Outputs[1] = "console" BY <1>10, OutputsCases
    <2>4. QED BY <1>10, <2>1, <2>2, <2>3 DEF OutputsOK
<1>11. QED BY <1>9, <1>10

-----------------------------------------------------------------------------
(* The steps.                                                              *)

\* The outputs are those of the command and its options.
LEMMA SameOutputs ==
    ASSUME command' = command, opts' = opts
    PROVE  Outputs' = Outputs /\ Files' = Files /\ Live' = Live /\ Options' = Options
BY DEF Outputs, Files, Live, LiveSinks, Chosen, Options

\* What the invariant says of the outputs, written out.
LEMMA OutputTypes ==
    ASSUME ToolTypeOK
    PROVE  /\ OutputsOK /\ Len(Outputs) \in Nat /\ DOMAIN Outputs = 1..Len(Outputs)
           /\ \A k \in 1..Len(Outputs) : Outputs[k] \in OutputNames
           /\ \A x \in OutputNames : got[x] \in Seq(Nat)
           /\ "jsonl" \in OutputNames /\ "console" \in OutputNames
<1>1. OutputsOK BY OutputsFacts DEF ToolTypeOK
<1>2. Outputs \in Seq(OutputNames) BY <1>1 DEF OutputsOK
<1>3. Len(Outputs) \in Nat /\ DOMAIN Outputs = 1..Len(Outputs)
      /\ \A k \in 1..Len(Outputs) : Outputs[k] \in OutputNames
    BY <1>2, LenProperties, ElementOfSeq
<1>4. QED BY <1>1, <1>3 DEF ToolTypeOK, OutputNames

\* At first nothing has been given to anybody.
LEMMA InitTool == ToolInit => ToolInv
<1> SUFFICES ASSUME ToolInit PROVE ToolInv OBVIOUS
<1>1. ToolTypeOK
    <2>1. got \in [OutputNames -> Seq(Nat)] /\ Len(got["jsonl"]) = 0 BY DEF ToolInit, OutputNames
    <2>2. item \in [Loops -> 0..arrived] /\ output \in [Loops -> Nat] BY DEF ToolInit
    <2>3. QED BY <2>1, <2>2 DEF ToolInit, ToolTypeOK
<1>2. LoopsInv BY DEF ToolInit, LoopsInv
<1>3. GivenInv
    <2>1. \A x \in OutputNames : got[x] = <<>> BY DEF ToolInit, OutputNames
    <2>2. OnceEach(<<>>) /\ ToSet(<<>>) = {} BY DEF OnceEach, ToSet
    <2>3. (1..arrived) = {} BY DEF ToolInit
    <2>4. QED BY <1>1, <2>1, <2>2, <2>3, OutputTypes DEF GivenInv
<1>4. ShownInv
    <2>1. output[Main] = 0 BY ToolConstants DEF ToolInit
    <2>2. ~(output[Main] >= 2) BY <2>1
    <2>3. QED BY <2>2 DEF ShownInv
<1>5. QED BY <1>1, <1>2, <1>3, <1>4 DEF ToolInv

\* Opening, starting and ending by an error touch no event.
LEMMA NoEventKeeps ==
    ASSUME ToolInv, UNCHANGED <<command, opts, given>>,
           phase' \in {"open", "running", "stopping", "exited"},
           \/ phase' = phase /\ status' = status
           \/ phase' # "exited"
           \/ status' # 0
    PROVE  ToolInv'
<1>1. /\ command' = command /\ opts' = opts /\ item' = item /\ output' = output
      /\ arrived' = arrived /\ got' = got /\ onDisk' = onDisk
    BY DEF given
<1>2. Outputs' = Outputs /\ Live' = Live /\ Options' = Options BY <1>1, SameOutputs
<1>3. ToolTypeOK' BY <1>1, <1>2 DEF ToolInv, ToolTypeOK
<1>4. LoopsInv' BY <1>1, <1>2 DEF ToolInv, LoopsInv
<1>5. GivenInv'
    <2>1. \A k : Before(k)' = Before(k) BY <1>1 DEF Before
    <2>2. QED BY <1>1, <1>2, <2>1 DEF ToolInv, GivenInv
<1>6. ShownInv' BY <1>1, <1>2 DEF ToolInv, ShownInv
<1>7. QED BY <1>3, <1>4, <1>5, <1>6 DEF ToolInv

\* A new event has come to no output.
LEMMA ReceiveKeeps ==
    ASSUME ToolInv, NEW w \in Loops, Receive(w)
    PROVE  ToolInv'
<1> USE DEF ToolInv
<1>1. /\ command' = command /\ opts' = opts /\ got' = got /\ onDisk' = onDisk
      /\ phase' = phase /\ status' = status /\ arrived' = arrived + 1
      /\ item[w] = 0 /\ (Live \/ w = Main) /\ phase # "exited"
    BY DEF Receive
<1>2. /\ item' = [item EXCEPT ![w] = arrived + 1] /\ output' = [output EXCEPT ![w] = 1]
      /\ arrived \in Nat /\ item \in [Loops -> 0..arrived] /\ output \in [Loops -> Nat]
    BY DEF Receive, ToolTypeOK
<1>3. /\ item'[w] = arrived + 1 /\ output'[w] = 1
      /\ \A v \in Loops \ {w} : item'[v] = item[v] /\ output'[v] = output[v]
      /\ \A v \in Loops : item[v] \in 0..arrived /\ output[v] \in Nat
    BY <1>2
<1>4. Outputs' = Outputs /\ Live' = Live /\ Options' = Options BY <1>1, SameOutputs
<1>5. ToolTypeOK'
    <2>1. item' \in [Loops -> 0..(arrived + 1)]
        <3>1. \A v \in Loops : item'[v] \in 0..(arrived + 1) BY <1>2, <1>3
        <3>2. QED BY <1>2, <3>1
    <2>2. output' \in [Loops -> Nat] BY <1>2
    <2>3. QED BY <1>1, <1>2, <1>4, <2>1, <2>2 DEF ToolTypeOK
<1>6. LoopsInv'
    <2>1. \A v \in Loops : item'[v] = 0 <=> output'[v] = 0 BY <1>2, <1>3 DEF LoopsInv
    <2>2. \A u, v \in Loops : item'[u] = item'[v] /\ item'[u] # 0 => u = v BY <1>2, <1>3 DEF LoopsInv
    <2>3. ~Live => \A v \in Loops : item'[v] # 0 => v = Main BY <1>1, <1>3 DEF LoopsInv
    <2>4. QED BY <1>1, <1>4, <2>1, <2>2, <2>3 DEF LoopsInv
<1>7. GivenInv'
    <2>1. ASSUME NEW k \in 1..Len(Outputs)
          PROVE  ToSet(got'[Outputs[k]]) = (1..arrived') \ Before(k)'
        <3>1. Before(k)' = Before(k) \cup {arrived + 1}
            <4>1. k \in Nat /\ k >= 1 BY <2>1, OutputTypes
            <4>2. \A e : e \in Before(k)' <=> \E v \in Loops : item'[v] # 0 /\ output'[v] <= k /\ item'[v] = e
                BY DEF Before
            <4>3. \A e : e \in Before(k) <=> \E v \in Loops : item[v] # 0 /\ output[v] <= k /\ item[v] = e
                BY DEF Before
            <4>4. arrived + 1 \in Before(k)' BY <1>2, <1>3, <4>1, <4>2
            <4>5. QED BY <1>1, <1>3, <4>2, <4>3, <4>4
        <3>2. (1..(arrived + 1)) \ (Before(k) \cup {arrived + 1}) = (1..arrived) \ Before(k) BY <1>2
        <3>3. ToSet(got[Outputs[k]]) = (1..arrived) \ Before(k) BY <2>1, OutputTypes DEF GivenInv
        <3>4. QED BY <1>1, <3>1, <3>2, <3>3
    <2>2. QED BY <1>1, <1>4, <2>1, OutputTypes DEF GivenInv
<1>8. ShownInv'
    <2>1. Main \in Loops BY ToolConstants
    <2>2. CASE w = Main BY <1>3, <2>2 DEF ShownInv
    <2>3. CASE w # Main BY <1>1, <1>3, <1>4, <2>1, <2>3 DEF ShownInv
    <2>4. QED BY <2>2, <2>3
<1>9. QED BY <1>5, <1>6, <1>7, <1>8

\* An output is given the event in hand, which it had not been given.
LEMMA DeliverKeeps ==
    ASSUME ToolInv, NEW w \in Loops, Deliver(w)
    PROVE  ToolInv'
<1> USE DEF ToolInv
<1>1. PICK k, x, e : k = output[w] /\ x = Outputs[k] /\ e = item[w] OBVIOUS
<1>2. /\ command' = command /\ opts' = opts /\ item' = item /\ arrived' = arrived
      /\ phase' = phase /\ status' = status /\ phase # "exited"
      /\ e # 0 /\ k <= Len(Outputs) /\ output' = [output EXCEPT ![w] = @ + 1]
      /\ got' = [got EXCEPT ![x] = Append(@, e)]
      /\ onDisk' \in IF x = "jsonl" THEN onDisk..Len(got'[x]) ELSE {onDisk}
    BY <1>1 DEF Deliver
<1>3. /\ arrived \in Nat /\ item \in [Loops -> 0..arrived] /\ output \in [Loops -> Nat]
      /\ got \in [OutputNames -> Seq(Nat)]
    BY DEF ToolTypeOK
<1>4. e \in 1..arrived /\ e \in Nat /\ k \in Nat /\ k # 0 BY <1>1, <1>2, <1>3 DEF LoopsInv
<1>5. k \in 1..Len(Outputs) /\ x \in OutputNames BY <1>1, <1>2, <1>4, OutputTypes
<1>6. e \in Before(k) BY <1>1, <1>2, <1>4 DEF Before
<1>7. e \notin ToSet(got[x])
    <2>1. ToSet(got[x]) = (1..arrived) \ Before(k) BY <1>1, <1>5, OutputTypes DEF GivenInv
    <2>2. QED BY <1>6, <2>1
<1>8. PICK s, t : s = got[x] /\ t = Append(s, e) OBVIOUS
<1>9. s \in Seq(Nat) /\ OnceEach(s) /\ e \notin ToSet(s) BY <1>3, <1>5, <1>7, <1>8 DEF GivenInv
<1>10. /\ t \in Seq(Nat) /\ t # <<>> /\ OnceEach(t) /\ ToSet(t) = ToSet(s) \cup {e}
       /\ Len(t) = Len(s) + 1 /\ t[Len(t)] = e
    BY <1>4, <1>8, <1>9, AppendNew
<1>11. got'[x] = t /\ (\A y \in OutputNames \ {x} : got'[y] = got[y]) /\ got' \in [OutputNames -> Seq(Nat)]
    BY <1>2, <1>3, <1>5, <1>8, <1>10
<1>12. output'[w] = k + 1 /\ \A v \in Loops \ {w} : output'[v] = output[v] BY <1>1, <1>2, <1>3
<1>13. Outputs' = Outputs /\ Live' = Live /\ Options' = Options BY <1>2, SameOutputs
<1>14. ToolTypeOK'
    <2>1. output' \in [Loops -> Nat] BY <1>2, <1>3
    <2>2. onDisk' \in 0..Len(got'["jsonl"])
        <3>1. onDisk \in 0..Len(got["jsonl"]) BY DEF ToolTypeOK
        <3>2. Len(s) \in Nat BY <1>9, LenProperties
        <3>3. CASE x = "jsonl" BY <1>2, <1>8, <1>10, <1>11, <3>1, <3>2, <3>3
        <3>4. CASE x # "jsonl" BY <1>2, <1>11, <3>1, <3>4, OutputTypes
        <3>5. QED BY <3>3, <3>4
    <2>3. QED BY <1>2, <1>11, <1>13, <2>1, <2>2 DEF ToolTypeOK
<1>15. LoopsInv'
    <2>1. \A v \in Loops : item'[v] = 0 <=> output'[v] = 0
        BY <1>1, <1>2, <1>4, <1>12 DEF LoopsInv
    <2>2. QED BY <1>2, <1>13, <2>1 DEF LoopsInv
<1>16. GivenInv'
    <2>1. \A y \in OutputNames : OnceEach(got'[y]) BY <1>10, <1>11 DEF GivenInv
    <2>2. ASSUME NEW j \in 1..Len(Outputs)
          PROVE  ToSet(got'[Outputs[j]]) = (1..arrived) \ Before(j)'
        <3>1. \A f : f \in Before(j)' <=> \E v \in Loops : item[v] # 0 /\ output'[v] <= j /\ item[v] = f
            BY <1>2 DEF Before
        <3>2. \A f : f \in Before(j) <=> \E v \in Loops : item[v] # 0 /\ output[v] <= j /\ item[v] = f
            BY DEF Before
        <3>3. ToSet(got[Outputs[j]]) = (1..arrived) \ Before(j) BY <2>2, OutputTypes DEF GivenInv
        <3>4. j \in Nat BY <2>2, OutputTypes
        <3>5. CASE j = k
            <4>1. Before(j)' = Before(j) \ {e}
                <5>1. \A v \in Loops : item[v] = e => v = w BY <1>1, <1>2 DEF LoopsInv
                <5>2. e \notin Before(j)' BY <1>4, <1>12, <3>1, <3>4, <3>5, <5>1
                <5>3. \A f : f # e => (f \in Before(j)' <=> f \in Before(j))
                    BY <1>1, <1>12, <3>1, <3>2
                <5>4. QED BY <5>2, <5>3
            <4>2. ToSet(got'[Outputs[j]]) = ToSet(got[Outputs[j]]) \cup {e}
                BY <1>1, <1>8, <1>10, <1>11, <3>5
            <4>3. QED BY <1>4, <3>3, <4>1, <4>2
        <3>6. CASE j # k
            <4>1. Before(j)' = Before(j)
                <5>1. output[w] <= j <=> output'[w] <= j BY <1>1, <1>4, <1>12, <3>4, <3>6
                <5>2. \A v \in Loops : output[v] <= j <=> output'[v] <= j BY <1>12, <5>1
                <5>3. \A f : f \in Before(j)' <=> f \in Before(j) BY <3>1, <3>2, <5>2
                <5>4. QED BY <5>3
            <4>2. Outputs[j] # x BY <1>1, <1>5, <2>2, <3>6, OutputTypes DEF OutputsOK, OnceEach
            <4>3. got'[Outputs[j]] = got[Outputs[j]] BY <1>11, <2>2, <4>2, OutputTypes
            <4>4. QED BY <3>3, <4>1, <4>3
        <3>7. QED BY <3>5, <3>6
    <2>3. \A y \in OutputNames \ ToSet(Outputs) : got'[y] = <<>>
        <3>1. x \in ToSet(Outputs) BY <1>1, <1>5, OutputTypes DEF ToSet
        <3>2. QED BY <1>11, <3>1 DEF GivenInv
    <2>4. QED BY <1>2, <1>13, <2>1, <2>2, <2>3, OutputTypes DEF GivenInv
<1>17. ShownInv'
    <2> SUFFICES ASSUME ~Live, output'[Main] >= 2
                 PROVE  got'["console"] # <<>> /\ got'["console"][Len(got'["console"])] = item[Main]
        BY <1>2, <1>13 DEF ShownInv
    <2>1. w = Main BY <1>1, <1>2 DEF LoopsInv
    <2>2. CASE k = 1
        <3>1. x = "console" BY <1>1, <2>2, OutputTypes DEF OutputsOK
        <3>2. QED BY <1>1, <1>10, <1>11, <2>1, <3>1
    <2>3. CASE k # 1
        <3>1. x # "console" BY <1>1, <1>5, <2>3, OutputTypes DEF OutputsOK, OnceEach
        <3>2. got'["console"] = got["console"] BY <1>11, <3>1, OutputTypes
        <3>3. output[Main] >= 2 BY <1>1, <1>4, <2>1, <2>3
        <3>4. QED BY <3>2, <3>3 DEF ShownInv
    <2>4. QED BY <2>2, <2>3
<1>18. QED BY <1>14, <1>15, <1>16, <1>17

\* An event is put away when it is behind the last output.
LEMMA DoneKeeps ==
    ASSUME ToolInv, NEW w \in Loops, Done(w)
    PROVE  ToolInv'
<1> USE DEF ToolInv
<1>1. /\ command' = command /\ opts' = opts /\ got' = got /\ onDisk' = onDisk /\ arrived' = arrived
      /\ phase' = phase /\ status' = status /\ phase # "exited" /\ output[w] > Len(Outputs)
      /\ item' = [item EXCEPT ![w] = 0] /\ output' = [output EXCEPT ![w] = 0]
    BY DEF Done
<1>2. arrived \in Nat /\ item \in [Loops -> 0..arrived] /\ output \in [Loops -> Nat] BY DEF ToolTypeOK
<1>3. /\ item'[w] = 0 /\ output'[w] = 0
      /\ \A v \in Loops \ {w} : item'[v] = item[v] /\ output'[v] = output[v]
      /\ item' \in [Loops -> 0..arrived] /\ output' \in [Loops -> Nat]
    BY <1>1, <1>2
<1>4. Outputs' = Outputs /\ Live' = Live /\ Options' = Options BY <1>1, SameOutputs
<1>5. ToolTypeOK' BY <1>1, <1>3, <1>4 DEF ToolTypeOK
<1>6. LoopsInv'
    <2>1. \A v \in Loops : item'[v] = 0 <=> output'[v] = 0 BY <1>3 DEF LoopsInv
    <2>2. \A u, v \in Loops : item'[u] = item'[v] /\ item'[u] # 0 => u = v BY <1>3 DEF LoopsInv
    <2>3. ~Live => \A v \in Loops : item'[v] # 0 => v = Main BY <1>3 DEF LoopsInv
    <2>4. QED BY <1>1, <1>4, <2>1, <2>2, <2>3 DEF LoopsInv
<1>7. GivenInv'
    <2>1. ASSUME NEW k \in 1..Len(Outputs)
          PROVE  Before(k)' = Before(k)
        <3>1. \A e : e \in Before(k)' <=> \E v \in Loops : item'[v] # 0 /\ output'[v] <= k /\ item'[v] = e
            BY DEF Before
        <3>2. \A e : e \in Before(k) <=> \E v \in Loops : item[v] # 0 /\ output[v] <= k /\ item[v] = e
            BY DEF Before
        <3>3. ~(output[w] <= k) BY <1>1, <1>2, OutputTypes
        <3>4. item'[w] = 0 /\ \A v \in Loops \ {w} : item'[v] = item[v] /\ output'[v] = output[v] BY <1>3
        <3>5. \A e : e \in Before(k)' => e \in Before(k) BY <3>1, <3>2, <3>4
        <3>6. \A e : e \in Before(k) => e \in Before(k)' BY <3>1, <3>2, <3>3, <3>4
        <3>7. QED BY <3>5, <3>6
    <2>2. QED BY <1>1, <1>4, <2>1, OutputTypes DEF GivenInv
<1>8. ShownInv'
    <2>1. Main \in Loops BY ToolConstants
    <2>2. CASE w = Main BY <1>3, <2>2 DEF ShownInv
    <2>3. CASE w # Main BY <1>1, <1>3, <1>4, <2>1, <2>3 DEF ShownInv
    <2>4. QED BY <2>2, <2>3
<1>9. QED BY <1>5, <1>6, <1>7, <1>8

\* A normal end waits for the workers and flushes the buffer.
LEMMA ReturnKeeps ==
    ASSUME ToolInv, Return
    PROVE  ToolInv'
<1> USE DEF ToolInv
<1>1. /\ command' = command /\ opts' = opts /\ item' = item /\ output' = output
      /\ arrived' = arrived /\ got' = got /\ onDisk' = Len(got["jsonl"])
      /\ phase' = "exited" /\ \A w \in Loops : item[w] = 0
    BY DEF Return, Exit
<1>2. Outputs' = Outputs /\ Live' = Live /\ Options' = Options BY <1>1, SameOutputs
<1>3. ToolTypeOK'
    <2>1. Len(got["jsonl"]) \in Nat BY OutputTypes, LenProperties
    <2>2. QED BY <1>1, <1>2, <2>1 DEF ToolTypeOK
<1>4. LoopsInv' BY <1>1, <1>2 DEF LoopsInv
<1>5. GivenInv'
    <2>1. \A k : Before(k)' = Before(k) BY <1>1 DEF Before
    <2>2. QED BY <1>1, <1>2, <2>1 DEF GivenInv
<1>6. ShownInv' BY <1>1, <1>2 DEF ShownInv
<1>7. QED BY <1>3, <1>4, <1>5, <1>6

-----------------------------------------------------------------------------
(* The theorems.                                                           *)

\* The inductive invariant of a run: which events every output has been given.
THEOREM ToolInvariance == ToolSpec => []ToolInv
<1>1. ToolInv /\ [ToolNext]_toolVars => ToolInv'
    <2> SUFFICES ASSUME ToolInv, [ToolNext]_toolVars PROVE ToolInv' OBVIOUS
    <2>1. CASE OpenFile \/ Start \/ Signal \/ KillTool
        <3>1. phase \in {"open", "running", "stopping", "exited"} BY DEF ToolInv, ToolTypeOK
        <3>2. QED BY <2>1, <3>1, NoEventKeeps DEF OpenFile, Start, Signal, KillTool, Exit
    <2>2. CASE Return BY <2>2, ReturnKeeps
    <2>3. ASSUME NEW w \in Loops, Receive(w) \/ Deliver(w) \/ Done(w)
          PROVE  ToolInv'
        BY <2>3, ReceiveKeeps, DeliverKeeps, DoneKeeps
    <2>4. CASE UNCHANGED toolVars
        <3>1. phase \in {"open", "running", "stopping", "exited"} BY DEF ToolInv, ToolTypeOK
        <3>2. QED BY <2>4, <3>1, NoEventKeeps DEF toolVars, given
    <2>5. QED BY <2>1, <2>2, <2>3, <2>4 DEF ToolNext
<1>2. QED BY <1>1, InitTool, PTL DEF ToolSpec

\* At every moment, and however the run ends, no live recording lacks an event that the
\* console has shown, and a capture's only the one shown last.
LEMMA InvConsole == ToolInv => ConsoleNeverAhead
<1> SUFFICES ASSUME ToolInv, NEW x \in ToSet(Files)
             PROVE  LET missing == ToSet(got["console"]) \ ToSet(got[x])
                    IN missing = {} \/ (~Live /\ missing = {Last(got["console"])})
    BY DEF ConsoleNeverAhead
<1> USE DEF ToolInv
<1>1. x # "console" /\ x \in ToSet(Outputs) BY OutputTypes DEF OutputsOK
<1>2. PICK k \in 1..Len(Outputs) : Outputs[k] = x BY <1>1, OutputTypes DEF ToSet
<1>3. ToSet(got[x]) = (1..arrived) \ Before(k) BY <1>2, OutputTypes DEF GivenInv
<1>4. \A j : \A e : e \in Before(j) <=> \E v \in Loops : item[v] # 0 /\ output[v] <= j /\ item[v] = e
    BY DEF Before
<1>5. CASE "console" \notin ToSet(Outputs)
    <2>1. got["console"] = <<>> BY <1>5, OutputTypes DEF GivenInv
    <2>2. ToSet(<<>>) = {} BY DEF ToSet
    <2>3. QED BY <2>1, <2>2
<1>6. CASE "console" \in ToSet(Outputs)
    <2>1. PICK j \in 1..Len(Outputs) : Outputs[j] = "console" BY <1>6, OutputTypes DEF ToSet
    <2>2. ToSet(got["console"]) = (1..arrived) \ Before(j) BY <2>1, OutputTypes DEF GivenInv
    <2>3. j \in Nat /\ k \in Nat /\ j # k /\ output \in [Loops -> Nat]
        BY <1>1, <1>2, <2>1, OutputTypes DEF ToolTypeOK
    <2>4. CASE Live
        <3>1. k < j BY <1>2, <2>1, <2>3, <2>4, OutputTypes DEF OutputsOK
        <3>2. Before(k) \subseteq Before(j) BY <1>4, <2>3, <3>1
        <3>3. QED BY <1>3, <2>2, <3>2
    <2>5. CASE ~Live
        <3>1. j = 1
            <4>1. 1 \in 1..Len(Outputs) /\ Outputs[1] = "console" BY <2>5, OutputTypes DEF OutputsOK
            <4>2. QED BY <2>1, <4>1, OutputTypes DEF OutputsOK, OnceEach
        <3>2. PICK m : m = (1..arrived) \ Before(1) /\ m = ToSet(got["console"]) BY <2>2, <3>1
        <3>3. \A e \in m \ ToSet(got[x]) : e = item[Main] /\ item[Main] # 0 /\ output[Main] >= 2
            <4> SUFFICES ASSUME NEW e \in m, e \notin ToSet(got[x])
                         PROVE  e = item[Main] /\ item[Main] # 0 /\ output[Main] >= 2
                OBVIOUS
            <4>1. e \in Before(k) /\ e \notin Before(1) BY <1>3, <3>2
            <4>2. PICK v \in Loops : item[v] # 0 /\ item[v] = e BY <1>4, <4>1
            <4>3. v = Main BY <2>5, <4>2 DEF LoopsInv
            <4>4. ~(output[v] <= 1) BY <1>4, <4>1, <4>2
            <4>5. QED BY <2>3, <4>2, <4>3, <4>4
        <3>4. CASE m \ ToSet(got[x]) = {} BY <3>2, <3>4
        <3>5. CASE m \ ToSet(got[x]) # {}
            <4>1. m \ ToSet(got[x]) = {item[Main]} BY <3>3, <3>5
            <4>2. output[Main] >= 2 BY <3>3, <3>5
            <4>3. Last(got["console"]) = item[Main] BY <2>5, <4>2 DEF ShownInv, Last
            <4>4. QED BY <2>5, <3>2, <4>1, <4>3
        <3>6. QED BY <3>4, <3>5
    <2>6. QED BY <2>4, <2>5
<1>7. QED BY <1>5, <1>6

\* After a normal end every output has had every event once, and the files hold them.
LEMMA InvNormalExit == ToolInv => NormalExitKeepsAll
<1> SUFFICES ASSUME ToolInv, phase = "exited", status = 0, NEW x \in ToSet(Outputs)
             PROVE  Saved(x) = 1..arrived /\ Len(got[x]) = arrived
    BY DEF NormalExitKeepsAll
<1> USE DEF ToolInv
<1>1. PICK k \in 1..Len(Outputs) : Outputs[k] = x BY OutputTypes DEF ToSet
<1>2. Before(k) = {} BY DEF Before, LoopsInv
<1>3. x \in OutputNames /\ ToSet(got[x]) = (1..arrived) \ Before(k)
    BY <1>1, OutputTypes DEF GivenInv
<1>4. got[x] \in Seq(Nat) /\ OnceEach(got[x]) BY <1>3, OutputTypes DEF GivenInv
<1>5. ToSet(got[x]) = 1..arrived /\ arrived \in Nat BY <1>2, <1>3 DEF ToolTypeOK
<1>6. Len(got[x]) = arrived BY <1>4, <1>5, OnceEachLen
<1>7. SubSeq(got[x], 1, Len(got[x])) = got[x] BY <1>4, SubSeqFull
<1>8. x = "jsonl" => onDisk = Len(got[x]) BY DEF LoopsInv
<1>9. QED BY <1>5, <1>6, <1>7, <1>8 DEF Saved

\* For every set of commands, workers and events the recordings keep up with the
\* console, and are complete after a normal end.
THEOREM ToolKeepsUp == ToolSpec => []RecordingKeepsUp
<1>1. ToolInv => RecordingKeepsUp BY InvConsole, InvNormalExit DEF RecordingKeepsUp
<1>2. QED BY <1>1, ToolInvariance, PTL
=============================================================================
