------------------------- MODULE FrameReader_proofs -------------------------
(***************************************************************************)
(* Frames handed out by FrameReader are never overwritten, for every       *)
(* stream, every size of the buffer and of the reads, and every way in     *)
(* which append chooses the capacity of a new array; and, in the delimited *)
(* modes and as long as the resync guard has cut nothing, they are the     *)
(* frames a byte-by-byte scan of the stream finds, however the reads cut   *)
(* the stream.                                                             *)
(***************************************************************************)
EXTENDS FrameReader, SequenceTheorems, WellFoundedInduction, TLAPS

FrameSet == [first : Nat, last : Nat, from : Nat, to : Nat, arr : Nat, cell : Nat]

-----------------------------------------------------------------------------
(* Searching.                                                              *)

\* A non-empty set of numbers has a least one, hence a first position is found.
LEMMA NatMin ==
    ASSUME NEW S \in SUBSET Nat, S # {}
    PROVE  \E m \in S : \A k \in S : m <= k
<1>1. PICK m \in S : \A k \in S : <<k, m>> \notin OpToRel(<, Nat)
    <2>1. \A s \in SUBSET Nat : s # {} =>
              \E x \in s : \A y \in s : ~ (<<y, x>> \in OpToRel(<, Nat))
        BY WFMin, NatLessThanWellFounded
    <2>2. QED BY <2>1
<1>2. ASSUME NEW k \in S PROVE m <= k
    <2>1. k \in Nat /\ m \in Nat OBVIOUS
    <2>2. ~(k < m) BY <1>1, <2>1, Zenon DEF OpToRel
    <2>3. QED BY <2>1, <2>2
<1>3. QED BY <1>2

\* The position bytes.IndexByte finds is in the range, or it says so.
LEMMA IndexByteRange ==
    ASSUME NEW x, NEW a \in Nat, NEW b \in Nat
    PROVE  IndexByte(x, a, b) = 0 \/ IndexByte(x, a, b) \in a .. (b - 1)
<1> DEFINE S == {p \in a .. (b - 1) : stream[p] = x}
<1>1. CASE S = {} BY <1>1 DEF IndexByte
<1>2. CASE S # {}
    <2>1. S \in SUBSET Nat OBVIOUS
    <2>2. PICK m \in S : \A k \in S : m <= k BY <1>2, <2>1, NatMin
    <2>3. \A q \in a .. (m - 1) : stream[q] # x
        <3>1. ASSUME NEW q \in a .. (m - 1), stream[q] = x PROVE FALSE
            <4>1. q \in S BY <3>1
            <4>2. QED BY <2>2, <4>1
        <3>2. QED BY <3>1
    <2>4. \E p \in a .. (b - 1) : stream[p] = x /\ \A q \in a .. (p - 1) : stream[q] # x
        BY <2>3
    <2>5. QED BY <2>4 DEF IndexByte
<1>3. QED BY <1>1, <1>2

\* There is an end without trailing CRs.
LEMMA TrimRightExists ==
    ASSUME NEW a \in Nat, NEW b \in Nat, a <= b
    PROVE  \E e \in a .. b :
              (\A p \in e .. (b - 1) : stream[p] = CR) /\ (e > a => stream[e - 1] # CR)
<1> DEFINE S == {e \in a .. b : \A p \in e .. (b - 1) : stream[p] = CR}
<1>1. S \in SUBSET Nat /\ b \in S OBVIOUS
<1>2. PICK m \in S : \A k \in S : m <= k BY <1>1, NatMin
<1>3. m > a => stream[m - 1] # CR
    <2>1. SUFFICES ASSUME m > a, stream[m - 1] = CR PROVE FALSE OBVIOUS
    <2>2. m - 1 \in S
        <3>1. m - 1 \in a .. b BY <2>1
        <3>2. ASSUME NEW p \in (m - 1) .. (b - 1) PROVE stream[p] = CR
            <4>1. CASE p = m - 1 BY <2>1, <4>1
            <4>2. CASE p # m - 1
                <5>1. p \in m .. (b - 1) BY <4>2
                <5>2. QED BY <5>1
            <4>3. QED BY <4>1, <4>2
        <3>3. QED BY <3>1, <3>2
    <2>3. QED BY <1>2, <2>2
<1>4. QED BY <1>3

\* bytes.TrimRight ends inside the range it is given.
LEMMA TrimRightRange ==
    ASSUME NEW a \in Nat, NEW b \in Nat, a <= b
    PROVE  TrimRight(a, b) \in a .. b
<1>1. \E e \in a .. b : (\A p \in e .. (b - 1) : stream[p] = CR) /\ (e > a => stream[e - 1] # CR)
    BY TrimRightExists
<1>2. QED BY <1>1 DEF TrimRight

-----------------------------------------------------------------------------
(* One attempt to extract a frame.                                         *)

\* What tryExtractFrame does to a buffer a..b-1 in cell c: it only moves the start
\* forwards, cell and position together, unless nothing is left; and a frame found
\* lies between the old start and the new one.
Extracted(f, t, a, c) ==
    /\ t.found = <<f>>
    /\ f.arr = arr
    /\ a <= f.first /\ f.first <= f.last /\ f.last < t.lo
    /\ f.cell = c + (f.first - a)
    /\ t.off = c + (t.lo - a)

Extraction(t, a, b, c) ==
    /\ t.lo \in a .. b
    /\ t.off = c + (t.lo - a) \/ (t.lo = b /\ t.off = c)
    /\ t.found = <<>> \/ \E f \in FrameSet : Extracted(f, t, a, c)

\* An attempt that finds a frame is an Extraction if the frame is Extracted.
LEMMA ExtractionFound ==
    ASSUME NEW t, NEW a \in Nat, NEW b \in Nat, NEW c \in Nat, NEW f \in FrameSet,
           t.lo \in a .. b, Extracted(f, t, a, c)
    PROVE  Extraction(t, a, b, c)
<1>1. t.off = c + (t.lo - a) BY DEF Extracted
<1>2. \E g \in FrameSet : Extracted(g, t, a, c) OBVIOUS
<1>3. QED BY <1>1, <1>2, Zenon DEF Extraction

\* An attempt that finds nothing is one.
LEMMA ExtractionNone ==
    ASSUME NEW t, NEW a \in Nat, NEW b \in Nat, NEW c \in Nat, t.found = <<>>,
           t.lo \in a .. b, t.off = c + (t.lo - a) \/ (t.lo = b /\ t.off = c)
    PROVE  Extraction(t, a, b, c)
BY Zenon DEF Extraction

\* tryExtractFrame is an Extraction in every mode, for every buffer.
LEMMA ExtractFrame ==
    ASSUME NEW a \in Nat, NEW b \in Nat, NEW c \in Nat, 1 <= a, a <= b, arr \in Nat
    PROVE  Extraction(TryExtractFrame(a, b, c), a, b, c)
<1> DEFINE nl  == IndexByte(NL, a, b)
           sof == IndexByte(SOF, a, b)
           eof == IndexByte(EOF, sof + 1, b)
           t   == TryExtractFrame(a, b, c)
<1>1. nl = 0 \/ nl \in a .. (b - 1) BY IndexByteRange
<1>2. sof = 0 \/ sof \in a .. (b - 1) BY IndexByteRange
<1>3. eof = 0 \/ eof \in (sof + 1) .. (b - 1)
    <2>1. sof + 1 \in Nat BY <1>2
    <2>2. QED BY <2>1, IndexByteRange
<1>4. CASE mode = "newline" /\ nl # 0
    <2> DEFINE f == Frame(a, nl, a, TrimRight(a, nl), c)
    <2>1. nl \in a .. (b - 1) BY <1>1, <1>4
    <2>2. TrimRight(a, nl) \in Nat
        <3>1. nl \in Nat /\ a <= nl BY <2>1
        <3>2. TrimRight(a, nl) \in a .. nl BY <3>1, TrimRightRange
        <3>3. QED BY <3>1, <3>2
    <2>3. t = [found |-> <<f>>, lo |-> nl + 1, off |-> c + nl + 1 - a]
        BY <1>4 DEF TryExtractFrame
    <2>4. f \in FrameSet BY <2>1, <2>2 DEF Frame, FrameSet
    <2> HIDE DEF nl, t
    <2>5. Extracted(f, t, a, c) BY <2>1, <2>3 DEF Extracted, Frame
    <2>6. t.lo \in a .. b BY <2>1, <2>3
    <2> HIDE DEF f
    <2>7. Extraction(t, a, b, c) BY <2>4, <2>5, <2>6, ExtractionFound
    <2>8. QED BY <2>7 DEF t
<1>5. CASE mode = "sync" /\ (sof = 0 \/ eof = 0)
    <2>1. t = [found |-> <<>>, lo |-> SyncStart(a, b),
               off |-> IF sof = 0 THEN c ELSE c + SyncStart(a, b) - a]
        BY <1>5 DEF TryExtractFrame
    <2>2. SyncStart(a, b) = IF sof = 0 THEN b ELSE sof BY DEF SyncStart
    <2> HIDE DEF sof, t, eof
    <2>3. t.found = <<>> /\ t.lo \in a .. b BY <1>2, <2>1, <2>2
    <2>4. t.off = c + (t.lo - a) \/ (t.lo = b /\ t.off = c) BY <1>2, <2>1, <2>2
    <2>5. Extraction(t, a, b, c) BY <2>3, <2>4, ExtractionNone
    <2>6. QED BY <2>5 DEF t
<1>6. CASE mode = "sync" /\ sof # 0 /\ eof # 0
    <2> DEFINE f == Frame(sof, eof, sof + 1, eof, c + sof - a)
    <2>1. t = [found |-> <<f>>, lo |-> eof + 1, off |-> c + eof + 1 - a]
        BY <1>6 DEF TryExtractFrame
    <2> HIDE DEF sof, t, eof
    <2>2. sof \in a .. (b - 1) /\ eof \in (sof + 1) .. (b - 1) BY <1>2, <1>3, <1>6
    <2>3. f \in FrameSet BY <2>2 DEF Frame, FrameSet
    <2>4. Extracted(f, t, a, c) BY <2>1, <2>2 DEF Extracted, Frame
    <2>5. t.lo \in a .. b BY <2>1, <2>2
    <2> HIDE DEF f
    <2>6. Extraction(t, a, b, c) BY <2>3, <2>4, <2>5, ExtractionFound
    <2>7. QED BY <2>6 DEF t
<1>7. CASE ~(mode = "newline" /\ nl # 0) /\ mode # "sync"
    <2>1. t = [found |-> <<>>, lo |-> a, off |-> c] BY <1>7 DEF TryExtractFrame
    <2> HIDE DEF t
    <2>2. t.found = <<>> /\ t.lo \in a .. b /\ t.off = c + (t.lo - a) BY <2>1
    <2>3. Extraction(t, a, b, c) BY <2>2, ExtractionNone
    <2>4. QED BY <2>3 DEF t
<1>8. QED BY <1>4, <1>5, <1>6, <1>7

-----------------------------------------------------------------------------
(* Runs of cells.                                                          *)

\* The cells from c to c + l hold the positions from a on.
Holds(cells, c, a, l) == \A k \in 0 .. l : cells[c + k] = a + k

\* A part of such a run is one.
LEMMA HoldsPart ==
    ASSUME NEW cells, NEW c \in Nat, NEW a \in Nat, NEW l \in Int, NEW d \in Nat, NEW m \in Int,
           d + m <= l, Holds(cells, c, a, l)
    PROVE  Holds(cells, c + d, a + d, m)
<1>1. ASSUME NEW k \in 0 .. m PROVE cells[(c + d) + k] = (a + d) + k
    <2>1. d + k \in 0 .. l OBVIOUS
    <2>2. cells[c + (d + k)] = a + (d + k) BY <2>1 DEF Holds
    <2>3. c + (d + k) = (c + d) + k /\ a + (d + k) = (a + d) + k OBVIOUS
    <2>4. QED BY <2>2, <2>3
<1>2. QED BY <1>1 DEF Holds

\* new is old with the positions a + have.. written behind the first have cells of a run
\* at c, up to its length need.
Written(new, old, size, a, c, have, need) ==
    /\ a \in Nat /\ c \in Nat /\ have \in Nat /\ need \in Nat /\ size \in Nat
    /\ have <= need /\ c + need <= size
    /\ \A k \in 0 .. (size - 1) : old[k] \in Nat
    /\ \A k \in 0 .. (size - 1) :
         new[k] = IF c + have <= k /\ k < c + need THEN a + k - c ELSE old[k]

\* The slice returned by append, as the cells behind it: the bytes there were and the
\* new ones.
LEMMA AppendedInPlace ==
    ASSUME NEW a, NEW c, NEW have, NEW need, NEW size, NEW old, NEW new,
           Written(new, old, size, a, c, have, need), Holds(old, c, a, have - 1)
    PROVE  /\ \A k \in 0 .. (size - 1) : new[k] \in Nat
           /\ Holds(new, c, a, need - 1)
           /\ \A k \in 0 .. (c - 1) : new[k] = old[k]
<1> /\ a \in Nat /\ c \in Nat /\ have \in Nat /\ need \in Nat /\ size \in Nat
    /\ have <= need /\ c + need <= size
    BY DEF Written
<1>0. \A k \in 0 .. (size - 1) :
        /\ old[k] \in Nat
        /\ new[k] = IF c + have <= k /\ k < c + need THEN a + k - c ELSE old[k]
    BY DEF Written
<1>1. ASSUME NEW k \in 0 .. (size - 1) PROVE new[k] \in Nat
    <2>1. old[k] \in Nat BY <1>0
    <2>2. c + have <= k => a + k - c \in Nat OBVIOUS
    <2>3. QED BY <1>0, <2>1, <2>2
<1>2. ASSUME NEW k \in 0 .. (need - 1) PROVE new[c + k] = a + k
    <2>1. c + k \in 0 .. (size - 1) OBVIOUS
    <2>2. CASE k < have
        <3>1. k \in 0 .. (have - 1) /\ ~(c + have <= c + k) BY <2>2
        <3>2. new[c + k] = old[c + k] BY <1>0, <2>1, <3>1
        <3>3. QED BY <3>1, <3>2 DEF Holds
    <2>3. CASE ~(k < have)
        <3>1. c + have <= c + k /\ c + k < c + need /\ a + (c + k) - c = a + k BY <2>3
        <3>2. new[c + k] = a + (c + k) - c BY <1>0, <2>1, <3>1
        <3>3. QED BY <3>1, <3>2
    <2>4. QED BY <2>2, <2>3
<1>3. ASSUME NEW k \in 0 .. (c - 1) PROVE new[k] = old[k]
    <2>1. k \in 0 .. (size - 1) /\ ~(c + have <= k) OBVIOUS
    <2>2. QED BY <1>0, <2>1
<1>4. QED BY <1>1, <1>2, <1>3 DEF Holds

\* The same in a new array, which begins with the bytes there were.
LEMMA AppendedInNewArray ==
    ASSUME NEW a \in Nat, NEW need \in Nat, NEW size \in Nat, NEW new, need <= size,
           \A k \in 0 .. (size - 1) : new[k] = IF k < need THEN a + k ELSE 0
    PROVE  /\ \A k \in 0 .. (size - 1) : new[k] \in Nat
           /\ Holds(new, 0, a, need - 1)
<1>1. ASSUME NEW k \in 0 .. (need - 1) PROVE new[0 + k] = a + k
    <2>1. k \in 0 .. (size - 1) /\ k < need /\ 0 + k = k OBVIOUS
    <2>2. QED BY <2>1
<1>2. \A k \in 0 .. (size - 1) : new[k] \in Nat OBVIOUS
<1>3. QED BY <1>1, <1>2 DEF Holds

\* Before and after append; d is the cell where the slice begins.
AppendInput(a, c, d, need) ==
    /\ hi \in Nat /\ arr \in Nat /\ cap \in Nat /\ mem \in [0 .. (cap - 1) -> Nat]
    /\ a <= hi /\ hi <= a + need /\ Holds(mem, c, a, hi - a - 1)
    /\ d = IF c + need <= cap THEN c ELSE 0
AppendResult(a, c, d, need) ==
    /\ arr' \in Nat /\ cap' \in Nat /\ mem' \in [0 .. (cap' - 1) -> Nat]
    /\ d + need <= cap'
    /\ Holds(mem', d, a, need - 1)
    /\ \/ arr' = arr /\ d = c /\ \A k \in 0 .. (c - 1) : mem'[k] = mem[k]
       \/ arr' = arr + 1

\* The effect of append.
LEMMA Appended ==
    ASSUME NEW n \in Nat, NEW a \in Nat, NEW c \in Nat, NEW d, NEW need \in Nat
    PROVE  AppendInput(a, c, d, need) /\ need = hi + n - a /\ AppendBytes(a, c, n)
             => AppendResult(a, c, d, need)
<1>1. SUFFICES ASSUME AppendInput(a, c, d, need), need = hi + n - a, AppendBytes(a, c, n)
               PROVE  AppendResult(a, c, d, need)
    OBVIOUS
<1>2. PICK have \in Nat : have = hi - a BY <1>1 DEF AppendInput
<1>3. have <= need /\ c + hi - a = c + have BY <1>1, <1>2 DEF AppendInput
<1>4. arr \in Nat /\ cap \in Nat /\ mem \in [0 .. (cap - 1) -> Nat] BY <1>1 DEF AppendInput
<1>5. CASE c + need <= cap
    <2>1. /\ mem' = [k \in 0 .. (cap - 1) |->
                       IF c + hi - a <= k /\ k < c + need THEN a + k - c ELSE mem[k]]
          /\ arr' = arr /\ cap' = cap
        BY <1>1, <1>5 DEF AppendBytes
    <2>2. Written(mem', mem, cap, a, c, have, need)
        BY <1>3, <1>4, <1>5, <2>1 DEF Written
    <2>3. Holds(mem, c, a, have - 1) BY <1>1, <1>2 DEF AppendInput
    <2>4. /\ \A k \in 0 .. (cap - 1) : mem'[k] \in Nat
          /\ Holds(mem', c, a, need - 1)
          /\ \A k \in 0 .. (c - 1) : mem'[k] = mem[k]
        BY <2>2, <2>3, AppendedInPlace
    <2>5. mem' \in [0 .. (cap' - 1) -> Nat] BY <2>1, <2>4
    <2>6. d = c BY <1>1, <1>5 DEF AppendInput
    <2>7. arr' = arr /\ arr' \in Nat /\ cap' \in Nat /\ d + need <= cap'
        BY <1>4, <1>5, <2>1, <2>6
    <2>8. QED BY <2>4, <2>5, <2>6, <2>7, Zenon DEF AppendResult
<1>6. CASE ~(c + need <= cap)
    <2>1. /\ arr' = arr + 1 /\ cap' \in {need, 2 * need}
          /\ mem' = [k \in 0 .. (cap' - 1) |-> IF k < need THEN a + k ELSE 0]
        BY <1>1, <1>6 DEF AppendBytes
    <2>2. d = 0 BY <1>1, <1>6 DEF AppendInput
    <2>3. cap' \in Nat /\ need <= cap' BY <2>1
    <2>4. \A k \in 0 .. (cap' - 1) : mem'[k] = IF k < need THEN a + k ELSE 0 BY <2>1
    <2>5. (\A k \in 0 .. (cap' - 1) : mem'[k] \in Nat) /\ Holds(mem', 0, a, need - 1)
        BY <2>3, <2>4, AppendedInNewArray
    <2>6. mem' \in [0 .. (cap' - 1) -> Nat] BY <2>1, <2>5
    <2>7. arr' \in Nat /\ d + need <= cap' BY <1>4, <2>1, <2>2, <2>3
    <2>8. arr' = arr + 1 BY <2>1
    <2>9. Holds(mem', d, a, need - 1) BY <2>2, <2>5
    <2>10. QED BY <2>3, <2>6, <2>7, <2>8, <2>9, Zenon DEF AppendResult
<1>7. QED BY <1>5, <1>6

-----------------------------------------------------------------------------
(* The frames returned.                                                    *)

\* What FramesNotOverwritten says of one frame.
Kept(f) == f.arr = arr => Holds(mem, f.cell, f.first, f.last - f.first)

\* FramesNotOverwritten is Kept for every frame.
LEMMA KeptAll == FramesNotOverwritten <=> \A i \in DOMAIN frames : Kept(frames[i])
BY DEF FramesNotOverwritten, Kept, Holds

\* If a step keeps the frames there were and appends at most one that is in order, all
\* frames are in order.
LEMMA FramesExtended ==
    ASSUME FramesInv, FramesNotOverwritten,
           \A f \in FrameSet : FrameOK(f) /\ Kept(f) => FrameOK(f)' /\ Kept(f)',
           NEW u, frames' = frames \o u,
           u = <<>> \/ \E h \in FrameSet : u = <<h>> /\ FrameOK(h)' /\ Kept(h)'
    PROVE  FramesInv' /\ FramesNotOverwritten'
<1>1. frames \in Seq(FrameSet) BY DEF FramesInv, FrameSet
<1>2. u \in Seq(FrameSet)
    <2>1. CASE u = <<>> BY <2>1
    <2>2. CASE u # <<>>
        <3>1. PICK h \in FrameSet : u = <<h>> BY <2>2
        <3>2. QED BY <3>1
    <2>3. QED BY <2>1, <2>2
<1>3. frames' \in Seq(FrameSet) BY <1>1, <1>2
<1>4. ASSUME NEW i \in DOMAIN frames'
      PROVE  \E f \in FrameSet : frames'[i] = f /\ FrameOK(f)' /\ Kept(f)'
    <2>1. CASE i \in DOMAIN frames
        <3>1. frames'[i] = frames[i] BY <1>1, <1>2, <2>1
        <3>2. FrameOK(frames[i]) /\ Kept(frames[i])
            <4>1. FrameOK(frames[i]) BY <2>1 DEF FramesInv
            <4>2. Kept(frames[i]) BY <2>1, KeptAll
            <4>3. QED BY <4>1, <4>2
        <3>3. PICK f \in FrameSet : f = frames[i] BY <1>1, <2>1
        <3>4. FrameOK(f)' /\ Kept(f)' BY <3>2, <3>3
        <3>5. QED BY <3>1, <3>3, <3>4
    <2>2. CASE i \notin DOMAIN frames
        <3>1. u # <<>>
            <4>1. SUFFICES ASSUME u = <<>> PROVE FALSE OBVIOUS
            <4>2. frames' = frames BY <1>1, <4>1
            <4>3. QED BY <2>2, <4>2
        <3>2. PICK h \in FrameSet : u = <<h>> /\ FrameOK(h)' /\ Kept(h)' BY <3>1
        <3>3. frames'[i] = h
            <4>1. frames' = Append(frames, h) BY <1>1, <3>2
            <4>2. i = Len(frames) + 1 BY <1>1, <2>2, <4>1
            <4>3. QED BY <1>1, <4>1, <4>2
        <3>4. QED BY <3>2, <3>3
    <2>3. QED BY <2>1, <2>2
<1>5. FramesInv'
    <2>1. ASSUME NEW i \in DOMAIN frames' PROVE FrameOK(frames[i])'
        <3>1. PICK f \in FrameSet : frames'[i] = f /\ FrameOK(f)' BY <1>4, <2>1
        <3>2. QED BY <3>1 DEF FrameOK
    <2>2. QED BY <1>3, <2>1 DEF FramesInv, FrameSet
<1>6. FramesNotOverwritten'
    <2>1. (FramesNotOverwritten <=> \A i \in DOMAIN frames : Kept(frames[i]))' BY KeptAll, PTL
    <2>2. ASSUME NEW i \in DOMAIN frames' PROVE Kept(frames[i])'
        <3>1. PICK f \in FrameSet : frames'[i] = f /\ Kept(f)' BY <1>4, <2>2
        <3>2. QED BY <3>1 DEF Kept
    <2>3. QED BY <2>1, <2>2
<1>7. QED BY <1>5, <1>6

-----------------------------------------------------------------------------
(* The invariant.                                                          *)

\* NewFrameReader's empty buffer is in order.
LEMMA InitIInv == Init => IInv
<1>1. SUFFICES ASSUME Init PROVE IInv OBVIOUS
<1>2. stream \in Seq(Nat) /\ MaxFrameSize \in Nat BY <1>1, FrameConstants DEF Init
<1>3. Len(stream) \in Nat BY <1>2
<1>4. BufferOK BY <1>1, <1>2, <1>3 DEF Init, BufferOK
<1>5. FramesInv /\ FramesNotOverwritten BY <1>1 DEF Init, FramesInv, FramesNotOverwritten
<1>6. stream \in Streams BY <1>1 DEF Init
<1>7. QED BY <1>4, <1>5, <1>6 DEF IInv

\* The numbers of BufferOK, and the cells, apart.
BufferNumbers ==
    /\ lo \in Nat /\ hi \in Nat /\ off \in Nat /\ arr \in Nat /\ cap \in Nat
    /\ 1 <= lo /\ lo <= hi /\ hi <= Len(stream) + 1 /\ off + (hi - lo) <= cap
    /\ Len(stream) \in Nat
BufferCells == mem \in [0 .. (cap - 1) -> Nat] /\ Holds(mem, off, lo, hi - lo - 1)

\* BufferOK consists of these two.
LEMMA BufferParts == stream \in Streams => (BufferOK <=> BufferNumbers /\ BufferCells)
<1>1. SUFFICES ASSUME stream \in Streams PROVE BufferOK <=> BufferNumbers /\ BufferCells OBVIOUS
<1>2. stream \in Seq(Nat) BY <1>1, FrameConstants
<1>3. Len(stream) \in Nat BY <1>2
<1>4. QED BY <1>3, Zenon DEF BufferOK, BufferNumbers, BufferCells, Holds

-----------------------------------------------------------------------------
(* Steps.                                                                  *)

\* Of a buffer a..b-1 held from cell c on, what an extraction leaves is held, inside
\* the array, and what it takes out is held before that.
LEMMA ExtractionHeld ==
    ASSUME NEW t, NEW a \in Nat, NEW b \in Nat, NEW c \in Nat, NEW cells,
           a <= b, Extraction(t, a, b, c), Holds(cells, c, a, b - a - 1)
    PROVE  /\ t.lo \in a .. b /\ t.off \in Nat /\ c <= t.off
           /\ t.off + (b - t.lo) <= c + (b - a)
           /\ Holds(cells, t.off, t.lo, b - t.lo - 1)
<1>1. t.lo \in a .. b /\ (t.off = c + (t.lo - a) \/ (t.lo = b /\ t.off = c))
    BY Zenon DEF Extraction
<1>2. CASE t.off = c + (t.lo - a)
    <2>0. t.lo - a \in Nat /\ t.lo = a + (t.lo - a) /\ t.off = c + (t.lo - a) BY <1>1, <1>2
    <2>1. PICK d \in Nat : t.lo = a + d /\ t.off = c + d BY <2>0
    <2>2. d + (b - t.lo - 1) <= b - a - 1 /\ b - t.lo - 1 \in Int /\ b - a - 1 \in Int
        BY <1>1, <2>1
    <2>3. Holds(cells, c + d, a + d, b - t.lo - 1) BY <2>2, HoldsPart
    <2>4. Holds(cells, t.off, t.lo, b - t.lo - 1) BY <2>1, <2>3
    <2>5. t.off \in Nat /\ c <= t.off /\ t.off + (b - t.lo) <= c + (b - a) BY <1>1, <2>1
    <2>6. QED BY <1>1, <2>4, <2>5
<1>3. CASE t.lo = b /\ t.off = c
    <2>1. Holds(cells, t.off, t.lo, b - t.lo - 1) BY <1>3 DEF Holds
    <2>2. t.off + (b - t.lo) <= c + (b - a) BY <1>3
    <2>3. QED BY <1>1, <1>3, <2>1, <2>2
<1>4. QED BY <1>1, <1>2, <1>3

\* The frame taken out is held, before the rest of the buffer.
LEMMA ExtractedHeld ==
    ASSUME NEW t, NEW a \in Nat, NEW b \in Nat, NEW c \in Nat, NEW cells, NEW f \in FrameSet,
           t.lo \in a .. b, Extracted(f, t, a, c), Holds(cells, c, a, b - a - 1)
    PROVE  /\ a <= f.first /\ f.first <= f.last /\ f.last < t.lo
           /\ f.cell + (f.last - f.first) < t.off
           /\ Holds(cells, f.cell, f.first, f.last - f.first)
<1>1. /\ a <= f.first /\ f.first <= f.last /\ f.last < t.lo
      /\ f.cell = c + (f.first - a) /\ t.off = c + (t.lo - a)
    BY DEF Extracted
<1>2. f.first \in Nat /\ f.last \in Nat BY DEF FrameSet
<1>3. PICK d \in Nat : f.first = a + d /\ f.cell = c + d BY <1>1, <1>2
<1>4. d + (f.last - f.first) <= b - a - 1 /\ f.last - f.first \in Int /\ b - a - 1 \in Int
    BY <1>1, <1>2, <1>3
<1>5. Holds(cells, c + d, a + d, f.last - f.first) BY <1>4, HoldsPart
<1>6. Holds(cells, f.cell, f.first, f.last - f.first) BY <1>3, <1>5
<1>7. f.cell + (f.last - f.first) < t.off BY <1>1, <1>2
<1>8. QED BY <1>1, <1>6, <1>7

\* The old frames stay in order if the buffer only moves forwards and the cells before
\* it keep their contents, or it moves to a new array.
LEMMA FramesStay ==
    ASSUME BufferNumbers, lo' \in Nat, off' \in Nat, arr' \in Nat, lo <= lo',
           \/ arr' = arr /\ off <= off' /\ \A k \in 0 .. (off - 1) : mem'[k] = mem[k]
           \/ arr' = arr + 1,
           NEW f \in FrameSet, FrameOK(f), Kept(f)
    PROVE  FrameOK(f)' /\ Kept(f)'
<1>1. /\ f.first \in Nat /\ f.last \in Nat /\ f.arr \in Nat /\ f.cell \in Nat
      /\ 1 <= f.first /\ f.first <= f.last /\ f.last < lo /\ f.arr <= arr
      /\ f.arr = arr => f.cell + (f.last - f.first) < off
    BY DEF FrameOK
<1>2. lo \in Nat /\ off \in Nat /\ arr \in Nat BY DEF BufferNumbers
<1>3. f.last < lo' BY <1>1, <1>2
<1>4. CASE arr' = arr /\ off <= off' /\ \A k \in 0 .. (off - 1) : mem'[k] = mem[k]
    <2>1. arr' = arr /\ off <= off' BY <1>4
    <2>2. f.arr = arr' => f.cell + (f.last - f.first) < off' BY <1>1, <1>2, <2>1
    <2>3. FrameOK(f)' BY <1>1, <1>3, <2>1, <2>2 DEF FrameOK
    <2>4. ASSUME f.arr = arr' PROVE Holds(mem', f.cell, f.first, f.last - f.first)
        <3>1. Holds(mem, f.cell, f.first, f.last - f.first) BY <2>1, <2>4 DEF Kept
        <3>2. ASSUME NEW k \in 0 .. (f.last - f.first) PROVE mem'[f.cell + k] = f.first + k
            <4>1. f.cell + k \in 0 .. (off - 1) BY <1>1, <1>2, <2>1, <2>4
            <4>2. mem'[f.cell + k] = mem[f.cell + k] BY <1>4, <4>1
            <4>3. QED BY <3>1, <4>2 DEF Holds
        <3>3. QED BY <3>2 DEF Holds
    <2>5. QED BY <2>3, <2>4 DEF Kept
<1>5. CASE arr' = arr + 1
    <2>1. f.arr # arr' /\ f.arr <= arr' BY <1>1, <1>2, <1>5
    <2>2. FrameOK(f)' BY <1>1, <1>3, <2>1 DEF FrameOK
    <2>3. QED BY <2>1, <2>2 DEF Kept
<1>6. QED BY <1>4, <1>5

\* Returning a frame keeps everything in order: the frame was held by the buffer.
LEMMA ReturnFrameIInv == IInv /\ ReturnFrame => IInv'
<1>1. SUFFICES ASSUME IInv, ReturnFrame PROVE IInv' OBVIOUS
<1> DEFINE t == TryExtractFrame(lo, hi, off)
<1>2. /\ t.found # <<>> /\ frames' = frames \o t.found /\ lo' = t.lo /\ off' = t.off
      /\ stream' = stream /\ hi' = hi /\ arr' = arr /\ cap' = cap /\ mem' = mem
    BY <1>1 DEF ReturnFrame
<1>3. stream \in Streams /\ BufferNumbers /\ BufferCells BY <1>1, BufferParts DEF IInv
<1>4. /\ lo \in Nat /\ hi \in Nat /\ off \in Nat /\ arr \in Nat /\ cap \in Nat
      /\ 1 <= lo /\ lo <= hi /\ hi <= Len(stream) + 1 /\ off + (hi - lo) <= cap
    BY <1>3 DEF BufferNumbers
<1>5. Holds(mem, off, lo, hi - lo - 1) BY <1>3 DEF BufferCells
<1>6. Extraction(t, lo, hi, off) BY <1>4, ExtractFrame
<1> HIDE DEF t
<1>7. /\ t.lo \in lo .. hi /\ t.off \in Nat /\ off <= t.off
      /\ t.off + (hi - t.lo) <= off + (hi - lo)
      /\ Holds(mem, t.off, t.lo, hi - t.lo - 1)
    BY <1>4, <1>5, <1>6, ExtractionHeld
<1>8. PICK g \in FrameSet : Extracted(g, t, lo, off) BY <1>2, <1>6 DEF Extraction
<1>9. /\ lo <= g.first /\ g.first <= g.last /\ g.last < t.lo
      /\ g.cell + (g.last - g.first) < t.off
      /\ Holds(mem, g.cell, g.first, g.last - g.first)
    BY <1>4, <1>5, <1>7, <1>8, ExtractedHeld
<1>10. t.found = <<g>> /\ g.arr = arr BY <1>8 DEF Extracted
<1>11. stream' \in Streams BY <1>2, <1>3
<1>12. BufferOK'
    <2>1. BufferNumbers' BY <1>2, <1>3, <1>4, <1>7 DEF BufferNumbers
    <2>2. BufferCells' BY <1>2, <1>3, <1>7 DEF BufferCells
    <2>3. (stream \in Streams => (BufferOK <=> BufferNumbers /\ BufferCells))'
        BY BufferParts, PTL
    <2>4. QED BY <1>11, <2>1, <2>2, <2>3
<1>13. FramesInv' /\ FramesNotOverwritten'
    <2>1. FramesInv /\ FramesNotOverwritten BY <1>1 DEF IInv
    <2>2. ASSUME NEW f \in FrameSet PROVE FrameOK(f) /\ Kept(f) => FrameOK(f)' /\ Kept(f)'
        <3>1. \/ arr' = arr /\ off <= off' /\ \A k \in 0 .. (off - 1) : mem'[k] = mem[k]
              \/ arr' = arr + 1
            BY <1>2, <1>7
        <3>2. lo' \in Nat /\ off' \in Nat /\ arr' \in Nat /\ lo <= lo' BY <1>2, <1>4, <1>7
        <3>3. QED BY <1>3, <3>1, <3>2, FramesStay
    <2>3. FrameOK(g)'
        <3>1. g.first \in Nat /\ g.last \in Nat /\ g.arr \in Nat /\ g.cell \in Nat
            BY DEF FrameSet
        <3>2. QED BY <1>2, <1>4, <1>7, <1>9, <1>10, <3>1 DEF FrameOK
    <2>4. Kept(g)' BY <1>2, <1>9 DEF Kept
    <2>5. \E h \in FrameSet : t.found = <<h>> /\ FrameOK(h)' /\ Kept(h)' BY <1>10, <2>3, <2>4
    <2>6. frames' = frames \o t.found BY <1>2
    <2>7. QED BY <2>1, <2>2, <2>5, <2>6, FramesExtended
<1>14. QED BY <1>11, <1>12, <1>13 DEF IInv

\* A non-negative number's half.
LEMMA Half == ASSUME NEW x \in Nat PROVE x \div 2 \in 0 .. x
OBVIOUS

\* [i \in DOMAIN u |-> ...] on a sequence of at most one element.
LEMMA Renumbered ==
    ASSUME NEW u, NEW v \in Nat, u = <<>> \/ \E g \in FrameSet : u = <<g>>
    PROVE  LET w == [i \in DOMAIN u |-> [u[i] EXCEPT !.arr = v]]
           IN /\ u = <<>> => w = <<>>
              /\ \A g \in FrameSet : u = <<g>> => w = <<[g EXCEPT !.arr = v]>>
<1> DEFINE w == [i \in DOMAIN u |-> [u[i] EXCEPT !.arr = v]]
<1>1. ASSUME u = <<>> PROVE w = <<>> BY <1>1
<1>2. ASSUME NEW g \in FrameSet, u = <<g>> PROVE w = <<[g EXCEPT !.arr = v]>>
    <2>1. DOMAIN u = 1 .. 1 /\ u[1] = g BY <1>2
    <2>2. w = [i \in 1 .. 1 |-> [g EXCEPT !.arr = v]] BY <2>1
    <2>3. QED BY <2>2
<1>3. QED BY <1>1, <1>2

\* The frame taken from the refilled buffer, of the array the buffer is in now.
Refilled(h, t) ==
    /\ t.found # <<>>
    /\ h.arr = arr'
    /\ 1 <= h.first /\ h.first <= h.last /\ h.last < t.lo
    /\ h.cell + (h.last - h.first) < t.off
    /\ Holds(mem', h.cell, h.first, h.last - h.first)

\* What the second attempt takes out of the refilled buffer is such a frame.
LEMMA RefilledFrame ==
    ASSUME NEW t, NEW a \in Nat, NEW b \in Nat, NEW c \in Nat, 1 <= a, arr' \in Nat,
           t.lo \in a .. b, Extraction(t, a, b, c), Holds(mem', c, a, b - a - 1)
    PROVE  LET w == [i \in DOMAIN t.found |-> [t.found[i] EXCEPT !.arr = arr']]
           IN w = <<>> \/ \E h \in FrameSet : w = <<h>> /\ Refilled(h, t)
<1> DEFINE w == [i \in DOMAIN t.found |-> [t.found[i] EXCEPT !.arr = arr']]
<1>1. t.found = <<>> \/ \E f \in FrameSet : Extracted(f, t, a, c) BY Zenon DEF Extraction
<1>2. CASE t.found = <<>> BY <1>2
<1>3. ASSUME NEW g \in FrameSet, Extracted(g, t, a, c)
      PROVE  \E h \in FrameSet : w = <<h>> /\ Refilled(h, t)
    <2> DEFINE h == [g EXCEPT !.arr = arr']
    <2>1. t.found = <<g>> BY <1>3 DEF Extracted
    <2>2. w = <<h>>
        <3>1. PICK v \in Nat : v = arr' OBVIOUS
        <3>2. PICK u : u = t.found OBVIOUS
        <3>3. [i \in DOMAIN u |-> [u[i] EXCEPT !.arr = v]] = <<[g EXCEPT !.arr = v]>>
            BY <2>1, <3>2, Renumbered
        <3>4. QED BY <3>1, <3>2, <3>3
    <2>3. h \in FrameSet /\ h.arr = arr' /\ h.first = g.first /\ h.last = g.last
          /\ h.cell = g.cell
        BY DEF FrameSet
    <2>4. /\ a <= g.first /\ g.first <= g.last /\ g.last < t.lo
          /\ g.cell + (g.last - g.first) < t.off
          /\ Holds(mem', g.cell, g.first, g.last - g.first)
        BY <1>3, ExtractedHeld
    <2>5. g.first \in Nat BY DEF FrameSet
    <2>6. t.found # <<>> BY <2>1
    <2> HIDE DEF w, h
    <2>7. Refilled(h, t) BY <2>3, <2>4, <2>5, <2>6 DEF Refilled
    <2>8. QED BY <2>2, <2>3, <2>7
<1>4. QED BY <1>1, <1>2, <1>3

\* Reading more keeps everything in order: append writes behind the frames of the
\* array, or moves the buffer to another one.
LEMMA ReadMoreIInv ==
    ASSUME NEW n \in 0 .. ReadSize, NEW e \in {"none", "EOF", "EIO"}
    PROVE  IInv /\ ReadMore(n, e) => IInv'
<1>1. SUFFICES ASSUME IInv, ReadMore(n, e) PROVE IInv' OBVIOUS
<1> DEFINE t    == TryExtractFrame(lo, hi, off)
           c    == IF t.off + hi + n - t.lo <= cap THEN t.off ELSE 0
           size == hi + n - t.lo
           half == IF n > 0 /\ size > 4 * MaxFrameSize THEN size \div 2 ELSE 0
           last == IF e = "EOF" /\ size - half > 0
                   THEN TryExtractFrame(t.lo + half, hi + n, c + half)
                   ELSE [found |-> <<>>, lo |-> t.lo + half, off |-> c + half]
           w    == [i \in DOMAIN last.found |-> [last.found[i] EXCEPT !.arr = arr']]
\* The parts of the step.
<1>2. /\ hi + n <= Len(stream) + 1 /\ AppendBytes(t.lo, t.off, n)
      /\ hi' = hi + n /\ frames' = frames \o w /\ lo' = last.lo /\ off' = last.off
      /\ stream' = stream
    BY <1>1 DEF ReadMore
<1>3. stream \in Streams /\ BufferNumbers /\ BufferCells BY <1>1, BufferParts DEF IInv
<1>4. /\ lo \in Nat /\ hi \in Nat /\ off \in Nat /\ arr \in Nat /\ cap \in Nat
      /\ 1 <= lo /\ lo <= hi /\ off + (hi - lo) <= cap /\ Len(stream) \in Nat
    BY <1>3 DEF BufferNumbers
<1>5. mem \in [0 .. (cap - 1) -> Nat] /\ Holds(mem, off, lo, hi - lo - 1)
    BY <1>3 DEF BufferCells
<1>6. n \in Nat
    <2>1. ReadSize \in Nat BY FrameConstants
    <2>2. QED BY <2>1
\* What the first attempt leaves.
<1>7. Extraction(t, lo, hi, off) BY <1>4, ExtractFrame
<1>8. /\ t.lo \in lo .. hi /\ t.off \in Nat /\ off <= t.off
      /\ Holds(mem, t.off, t.lo, hi - t.lo - 1)
    <2> HIDE DEF t
    <2>1. QED BY <1>4, <1>5, <1>7, ExtractionHeld
\* The refilled buffer.
<1>9. PICK a \in Nat, need \in Nat : a = t.lo /\ need = size
    <2>1. t.lo \in Nat /\ size \in Nat
        <3> HIDE DEF t
        <3>1. QED BY <1>4, <1>6, <1>8
    <2>2. QED BY <2>1
<1>10. lo <= a /\ a <= hi /\ hi <= a + need /\ need = hi + n - a /\ a + need = hi + n
    <2> HIDE DEF t
    <2>1. QED BY <1>4, <1>6, <1>8, <1>9
<1>11. PICK o \in Nat, d \in Nat : o = t.off /\ d = c BY <1>8
<1>12. d = IF o + need <= cap THEN o ELSE 0
    <2>1. d = IF o + hi + n - a <= cap THEN o ELSE 0 BY <1>9, <1>11
    <2>2. o + hi + n - a = o + need BY <1>4, <1>6, <1>10
    <2>3. QED BY <2>1, <2>2
<1>13. half \in 0 .. need
    <2>1. need \div 2 \in 0 .. need BY Half
    <2>2. half = need \div 2 \/ half = 0 BY <1>9
    <2>3. QED BY <2>1, <2>2
<1>14. PICK x \in Nat, y \in Nat, v \in Nat, z \in Nat :
          v = half /\ x = a + v /\ y = d + v /\ z = need - v
    <2>1. half \in Nat /\ need - half \in Nat
        <3> HIDE DEF half
        <3>1. QED BY <1>13
    <2> HIDE DEF half
    <2>2. a + half \in Nat /\ d + half \in Nat BY <2>1
    <2>3. QED BY <2>1, <2>2
<1>15. PICK l : l = last OBVIOUS
<1>16. l = IF e = "EOF" /\ size - half > 0 THEN TryExtractFrame(x, hi + n, y)
           ELSE [found |-> <<>>, lo |-> x, off |-> y]
    BY <1>9, <1>11, <1>14, <1>15
<1>17. frames' = frames \o [i \in DOMAIN l.found |-> [l.found[i] EXCEPT !.arr = arr']]
    BY <1>2, <1>15
<1>18. AppendBytes(a, o, n) /\ Holds(mem, o, a, hi - a - 1) /\ off <= o
    BY <1>2, <1>8, <1>9, <1>11
<1>19. lo' = l.lo /\ off' = l.off BY <1>2, <1>15
<1> HIDE DEF t, c, size, half, last, w
<1>20. AppendResult(a, o, d, need)
    <2>1. AppendInput(a, o, d, need) BY <1>4, <1>5, <1>10, <1>12, <1>18 DEF AppendInput
    <2>2. QED BY <1>6, <1>10, <1>18, <2>1, Appended
<1>21. /\ arr' \in Nat /\ cap' \in Nat /\ mem' \in [0 .. (cap' - 1) -> Nat]
       /\ d + need <= cap' /\ Holds(mem', d, a, need - 1)
    BY <1>20 DEF AppendResult
<1>22. PICK b \in Nat : b = hi + n /\ 1 <= x /\ x <= b /\ z = b - x /\ v + z = need
    BY <1>4, <1>6, <1>10, <1>14
<1>23. Holds(mem', y, x, b - x - 1)
    <2>1. v + (b - x - 1) <= need - 1 /\ b - x - 1 \in Int /\ need - 1 \in Int
        BY <1>22
    <2>2. Holds(mem', d + v, a + v, b - x - 1) BY <1>21, <2>1, HoldsPart
    <2>3. QED BY <1>14, <2>2
\* The second attempt, and what it leaves.
<1>24. Extraction(l, x, b, y)
    <2>1. CASE e = "EOF" /\ size - half > 0
        <3>1. l = TryExtractFrame(x, b, y) BY <1>16, <1>22, <2>1
        <3>2. QED BY <1>4, <1>22, <3>1, ExtractFrame
    <2>2. CASE ~(e = "EOF" /\ size - half > 0)
        <3>1. l = [found |-> <<>>, lo |-> x, off |-> y] BY <1>16, <2>2
        <3>2. l.found = <<>> /\ l.lo \in x .. b /\ l.off = y + (l.lo - x) BY <1>22, <3>1
        <3>3. QED BY <3>2, ExtractionNone
    <2>3. QED BY <2>1, <2>2
<1>25. /\ l.lo \in x .. b /\ l.off \in Nat /\ y <= l.off
       /\ l.off + (b - l.lo) <= y + (b - x)
       /\ Holds(mem', l.off, l.lo, b - l.lo - 1)
    BY <1>22, <1>23, <1>24, ExtractionHeld
<1>26. stream' \in Streams BY <1>2, <1>3
<1>27. BufferOK'
    <2>1. y + (b - x) <= cap' BY <1>14, <1>21, <1>22
    <2>2. l.off + (b - l.lo) <= cap'
        <3>1. l.off + (b - l.lo) <= y + (b - x) /\ l.off \in Nat /\ l.lo \in Nat BY <1>25
        <3>2. cap' \in Nat BY <1>21
        <3>3. QED BY <2>1, <3>1, <3>2
    <2>3. lo' \in Nat /\ 1 <= lo' /\ lo' <= b BY <1>19, <1>22, <1>25
    <2>4. hi' = b /\ b <= Len(stream') + 1 /\ Len(stream') \in Nat BY <1>2, <1>4, <1>22
    <2>5. BufferNumbers' BY <1>19, <1>21, <1>25, <2>2, <2>3, <2>4 DEF BufferNumbers
    <2>6. Holds(mem', off', lo', hi' - lo' - 1) BY <1>19, <1>25, <2>4
    <2>7. BufferCells' BY <1>21, <2>6 DEF BufferCells
    <2>8. (stream \in Streams => (BufferOK <=> BufferNumbers /\ BufferCells))'
        BY BufferParts, PTL
    <2>9. QED BY <1>26, <2>5, <2>7, <2>8
\* The frames.
<1>28. PICK u : u = [i \in DOMAIN l.found |-> [l.found[i] EXCEPT !.arr = arr']] OBVIOUS
<1>29. u = <<>> \/ \E h \in FrameSet : u = <<h>> /\ Refilled(h, l)
    <2>1. LET q == [i \in DOMAIN l.found |-> [l.found[i] EXCEPT !.arr = arr']]
          IN q = <<>> \/ \E h \in FrameSet : q = <<h>> /\ Refilled(h, l)
        BY <1>21, <1>22, <1>23, <1>24, <1>25, RefilledFrame
    <2>2. QED BY <1>28, <2>1
<1>30. ASSUME NEW h \in FrameSet, Refilled(h, l) PROVE FrameOK(h)' /\ Kept(h)'
    <2>1. h.first \in Nat /\ h.last \in Nat /\ h.arr \in Nat /\ h.cell \in Nat BY DEF FrameSet
    <2>2. /\ h.arr = arr' /\ 1 <= h.first /\ h.first <= h.last /\ h.last < lo'
          /\ h.cell + (h.last - h.first) < off'
          /\ Holds(mem', h.cell, h.first, h.last - h.first)
        BY <1>19, <1>30 DEF Refilled
    <2>3. h.arr <= arr' BY <1>21, <2>2
    <2>4. FrameOK(h)' BY <2>1, <2>2, <2>3 DEF FrameOK
    <2>5. Kept(h)' BY <2>2 DEF Kept
    <2>6. QED BY <2>4, <2>5
<1>31. ASSUME NEW f \in FrameSet PROVE FrameOK(f) /\ Kept(f) => FrameOK(f)' /\ Kept(f)'
    <2>1. lo' \in Nat /\ off' \in Nat /\ arr' \in Nat /\ lo <= lo'
        BY <1>4, <1>10, <1>14, <1>19, <1>21, <1>22, <1>25
    <2>2. \/ arr' = arr /\ d = o /\ \A k \in 0 .. (o - 1) : mem'[k] = mem[k]
          \/ arr' = arr + 1
        BY <1>20 DEF AppendResult
    <2>3. CASE arr' = arr /\ d = o /\ \A k \in 0 .. (o - 1) : mem'[k] = mem[k]
        <3>1. off <= off' BY <1>4, <1>14, <1>18, <1>19, <1>25, <2>3
        <3>2. \A k \in 0 .. (off - 1) : k \in 0 .. (o - 1) BY <1>4, <1>18
        <3>3. \A k \in 0 .. (off - 1) : mem'[k] = mem[k] BY <2>3, <3>2
        <3>4. QED BY <1>3, <2>1, <2>3, <3>1, <3>3, FramesStay
    <2>4. CASE arr' = arr + 1 BY <1>3, <2>1, <2>4, FramesStay
    <2>5. QED BY <2>2, <2>3, <2>4
<1>32. FramesInv' /\ FramesNotOverwritten'
    <2>1. FramesInv /\ FramesNotOverwritten BY <1>1 DEF IInv
    <2>2. frames' = frames \o u BY <1>17, <1>28
    <2>3. u = <<>> \/ \E h \in FrameSet : u = <<h>> /\ FrameOK(h)' /\ Kept(h)'
        BY <1>29, <1>30
    <2>4. QED BY <1>31, <2>1, <2>2, <2>3, FramesExtended
<1>33. QED BY <1>26, <1>27, <1>32 DEF IInv

-----------------------------------------------------------------------------
(* Theorems.                                                               *)

\* A step that changes nothing keeps the invariant.
LEMMA StutterIInv == IInv /\ UNCHANGED vars => IInv'
<1>1. SUFFICES ASSUME IInv, UNCHANGED vars PROVE IInv' OBVIOUS
<1>2. /\ stream' = stream /\ lo' = lo /\ hi' = hi /\ off' = off /\ arr' = arr
      /\ cap' = cap /\ mem' = mem /\ frames' = frames
    BY <1>1 DEF vars
<1>3. QED BY <1>1, <1>2 DEF IInv, BufferOK, FramesInv, FrameOK, FramesNotOverwritten

\* At all times the buffer's cells hold the bytes it should hold, and the frames
\* returned from its array lie before it and are intact (IInv).
THEOREM FrameInvariance == Spec => []IInv
<1>1. IInv /\ [Next]_vars => IInv'
    <2>1. SUFFICES ASSUME IInv, [Next]_vars PROVE IInv' OBVIOUS
    <2>2. CASE ReturnFrame BY <2>1, <2>2, ReturnFrameIInv
    <2>3. ASSUME NEW n \in 0 .. ReadSize, NEW e \in {"none", "EOF", "EIO"}, ReadMore(n, e)
          PROVE  IInv'
        BY <2>1, <2>3, ReadMoreIInv
    <2>4. CASE UNCHANGED vars BY <2>1, <2>4, StutterIInv
    <2>5. QED BY <2>1, <2>2, <2>3, <2>4 DEF Next
<1>2. QED BY <1>1, InitIInv, PTL DEF Spec

\* A frame that ReadNextFrame has returned still holds its bytes after any number of
\* later reads, whatever the stream, the sizes and the capacities append chooses.
THEOREM FramesKept == Spec => []FramesNotOverwritten
<1>1. IInv => FramesNotOverwritten BY DEF IInv
<1>2. QED BY <1>1, FrameInvariance, PTL

-----------------------------------------------------------------------------
(* The byte-by-byte scan.                                                  *)

\* Counting from a to b stays in a set that each number leads to the next.
LEMMA UpTo ==
    ASSUME NEW S, NEW a \in Nat, NEW b \in Nat, a \in S,
           \A k \in a .. b : k < b /\ k \in S => k + 1 \in S
    PROVE  a .. b \subseteq S
<1> SUFFICES ASSUME (a .. b) \ S # {} PROVE FALSE OBVIOUS
<1>1. (a .. b) \ S \in SUBSET Nat OBVIOUS
<1>2. PICK m \in (a .. b) \ S : \A k \in (a .. b) \ S : m <= k BY <1>1, NatMin
<1>3. m \in Nat /\ a < m /\ m <= b
    <2>1. m # a OBVIOUS
    <2>2. QED BY <2>1
<1>4. m - 1 \in a .. b /\ m - 1 < m /\ m - 1 < b BY <1>3
<1>5. m - 1 \in S BY <1>2, <1>3, <1>4
<1>6. (m - 1) + 1 \in S BY <1>4, <1>5
<1>7. (m - 1) + 1 = m BY <1>3
<1>8. QED BY <1>6, <1>7

\* f is what the recursive definition of Scan asks for.
IsScan(f) ==
    f = [p \in 0 .. Len(stream) |-> IF p = 0 THEN ScanStart ELSE ScanByte(f[p - 1], p)]

\* The recursion has a solution, byte after byte.
LEMMA ScanExists ==
    ASSUME stream \in Streams
    PROVE  IsScan(Scan)
<1> DEFINE L == Len(stream)
           Solved(n) == \E g : g = [p \in 0 .. n |->
                                      IF p = 0 THEN ScanStart ELSE ScanByte(g[p - 1], p)]
           S == {n \in 0 .. L : Solved(n)}
<1>1. L \in Nat
    <2>1. stream \in Seq(Nat) BY FrameConstants
    <2>2. QED BY <2>1
<1> HIDE DEF L
<1>2. 0 \in S
    <2> DEFINE g == [p \in 0 .. 0 |-> ScanStart]
    <2>1. g = [p \in 0 .. 0 |-> IF p = 0 THEN ScanStart ELSE ScanByte(g[p - 1], p)]
        <3>1. \A p \in 0 .. 0 : p = 0 OBVIOUS
        <3>2. QED BY <3>1
    <2>2. Solved(0) BY <2>1
    <2>3. QED BY <1>1, <2>2
<1>3. ASSUME NEW n \in 0 .. L, n < L, n \in S PROVE n + 1 \in S
    <2>1. PICK g : g = [p \in 0 .. n |->
                          IF p = 0 THEN ScanStart ELSE ScanByte(g[p - 1], p)]
        BY <1>3
    <2> DEFINE h == [p \in 0 .. (n + 1) |-> IF p = n + 1 THEN ScanByte(g[n], n + 1) ELSE g[p]]
               k == [p \in 0 .. (n + 1) |-> IF p = 0 THEN ScanStart ELSE ScanByte(h[p - 1], p)]
    <2>2. n \in Nat BY <1>1
    <2>3. ASSUME NEW p \in 0 .. (n + 1) PROVE h[p] = k[p]
        <3>1. CASE p = n + 1
            <4>1. p # 0 /\ p - 1 = n /\ n \in 0 .. (n + 1) /\ n # n + 1 BY <2>2, <3>1
            <4>2. h[n] = g[n] BY <4>1
            <4>3. k[p] = ScanByte(h[n], n + 1) BY <3>1, <4>1
            <4>4. QED BY <3>1, <4>2, <4>3
        <3>2. CASE p = 0
            <4>1. 0 \in 0 .. n /\ 0 # n + 1 BY <2>2
            <4>2. h[p] = g[0] /\ g[0] = ScanStart BY <2>1, <3>2, <4>1
            <4>3. QED BY <3>2, <4>2
        <3>3. CASE p # n + 1 /\ p # 0
            <4>1. p \in 0 .. n /\ p - 1 \in 0 .. n /\ p - 1 \in 0 .. (n + 1) /\ p - 1 # n + 1
                BY <2>2, <3>3
            <4>2. h[p] = g[p] /\ h[p - 1] = g[p - 1] BY <3>3, <4>1
            <4>3. g[p] = ScanByte(g[p - 1], p) BY <2>1, <3>3, <4>1
            <4>4. k[p] = ScanByte(h[p - 1], p) BY <3>3
            <4>5. QED BY <4>2, <4>3, <4>4
        <3>4. QED BY <3>1, <3>2, <3>3
    <2>4. h = k BY <2>3
    <2>5. Solved(n + 1) BY <2>4
    <2>6. n + 1 \in 0 .. L BY <1>1, <1>3, <2>2
    <2> HIDE DEF Solved
    <2>7. QED BY <2>5, <2>6
<1>4. 0 .. L \subseteq S
    <2> HIDE DEF S
    <2>1. QED BY <1>1, <1>2, <1>3, UpTo
<1>5. Solved(L) BY <1>1, <1>4
<1>6. \E f : IsScan(f) BY <1>5 DEF IsScan, L
<1>7. QED BY <1>6 DEF Scan, IsScan

\* Where it begins, and how it goes on.
LEMMA ScanSteps ==
    ASSUME stream \in Streams, NEW f, IsScan(f)
    PROVE  /\ Len(stream) \in Nat
           /\ f[0] = ScanStart
           /\ \A p \in 1 .. Len(stream) : f[p] = ScanByte(f[p - 1], p)
<1>1. Len(stream) \in Nat
    <2>1. stream \in Seq(Nat) BY FrameConstants
    <2>2. QED BY <2>1
<1>2. f[0] = ScanStart BY <1>1 DEF IsScan
<1>3. ASSUME NEW p \in 1 .. Len(stream) PROVE f[p] = ScanByte(f[p - 1], p)
    <2>1. p \in 0 .. Len(stream) /\ p # 0 BY <1>1
    <2>2. QED BY <2>1 DEF IsScan
<1>4. QED BY <1>1, <1>2, <1>3

\* Bytes a+1..b do nothing to what has been seen.
Quiet(s, a, b) == \A p \in (a + 1) .. b : ScanByte(s, p) = s

\* Bytes that do nothing leave the result of the scan as it is.
LEMMA ScanQuiet ==
    ASSUME stream \in Streams, NEW f, IsScan(f), NEW a \in Nat, NEW b \in Nat,
           a <= b, b <= Len(stream), NEW s, f[a] = s,
           Quiet(s, a, b)
    PROVE  f[b] = s
<1> DEFINE S == {p \in a .. b : f[p] = s}
<1>1. a \in S OBVIOUS
<1>2. ASSUME NEW k \in a .. b, k < b, k \in S PROVE k + 1 \in S
    <2>1. k + 1 \in 1 .. Len(stream) /\ (k + 1) - 1 = k /\ k + 1 \in (a + 1) .. b
        BY <1>2, ScanSteps
    <2>2. f[k + 1] = ScanByte(f[k], k + 1) BY <2>1, ScanSteps
    <2>3. f[k] = s BY <1>2
    <2>4. ScanByte(s, k + 1) = s BY <2>1 DEF Quiet
    <2>5. QED BY <2>1, <2>2, <2>3, <2>4
<1>3. a .. b \subseteq S
    <2> HIDE DEF S
    <2>1. QED BY <1>1, <1>2, UpTo
<1>4. QED BY <1>3

\* What one byte does.
LEMMA ScanByteIs ==
    ASSUME NEW s, NEW p
    PROVE  /\ mode = "newline" /\ stream[p] = NL =>
                ScanByte(s, p) = <<p + 1, Append(s[2], <<s[1], p>>)>>
           /\ mode = "newline" /\ stream[p] # NL => ScanByte(s, p) = s
           /\ mode = "sync" /\ s[1] = 0 /\ stream[p] = SOF => ScanByte(s, p) = <<p, s[2]>>
           /\ mode = "sync" /\ s[1] = 0 /\ stream[p] # SOF => ScanByte(s, p) = s
           /\ mode = "sync" /\ s[1] # 0 /\ stream[p] = EOF =>
                ScanByte(s, p) = <<0, Append(s[2], <<s[1], p>>)>>
           /\ mode = "sync" /\ s[1] # 0 /\ stream[p] # EOF => ScanByte(s, p) = s
           /\ mode \notin {"newline", "sync"} => ScanByte(s, p) = s
<1>1. ASSUME mode = "newline", stream[p] = NL
      PROVE  ScanByte(s, p) = <<p + 1, Append(s[2], <<s[1], p>>)>>
    BY <1>1 DEF ScanByte
<1>2. ASSUME mode = "newline", stream[p] # NL PROVE ScanByte(s, p) = s
    BY <1>2 DEF ScanByte
<1>3. ASSUME mode = "sync", s[1] = 0, stream[p] = SOF PROVE ScanByte(s, p) = <<p, s[2]>>
    BY <1>3 DEF ScanByte
<1>4. ASSUME mode = "sync", s[1] = 0, stream[p] # SOF PROVE ScanByte(s, p) = s
    BY <1>4 DEF ScanByte
<1>5. ASSUME mode = "sync", s[1] # 0, stream[p] = EOF
      PROVE  ScanByte(s, p) = <<0, Append(s[2], <<s[1], p>>)>>
    BY <1>5 DEF ScanByte
<1>6. ASSUME mode = "sync", s[1] # 0, stream[p] # EOF PROVE ScanByte(s, p) = s
    BY <1>6 DEF ScanByte
<1>7. ASSUME mode \notin {"newline", "sync"} PROVE ScanByte(s, p) = s
    BY <1>7 DEF ScanByte
<1>8. QED BY <1>1, <1>2, <1>3, <1>4, <1>5, <1>6, <1>7

Marks == Seq(Nat \X Nat)

\* Its frames are added at the end, none is taken back.
LEMMA ScanByteGrows ==
    ASSUME NEW start \in Nat, NEW out \in Marks, NEW p \in Nat
    PROVE  \E next \in Nat : \/ ScanByte(<<start, out>>, p) = <<next, out>>
                             \/ ScanByte(<<start, out>>, p) = <<next, Append(out, <<start, p>>)>>
<1> DEFINE s == <<start, out>>
<1>1. s[1] = start /\ s[2] = out OBVIOUS
<1>2. CASE ScanByte(s, p) = s BY <1>2
<1>3. CASE ScanByte(s, p) = <<p + 1, Append(out, <<start, p>>)>>
    <2>1. p + 1 \in Nat OBVIOUS
    <2>2. QED BY <1>3, <2>1
<1>4. CASE ScanByte(s, p) = <<p, out>> BY <1>4
<1>5. CASE ScanByte(s, p) = <<0, Append(out, <<start, p>>)>> BY <1>5
<1>6. ScanByte(s, p) \in {s, <<p + 1, Append(out, <<start, p>>)>>, <<p, out>>,
                          <<0, Append(out, <<start, p>>)>>}
    <2> HIDE DEF s
    <2>1. QED BY <1>1, ScanByteIs
<1>7. QED BY <1>2, <1>3, <1>4, <1>5, <1>6

\* The scan of a part of the stream finds the first frames of the whole.
LEMMA ScanGrows ==
    ASSUME stream \in Streams, NEW f, IsScan(f), NEW a \in Nat, a <= Len(stream)
    PROVE  IsPrefix(f[a][2], f[Len(stream)][2])
<1> DEFINE b == Len(stream)
           S == {p \in 0 .. b : f[p] \in Nat \X Marks}
           A == f[a][2]
           T == {p \in a .. b : /\ Len(A) <= Len(f[p][2])
                                /\ \A i \in 1 .. Len(A) : f[p][2][i] = A[i]}
<1>1. b \in Nat /\ f[0] = ScanStart /\ \A p \in 1 .. b : f[p] = ScanByte(f[p - 1], p)
    BY ScanSteps
<1> HIDE DEF b
<1>2. ASSUME NEW k \in Nat, k < b, f[k] \in Nat \X Marks
      PROVE  /\ f[k + 1] \in Nat \X Marks
             /\ Len(f[k][2]) <= Len(f[k + 1][2])
             /\ \A i \in 1 .. Len(f[k][2]) : f[k + 1][2][i] = f[k][2][i]
    <2>1. PICK start \in Nat, out \in Marks : f[k] = <<start, out>> BY <1>2
    <2>2. k + 1 \in 1 .. b /\ (k + 1) - 1 = k /\ k + 1 \in Nat BY <1>1, <1>2
    <2>3. f[k + 1] = ScanByte(<<start, out>>, k + 1) BY <1>1, <2>1, <2>2
    <2>4. PICK next \in Nat : \/ f[k + 1] = <<next, out>>
                              \/ f[k + 1] = <<next, Append(out, <<start, k + 1>>)>>
        <3>1. PICK p \in Nat : p = k + 1 BY <2>2
        <3>2. \E next \in Nat : \/ ScanByte(<<start, out>>, p) = <<next, out>>
                                \/ ScanByte(<<start, out>>, p) = <<next, Append(out, <<start, p>>)>>
            BY ScanByteGrows
        <3>3. QED BY <2>3, <3>1, <3>2
    <2>5. PICK more : more = Append(out, <<start, k + 1>>) OBVIOUS
    <2>6. /\ Len(out) \in Nat /\ more \in Marks /\ Len(more) = Len(out) + 1
          /\ \A i \in 1 .. Len(out) : more[i] = out[i]
        <3>1. <<start, k + 1>> \in Nat \X Nat BY <2>2
        <3>2. QED BY <2>5, <3>1, AppendProperties, LenProperties DEF Marks
    <2>7. CASE f[k + 1] = <<next, out>> BY <2>1, <2>6, <2>7
    <2>8. CASE f[k + 1] = <<next, more>> BY <2>1, <2>6, <2>8
    <2>9. QED BY <2>4, <2>5, <2>7, <2>8
<1>3. 0 \in S
    <2>1. <<>> \in Marks BY EmptySeq DEF Marks
    <2>2. ScanStart \in Nat \X Marks BY <2>1 DEF ScanStart
    <2>3. QED BY <1>1, <2>2
<1>4. 0 .. b \subseteq S
    <2>1. ASSUME NEW k \in 0 .. b, k < b, k \in S PROVE k + 1 \in S BY <1>1, <1>2, <2>1
    <2> HIDE DEF S
    <2>2. QED BY <1>1, <1>3, <2>1, UpTo
<1>5. \A p \in 0 .. b : f[p] \in Nat \X Marks BY <1>4
<1>6. a \in 0 .. b BY <1>1 DEF b
<1>7. A \in Marks /\ Len(A) \in Nat
    <2>1. A \in Marks BY <1>5, <1>6
    <2>2. QED BY <2>1, LenProperties DEF Marks
<1> HIDE DEF A
<1>8. a \in T BY <1>1, <1>6, <1>7 DEF A
<1>9. a .. b \subseteq T
    <2>1. ASSUME NEW k \in a .. b, k < b, k \in T PROVE k + 1 \in T
        <3>1. k \in Nat /\ k \in 0 .. b /\ k + 1 \in 0 .. b /\ k + 1 \in a .. b BY <1>1, <2>1
        <3>2. f[k] \in Nat \X Marks /\ f[k + 1] \in Nat \X Marks BY <1>5, <3>1
        <3>3. PICK s, t : s = f[k][2] /\ t = f[k + 1][2] OBVIOUS
        <3>4. s \in Marks /\ t \in Marks BY <3>2, <3>3
        <3>5. Len(s) \in Nat /\ Len(t) \in Nat BY <3>4, LenProperties DEF Marks
        <3>6. Len(s) <= Len(t) /\ \A i \in 1 .. Len(s) : t[i] = s[i]
            BY <1>2, <2>1, <3>1, <3>2, <3>3
        <3>7. Len(A) <= Len(s) /\ \A i \in 1 .. Len(A) : s[i] = A[i] BY <2>1, <3>3
        <3>8. Len(A) <= Len(t) BY <1>7, <3>5, <3>6, <3>7
        <3>9. \A i \in 1 .. Len(A) : i \in 1 .. Len(s) BY <1>7, <3>5, <3>7
        <3>10. \A i \in 1 .. Len(A) : t[i] = A[i] BY <3>6, <3>7, <3>9
        <3>11. QED BY <3>1, <3>3, <3>8, <3>10
    <2> HIDE DEF T
    <2>2. QED BY <1>1, <1>8, <2>1, UpTo
<1>10. PICK z : z = f[b][2] OBVIOUS
<1>11. z \in Marks /\ Len(z) \in Nat
    <2>1. b \in 0 .. b BY <1>1
    <2>2. z \in Marks BY <1>5, <1>10, <2>1
    <2>3. QED BY <2>2, LenProperties DEF Marks
<1>12. Len(A) <= Len(z) /\ \A i \in 1 .. Len(A) : z[i] = A[i]
    <2>1. b \in a .. b BY <1>1, <1>6
    <2>2. QED BY <1>9, <1>10, <2>1
<1>13. SubSeq(A, 1, Len(A)) = SubSeq(z, 1, Len(A))
    <2>1. SubSeq(A, 1, Len(A)) = A BY <1>7, SubSeqFull DEF Marks
    <2>2. PICK u : u = SubSeq(z, 1, Len(A)) OBVIOUS
    <2>3. 1 \in 1 .. Len(z) + 1 /\ Len(A) \in 0 .. Len(z) BY <1>7, <1>11, <1>12
    <2>4. /\ u \in Marks
          /\ Len(u) = IF 1 <= Len(A) THEN Len(A) - 1 + 1 ELSE 0
          /\ \A i \in 1 .. Len(A) - 1 + 1 : u[i] = z[1 + i - 1]
        BY <1>11, <2>2, <2>3, SubSeqProperties DEF Marks
    <2>5. Len(u) = Len(A) /\ \A i \in 1 .. Len(A) : u[i] = z[i]
        <3>1. Len(A) - 1 + 1 = Len(A) /\ \A i \in 1 .. Len(A) : 1 + i - 1 = i BY <1>7
        <3>2. Len(u) = Len(A) BY <1>7, <2>4
        <3>3. QED BY <2>4, <3>1, <3>2
    <2>6. u = A BY <1>7, <1>12, <2>4, <2>5, SeqEqual DEF Marks
    <2>7. QED BY <2>1, <2>2, <2>6
<1>14. QED BY <1>10, <1>12, <1>13 DEF IsPrefix, A, b

-----------------------------------------------------------------------------
(* One attempt to extract a frame, seen from the scan.                     *)

\* The first position, or none.
LEMMA IndexByteFirst ==
    ASSUME NEW x, NEW a \in Nat, NEW b \in Nat, 1 <= a
    PROVE  \/ /\ IndexByte(x, a, b) = 0
              /\ \A p \in a .. (b - 1) : stream[p] # x
           \/ /\ IndexByte(x, a, b) \in a .. (b - 1)
              /\ stream[IndexByte(x, a, b)] = x
              /\ \A q \in a .. (IndexByte(x, a, b) - 1) : stream[q] # x
<1> DEFINE S == {p \in a .. (b - 1) : stream[p] = x}
<1>1. CASE S = {}
    <2>1. \A p \in a .. (b - 1) : stream[p] # x BY <1>1
    <2>2. QED BY <2>1 DEF IndexByte
<1>2. CASE S # {}
    <2>1. S \in SUBSET Nat OBVIOUS
    <2>2. PICK m \in S : \A k \in S : m <= k BY <1>2, <2>1, NatMin
    <2>3. \A q \in a .. (m - 1) : stream[q] # x
        <3>1. ASSUME NEW q \in a .. (m - 1), stream[q] = x PROVE FALSE
            <4>1. q \in S BY <3>1
            <4>2. QED BY <2>2, <4>1
        <3>2. QED BY <3>1
    <2>4. \E p \in a .. (b - 1) : stream[p] = x /\ \A q \in a .. (p - 1) : stream[q] # x
        BY <2>3
    <2>5. \E p \in a .. (b - 1) : stream[p] = x BY <2>4
    <2>6. IndexByte(x, a, b) =
            CHOOSE p \in a .. (b - 1) : stream[p] = x /\ \A q \in a .. (p - 1) : stream[q] # x
        BY <2>5 DEF IndexByte
    <2>7. QED BY <2>4, <2>6
<1>3. QED BY <1>1, <1>2

\* TrimRight leaves out the CRs at the end and no other byte.
LEMMA TrimRightTrims ==
    ASSUME NEW a \in Nat, NEW b \in Nat, a <= b
    PROVE  /\ \A p \in TrimRight(a, b) .. (b - 1) : stream[p] = CR
           /\ TrimRight(a, b) > a => stream[TrimRight(a, b) - 1] # CR
<1>1. \E e \in a .. b : (\A p \in e .. (b - 1) : stream[p] = CR) /\ (e > a => stream[e - 1] # CR)
    BY TrimRightExists
<1>2. QED BY <1>1 DEF TrimRight

\* What the scan remembers at the start of a buffer a..b-1.
Begin(a) == IF mode = "newline" THEN a ELSE 0

\* The payload of a line is the line without the CRs before its end.
Trimmed(g) ==
    mode = "newline" =>
      /\ \A p \in g.to .. (g.last - 1) : stream[p] = CR
      /\ g.to > g.from => stream[g.to - 1] # CR

\* The scan has come to the start of the buffer, with the frames out; tryExtractFrame
\* finds the next frame of the scan, if it ends in the buffer.
Follows(f, t, b, out) ==
    \/ /\ t.found = <<>>
       /\ f[t.lo - 1] = <<Begin(t.lo), out>>
       /\ f[b - 1][2] = out
    \/ \E g : /\ t.found = <<g>>
              /\ f[t.lo - 1] = <<Begin(t.lo), Append(out, <<g.first, g.last>>)>>
              /\ Trimmed(g)

\* Frames end at newlines.
LEMMA LineFollows ==
    ASSUME stream \in Streams, NEW f, IsScan(f), NEW out,
           NEW a \in Nat, NEW b \in Nat, NEW c \in Nat, 1 <= a, a <= b, b <= Len(stream) + 1,
           mode = "newline", f[a - 1] = <<Begin(a), out>>
    PROVE  Follows(f, TryExtractFrame(a, b, c), b, out)
<1> DEFINE nl == IndexByte(NL, a, b)
           t  == TryExtractFrame(a, b, c)
           s  == <<a, out>>
<1>1. f[a - 1] = s /\ s[1] = a /\ s[2] = out BY DEF Begin
<1>2. a - 1 \in Nat /\ b - 1 \in Nat /\ a - 1 <= b - 1 /\ (a - 1) + 1 = a /\ b - 1 <= Len(stream)
    BY ScanSteps
<1>3. CASE nl = 0 /\ \A p \in a .. (b - 1) : stream[p] # NL
    <2>1. t = [found |-> <<>>, lo |-> a, off |-> c] BY <1>3 DEF TryExtractFrame
    <2> HIDE DEF s, nl, t
    <2>2. Quiet(s, a - 1, b - 1) BY <1>2, <1>3, ScanByteIs DEF Quiet
    <2>3. f[b - 1] = s BY <1>1, <1>2, <2>2, ScanQuiet
    <2>4. t.found = <<>> /\ t.lo = a BY <2>1
    <2>5. f[b - 1][2] = out BY <1>1, <2>3
    <2>6. Follows(f, t, b, out) BY <2>4, <2>5 DEF Follows
    <2>7. QED BY <2>6 DEF t
<1>4. CASE nl \in a .. (b - 1) /\ stream[nl] = NL /\ \A q \in a .. (nl - 1) : stream[q] # NL
    <2> DEFINE g == Frame(a, nl, a, TrimRight(a, nl), c)
    <2>1. nl # 0 BY <1>4
    <2>2. t = [found |-> <<g>>, lo |-> nl + 1, off |-> c + nl + 1 - a]
        BY <2>1 DEF TryExtractFrame
    <2>3. g.first = a /\ g.last = nl /\ g.from = a /\ g.to = TrimRight(a, nl) BY DEF Frame
    <2> HIDE DEF s, nl, t, g
    <2>4. nl \in Nat /\ nl - 1 \in Nat /\ a - 1 <= nl - 1 /\ nl - 1 <= Len(stream)
          /\ (a - 1) + 1 = a /\ nl \in 1 .. Len(stream) /\ (nl + 1) - 1 = nl /\ a <= nl
        BY <1>2, <1>4
    <2>5. Quiet(s, a - 1, nl - 1) BY <1>4, <2>4, ScanByteIs DEF Quiet
    <2>6. f[nl - 1] = s BY <1>1, <1>2, <2>4, <2>5, ScanQuiet
    <2>7. f[nl] = ScanByte(s, nl) BY <2>4, <2>6, ScanSteps
    <2>8. ScanByte(s, nl) = <<nl + 1, Append(out, <<a, nl>>)>> BY <1>1, <1>4, ScanByteIs
    <2>9. t.found = <<g>> /\ t.lo = nl + 1 BY <2>2
    <2>10. Begin(t.lo) = nl + 1 BY <2>9 DEF Begin
    <2>11. f[t.lo - 1] = <<Begin(t.lo), Append(out, <<g.first, g.last>>)>>
        BY <2>3, <2>4, <2>7, <2>8, <2>9, <2>10
    <2>12. Trimmed(g)
        <3>1. PICK e : e = TrimRight(a, nl) OBVIOUS
        <3>2. (\A p \in e .. (nl - 1) : stream[p] = CR) /\ (e > a => stream[e - 1] # CR)
            BY <2>4, <3>1, TrimRightTrims
        <3>3. g.to = e /\ g.last = nl /\ g.from = a BY <2>3, <3>1
        <3>4. QED BY <3>2, <3>3 DEF Trimmed
    <2>13. Follows(f, t, b, out) BY <2>9, <2>11, <2>12 DEF Follows
    <2>14. QED BY <2>13 DEF t
<1>5. QED BY <1>3, <1>4, IndexByteFirst

\* Frames reach from a start byte to the next end byte.
LEMMA SyncFollows ==
    ASSUME stream \in Streams, NEW f, IsScan(f), NEW out,
           NEW a \in Nat, NEW b \in Nat, NEW c \in Nat, 1 <= a, a <= b, b <= Len(stream) + 1,
           mode = "sync", f[a - 1] = <<Begin(a), out>>
    PROVE  Follows(f, TryExtractFrame(a, b, c), b, out)
<1> DEFINE sof == IndexByte(SOF, a, b)
           eof == IndexByte(EOF, sof + 1, b)
           t   == TryExtractFrame(a, b, c)
           s   == <<0, out>>
           u   == <<sof, out>>
<1>1. f[a - 1] = s /\ s[1] = 0 /\ s[2] = out /\ u[1] = sof /\ u[2] = out BY DEF Begin
<1>2. a - 1 \in Nat /\ b - 1 \in Nat /\ a - 1 <= b - 1 /\ (a - 1) + 1 = a /\ b - 1 <= Len(stream)
    BY ScanSteps
<1>3. \A x : Begin(x) = 0 BY DEF Begin
<1>4. CASE sof = 0 /\ \A p \in a .. (b - 1) : stream[p] # SOF
    <2>1. SyncStart(a, b) = b BY <1>4 DEF SyncStart
    <2>2. t.found = <<>> /\ t.lo = b BY <1>4, <2>1 DEF TryExtractFrame
    <2> HIDE DEF s, sof, t, u, eof
    <2>3. Quiet(s, a - 1, b - 1) BY <1>1, <1>2, <1>4, ScanByteIs DEF Quiet
    <2>4. f[b - 1] = s BY <1>1, <1>2, <2>3, ScanQuiet
    <2>5. f[t.lo - 1] = <<Begin(t.lo), out>> BY <1>3, <2>2, <2>4 DEF s
    <2>6. f[b - 1][2] = out BY <1>1, <2>4
    <2>7. Follows(f, t, b, out) BY <2>2, <2>5, <2>6 DEF Follows
    <2>8. QED BY <2>7 DEF t
<1>5. CASE sof \in a .. (b - 1) /\ stream[sof] = SOF /\ \A q \in a .. (sof - 1) : stream[q] # SOF
    <2>1. sof # 0 BY <1>5
    <2>2. SyncStart(a, b) = sof BY <2>1 DEF SyncStart
    <2>3. eof = 0 => t.found = <<>> /\ t.lo = sof BY <2>1, <2>2 DEF TryExtractFrame
    <2>4. eof # 0 => /\ t.found = <<Frame(sof, eof, sof + 1, eof, c + sof - a)>>
                     /\ t.lo = eof + 1
        BY <2>1 DEF TryExtractFrame
    <2> HIDE DEF s, sof, t
    <2>5. sof \in Nat /\ sof - 1 \in Nat /\ a - 1 <= sof - 1 /\ sof - 1 <= Len(stream)
          /\ sof \in 1 .. Len(stream) /\ sof + 1 \in Nat /\ 1 <= sof + 1 /\ sof <= b - 1
          /\ sof <= Len(stream) /\ (sof + 1) - 1 = sof
        BY <1>2, <1>5
    <2>6. Quiet(s, a - 1, sof - 1) BY <1>1, <1>2, <1>5, ScanByteIs DEF Quiet
    <2>7. f[sof - 1] = s BY <1>1, <1>2, <2>5, <2>6, ScanQuiet
    <2>8. f[sof] = u
        <3>1. f[sof] = ScanByte(s, sof) BY <2>5, <2>7, ScanSteps
        <3>2. ScanByte(s, sof) = <<sof, out>> BY <1>1, <1>5, ScanByteIs
        <3>3. QED BY <3>1, <3>2
    <2> HIDE DEF u, eof
    <2>9. ASSUME eof = 0, \A p \in (sof + 1) .. (b - 1) : stream[p] # EOF
          PROVE  Follows(f, t, b, out)
        <3>1. Quiet(u, sof, b - 1) BY <1>1, <2>1, <2>9, ScanByteIs DEF Quiet
        <3>2. f[b - 1] = u BY <1>2, <2>5, <2>8, <3>1, ScanQuiet
        <3>3. f[t.lo - 1] = <<Begin(t.lo), out>> BY <1>3, <2>3, <2>7, <2>9 DEF s
        <3>4. f[b - 1][2] = out BY <1>1, <3>2
        <3>5. QED BY <2>3, <2>9, <3>3, <3>4 DEF Follows
    <2>10. ASSUME eof \in (sof + 1) .. (b - 1), stream[eof] = EOF,
                  \A q \in (sof + 1) .. (eof - 1) : stream[q] # EOF
           PROVE  Follows(f, t, b, out)
        <3> DEFINE g == Frame(sof, eof, sof + 1, eof, c + sof - a)
        <3>1. eof # 0 /\ eof - 1 \in Nat /\ sof <= eof - 1 /\ eof - 1 <= Len(stream)
              /\ eof \in 1 .. Len(stream) /\ (eof + 1) - 1 = eof
            BY <1>2, <2>5, <2>10
        <3>2. t.found = <<g>> /\ t.lo = eof + 1 BY <2>4, <3>1
        <3>3. g.first = sof /\ g.last = eof BY DEF Frame
        <3> HIDE DEF g
        <3>4. Quiet(u, sof, eof - 1) BY <1>1, <2>1, <2>10, ScanByteIs DEF Quiet
        <3>5. f[eof - 1] = u BY <2>5, <2>8, <3>1, <3>4, ScanQuiet
        <3>6. f[eof] = ScanByte(u, eof) BY <3>1, <3>5, ScanSteps
        <3>7. ScanByte(u, eof) = <<0, Append(out, <<sof, eof>>)>>
            BY <1>1, <2>1, <2>10, ScanByteIs
        <3>8. f[t.lo - 1] = <<Begin(t.lo), Append(out, <<g.first, g.last>>)>>
            BY <1>3, <3>1, <3>2, <3>3, <3>6, <3>7
        <3>9. Trimmed(g) BY DEF Trimmed
        <3>10. QED BY <3>2, <3>8, <3>9 DEF Follows
    <2>11. \/ eof = 0 /\ \A p \in (sof + 1) .. (b - 1) : stream[p] # EOF
           \/ /\ eof \in (sof + 1) .. (b - 1) /\ stream[eof] = EOF
              /\ \A q \in (sof + 1) .. (eof - 1) : stream[q] # EOF
        BY <2>5, IndexByteFirst DEF eof
    <2>12. Follows(f, t, b, out) BY <2>9, <2>10, <2>11
    <2>13. QED BY <2>12 DEF t
<1>6. QED BY <1>4, <1>5, IndexByteFirst

-----------------------------------------------------------------------------
(* What was returned is what the scan has found.                           *)

Returned == [i \in DOMAIN frames |-> <<frames[i].first, frames[i].last>>]

\* The scan of the bytes before l is outside a frame and has found marks.
ScannedTo(l, marks) == \A f : IsScan(f) => f[l - 1] = <<Begin(l), marks>>

\* No other frame ends before b.
Finds(b, marks) == \A f : IsScan(f) => f[b - 1][2] = marks

\* A buffer that begins at l when e was reported.
At(l, e, marks) == ScannedTo(l, marks) /\ (e = "EOF" => Finds(Len(stream) + 1, marks))

TrimmedAll == \A i \in DOMAIN frames : Trimmed(frames[i])

\* Unless the guard has dropped bytes the buffer begins where the scan is.
ScanInv ==
    /\ mode \in {"newline", "sync", "length"}
    /\ ~cut /\ mode # "length" => At(lo, err, Returned) /\ TrimmedAll

\* A step changes neither the stream nor the mode, hence not what a scan finds.
LEMMA SameScan ==
    ASSUME stream' = stream, mode' = mode
    PROVE  /\ \A f : IsScan(f)' <=> IsScan(f)
           /\ \A l : Begin(l)' = Begin(l)
           /\ \A g : Trimmed(g)' <=> Trimmed(g)
<1>1. ASSUME NEW f PROVE IsScan(f)' <=> IsScan(f)
    <2>1. ScanStart' = ScanStart BY DEF ScanStart
    <2>2. ASSUME NEW s, NEW p PROVE ScanByte(s, p)' = ScanByte(s, p) BY DEF ScanByte
    <2>3. QED BY <2>1, <2>2 DEF IsScan
<1>2. ASSUME NEW l PROVE Begin(l)' = Begin(l) BY DEF Begin
<1>3. ASSUME NEW g PROVE Trimmed(g)' <=> Trimmed(g) BY DEF Trimmed
<1>4. QED BY <1>1, <1>2, <1>3

\* Nor where the scan is.
LEMMA SameAt ==
    ASSUME stream' = stream, mode' = mode, NEW l, NEW e, NEW marks, At(l, e, marks)
    PROVE  At(l, e, marks)'
<1>1. ScannedTo(l, marks)'
    <2>1. ASSUME NEW f, IsScan(f)' PROVE f[l - 1] = <<Begin(l)', marks>>
        <3>1. IsScan(f) /\ Begin(l)' = Begin(l) BY <2>1, SameScan
        <3>2. QED BY <3>1 DEF At, ScannedTo
    <2>2. QED BY <2>1 DEF ScannedTo
<1>2. ASSUME e = "EOF" PROVE Finds(Len(stream) + 1, marks)'
    <2>1. PICK b : b = Len(stream) + 1 OBVIOUS
    <2>2. Finds(b, marks) BY <1>2, <2>1 DEF At
    <2>3. Finds(b, marks)' BY <2>2, SameScan DEF Finds
    <2>4. QED BY <2>1, <2>3
<1>3. QED BY <1>1, <1>2 DEF At

\* The marks of one frame more.
LEMMA ReturnedMore ==
    ASSUME frames \in Seq(FrameSet), NEW h \in FrameSet, frames' = frames \o <<h>>
    PROVE  Returned' = Append(Returned, <<h.first, h.last>>)
<1>1. PICK s : s = frames OBVIOUS
<1>2. PICK t : t = frames' OBVIOUS
<1> DEFINE R == [i \in DOMAIN s |-> <<s[i].first, s[i].last>>]
           T == [i \in DOMAIN t |-> <<t[i].first, t[i].last>>]
           m == <<h.first, h.last>>
<1>3. Len(s) \in Nat /\ DOMAIN s = 1 .. Len(s) BY <1>1, LenProperties
<1>4. /\ t = Append(s, h) /\ t \in Seq(FrameSet) /\ Len(t) = Len(s) + 1
      /\ DOMAIN t = 1 .. Len(s) + 1
      /\ \A i \in 1 .. Len(s) : t[i] = s[i]
      /\ t[Len(s) + 1] = h
    <2>1. s \in Seq(FrameSet) BY <1>1
    <2>2. t = Append(s, h) BY <1>1, <1>2, <2>1, AppendIsConcat
    <2>3. QED BY <2>1, <2>2, AppendProperties, LenProperties
<1>5. R \in Marks /\ Len(R) = Len(s)
    <2>1. ASSUME NEW i \in 1 .. Len(s) PROVE <<s[i].first, s[i].last>> \in Nat \X Nat
        <3>1. s[i] \in FrameSet BY <1>1, ElementOfSeq
        <3>2. QED BY <3>1 DEF FrameSet
    <2>2. PICK n \in Nat : n = Len(s) BY <1>3
    <2>3. R \in [1 .. n -> Nat \X Nat] BY <1>3, <2>1, <2>2
    <2>4. R \in Marks BY <2>3, SeqDef DEF Marks
    <2>5. Len(R) = n BY <2>3, <2>4, LenProperties DEF Marks
    <2>6. QED BY <2>2, <2>4, <2>5
<1>6. m \in Nat \X Nat BY DEF FrameSet
<1>7. PICK r, A : r = R /\ A = Append(r, m) OBVIOUS
<1>8. /\ A \in Marks /\ Len(A) = Len(s) + 1
      /\ \A i \in 1 .. Len(s) : A[i] = r[i]
      /\ A[Len(s) + 1] = m
    <2> HIDE DEF R, m
    <2>1. r \in Marks /\ Len(r) = Len(s) BY <1>5, <1>7
    <2>2. QED BY <1>6, <1>7, <2>1, AppendProperties DEF Marks
<1>9. A = [i \in 1 .. Len(s) + 1 |-> A[i]]
    BY <1>8, LenProperties DEF Marks
<1>10. ASSUME NEW i \in 1 .. Len(s) + 1 PROVE T[i] = A[i]
    <2>1. CASE i = Len(s) + 1 BY <1>4, <1>8, <2>1
    <2>2. CASE i # Len(s) + 1
        <3>1. i \in 1 .. Len(s) BY <1>3, <2>2
        <3>2. QED BY <1>3, <1>4, <1>7, <1>8, <3>1
    <2>3. QED BY <2>1, <2>2
<1>11. T = A BY <1>4, <1>9, <1>10
<1>12. Returned = R /\ Returned' = T BY <1>1, <1>2 DEF Returned
<1>13. QED BY <1>7, <1>11, <1>12

\* A step that keeps the frames, with the scan where the buffer begins.
LEMMA ScanInvKept ==
    ASSUME ScanInv, stream' = stream, mode' = mode, frames' = frames,
           ~cut' => ~cut,
           ~cut' /\ mode # "length" => At(lo', err', Returned)
    PROVE  ScanInv'
<1>1. mode' \in {"newline", "sync", "length"} BY DEF ScanInv
<1>2. Returned' = Returned BY DEF Returned
<1>3. ASSUME ~cut', mode # "length" PROVE At(lo, err, Returned)' /\ TrimmedAll'
    <2>1. PICK l, e, marks : l = lo' /\ e = err' /\ marks = Returned OBVIOUS
    <2>2. At(l, e, marks)' BY <1>3, <2>1, SameAt
    <2>3. At(lo, err, Returned)' BY <1>2, <2>1, <2>2
    <2>4. TrimmedAll BY <1>3 DEF ScanInv
    <2>5. TrimmedAll' BY <2>4, SameScan DEF TrimmedAll
    <2>6. QED BY <2>3, <2>5
<1>4. QED BY <1>1, <1>3 DEF ScanInv

\* A step that returns the next frame of the scan.
LEMMA ScanInvMore ==
    ASSUME ScanInv, stream' = stream, mode' = mode, frames \in Seq(FrameSet),
           NEW h \in FrameSet, frames' = frames \o <<h>>, ~cut' => ~cut,
           ~cut' /\ mode # "length" =>
              At(lo', err', Append(Returned, <<h.first, h.last>>)) /\ Trimmed(h)
    PROVE  ScanInv'
<1>1. mode' \in {"newline", "sync", "length"} BY DEF ScanInv
<1>2. Returned' = Append(Returned, <<h.first, h.last>>) BY ReturnedMore
<1>3. ASSUME ~cut', mode # "length" PROVE At(lo, err, Returned)' /\ TrimmedAll'
    <2>1. PICK l, e, marks : l = lo' /\ e = err' /\ marks = Append(Returned, <<h.first, h.last>>)
        OBVIOUS
    <2>2. At(l, e, marks)' BY <1>3, <2>1, SameAt
    <2>3. At(lo, err, Returned)' BY <1>2, <2>1, <2>2
    <2>4. TrimmedAll BY <1>3 DEF ScanInv
    <2>5. TrimmedAll'
        <3>1. /\ Len(frames) \in Nat /\ DOMAIN frames = 1 .. Len(frames)
              /\ DOMAIN frames' = 1 .. Len(frames) + 1
              /\ \A i \in 1 .. Len(frames) : frames'[i] = frames[i]
              /\ frames'[Len(frames) + 1] = h
            <4>1. frames' = Append(frames, h) BY AppendIsConcat
            <4>2. QED BY <4>1, AppendProperties, LenProperties
        <3>2. ASSUME NEW i \in DOMAIN frames' PROVE Trimmed(frames'[i])
            <4>1. CASE i = Len(frames) + 1 BY <1>3, <3>1, <4>1
            <4>2. CASE i # Len(frames) + 1
                <5>1. i \in 1 .. Len(frames) BY <3>1, <4>2
                <5>2. QED BY <2>4, <3>1, <5>1 DEF TrimmedAll
            <4>3. QED BY <4>1, <4>2
        <3>3. ASSUME NEW i \in DOMAIN frames' PROVE Trimmed(frames[i])'
            <4>1. PICK g : g = frames'[i] OBVIOUS
            <4>2. Trimmed(g)' BY <3>2, <4>1, SameScan
            <4>3. QED BY <4>1, <4>2
        <3>4. QED BY <3>3 DEF TrimmedAll
    <2>6. QED BY <2>3, <2>5
<1>4. QED BY <1>1, <1>3 DEF ScanInv

\* What an attempt finds at the place the scan has come to.
LEMMA AttemptFollows ==
    ASSUME stream \in Streams, mode \in {"newline", "sync"}, NEW out,
           NEW a \in Nat, NEW b \in Nat, NEW c \in Nat, 1 <= a, a <= b, b <= Len(stream) + 1,
           ScannedTo(a, out),
           NEW t, t = TryExtractFrame(a, b, c)
    PROVE  /\ t.found = <<>> => ScannedTo(t.lo, out) /\ Finds(b, out)
           /\ \A h : t.found = <<h>> =>
                Trimmed(h) /\ ScannedTo(t.lo, Append(out, <<h.first, h.last>>))
<1>1. ASSUME NEW f, IsScan(f) PROVE Follows(f, t, b, out)
    <2>1. f[a - 1] = <<Begin(a), out>> BY <1>1 DEF ScannedTo
    <2>2. QED BY <1>1, <2>1, LineFollows, SyncFollows
<1>2. ASSUME t.found = <<>>, NEW f, IsScan(f)
      PROVE  f[t.lo - 1] = <<Begin(t.lo), out>> /\ f[b - 1][2] = out
    <2>1. Follows(f, t, b, out) BY <1>1, <1>2
    <2>2. \A g : <<g>> # <<>> OBVIOUS
    <2>3. QED BY <1>2, <2>1, <2>2 DEF Follows
<1>3. ASSUME NEW h, t.found = <<h>>, NEW f, IsScan(f)
      PROVE  /\ Trimmed(h)
             /\ f[t.lo - 1] = <<Begin(t.lo), Append(out, <<h.first, h.last>>)>>
    <2>1. Follows(f, t, b, out) BY <1>1, <1>3
    <2>2. <<h>> # <<>> /\ \A g : <<g>> = <<h>> => g = h OBVIOUS
    <2>3. PICK g : /\ t.found = <<g>>
                   /\ f[t.lo - 1] = <<Begin(t.lo), Append(out, <<g.first, g.last>>)>>
                   /\ Trimmed(g)
        BY <1>3, <2>1, <2>2 DEF Follows
    <2>4. g = h BY <1>3, <2>2, <2>3
    <2>5. QED BY <2>3, <2>4
<1>4. \E f : IsScan(f) BY ScanExists
<1>5. QED BY <1>2, <1>3, <1>4 DEF ScannedTo, Finds

\* What the other invariant says of the numbers.
LEMMA BufferSpan ==
    ASSUME IInv
    PROVE  /\ stream \in Streams /\ Len(stream) \in Nat /\ frames \in Seq(FrameSet)
           /\ lo \in Nat /\ hi \in Nat /\ off \in Nat /\ arr \in Nat
           /\ 1 <= lo /\ lo <= hi /\ hi <= Len(stream) + 1
<1>1. stream \in Streams /\ BufferOK /\ FramesInv BY DEF IInv
<1>2. stream \in Seq(Nat) BY <1>1, FrameConstants
<1>3. Len(stream) \in Nat BY <1>2
<1>4. QED BY <1>1, <1>3 DEF BufferOK, FramesInv, FrameSet

\* A frame that is complete in the buffer is the next one of the scan.
LEMMA ReturnFrameScan ==
    ASSUME IInv, ScanInv, ReturnFrame
    PROVE  ScanInv'
<1>1. PICK t : t = TryExtractFrame(lo, hi, off) OBVIOUS
<1>2. /\ t.found # <<>> /\ frames' = frames \o t.found /\ lo' = t.lo /\ err' = err
      /\ err = "none" /\ stream' = stream /\ mode' = mode /\ cut' = cut
    BY <1>1 DEF ReturnFrame
<1>3. PICK h \in FrameSet : t.found = <<h>>
    <2>1. Extraction(t, lo, hi, off) BY <1>1, BufferSpan, ExtractFrame
    <2>2. PICK h \in FrameSet : Extracted(h, t, lo, off) BY <1>2, <2>1, Zenon DEF Extraction
    <2>3. QED BY <2>2 DEF Extracted
<1>4. ASSUME ~cut', mode # "length"
      PROVE  At(lo', err', Append(Returned, <<h.first, h.last>>)) /\ Trimmed(h)
    <2>1. PICK out : out = Returned OBVIOUS
    <2>2. mode \in {"newline", "sync"} /\ At(lo, err, out) BY <1>2, <1>4, <2>1 DEF ScanInv
    <2>3. ScannedTo(lo, out) BY <2>2 DEF At
    <2>4. Trimmed(h) /\ ScannedTo(t.lo, Append(out, <<h.first, h.last>>))
        BY <1>1, <1>3, <2>2, <2>3, BufferSpan, AttemptFollows
    <2>5. At(lo', err', Append(out, <<h.first, h.last>>)) BY <1>2, <2>4 DEF At
    <2>6. QED BY <2>1, <2>4, <2>5
<1>5. QED BY <1>2, <1>3, <1>4, BufferSpan, ScanInvMore

\* The buffer a..b-1 that a read has left, when the guard has dropped nothing, and what
\* the last attempt makes of it.
LEMMA LastAttempt ==
    ASSUME IInv, stream \in Streams, mode \in {"newline", "sync"}, NEW out,
           NEW a \in Nat, NEW b \in Nat, NEW d \in Nat, 1 <= a, a <= b, b <= Len(stream) + 1,
           NEW e, e = "EOF" => b = Len(stream) + 1,
           ScannedTo(a, out),
           NEW t, t = IF e = "EOF" /\ b - a > 0 THEN TryExtractFrame(a, b, d)
                      ELSE [found |-> <<>>, lo |-> a, off |-> d]
    PROVE  \/ t.found = <<>> /\ At(t.lo, e, out)
           \/ \E h \in FrameSet : /\ t.found = <<h>> /\ Trimmed(h)
                                  /\ At(t.lo, "none", Append(out, <<h.first, h.last>>))
<1>1. CASE e = "EOF" /\ b - a > 0
    <2>1. t = TryExtractFrame(a, b, d) BY <1>1
    <2>3. CASE t.found = <<>>
        <3>1. ScannedTo(t.lo, out) /\ Finds(b, out) BY <2>1, <2>3, AttemptFollows
        <3>2. At(t.lo, e, out) BY <1>1, <3>1 DEF At
        <3>3. QED BY <2>3, <3>2
    <2>4. CASE t.found # <<>>
        <3>1. Extraction(t, a, b, d) BY <2>1, BufferSpan, ExtractFrame
        <3>2. PICK h \in FrameSet : Extracted(h, t, a, d) BY <2>4, <3>1, Zenon DEF Extraction
        <3>3. t.found = <<h>> BY <3>2 DEF Extracted
        <3>4. Trimmed(h) /\ ScannedTo(t.lo, Append(out, <<h.first, h.last>>))
            BY <2>1, <3>3, AttemptFollows
        <3>5. At(t.lo, "none", Append(out, <<h.first, h.last>>)) BY <3>4 DEF At
        <3>6. QED BY <3>3, <3>4, <3>5
    <2>5. QED BY <2>3, <2>4
<1>2. CASE ~(e = "EOF" /\ b - a > 0)
    <2>1. t.found = <<>> /\ t.lo = a BY <1>2
    <2>2. ASSUME e = "EOF" PROVE Finds(Len(stream) + 1, out)
        <3>1. a = Len(stream) + 1 BY <1>2, <2>2, BufferSpan
        <3>2. Finds(a, out) BY DEF ScannedTo, Finds
        <3>3. QED BY <3>1, <3>2
    <2>3. At(t.lo, e, out) BY <2>1, <2>2 DEF At
    <2>4. QED BY <2>1, <2>3
<1>3. QED BY <1>1, <1>2

\* However many bytes a read brings: the scan goes on where it was, and at the end of
\* the stream nothing is left.
LEMMA ReadMoreScan ==
    ASSUME IInv, IInv', ScanInv,
           NEW n \in 0 .. ReadSize, NEW e \in {"none", "EOF", "EIO"}, ReadMore(n, e)
    PROVE  ScanInv'
<1> DEFINE t0   == TryExtractFrame(lo, hi, off)
           c    == IF t0.off + hi + n - t0.lo <= cap THEN t0.off ELSE 0
           size == hi + n - t0.lo
           half == IF n > 0 /\ size > 4 * MaxFrameSize THEN size \div 2 ELSE 0
           last == IF e = "EOF" /\ size - half > 0
                   THEN TryExtractFrame(t0.lo + half, hi + n, c + half)
                   ELSE [found |-> <<>>, lo |-> t0.lo + half, off |-> c + half]
           w    == [i \in DOMAIN last.found |-> [last.found[i] EXCEPT !.arr = arr']]
<1>1. PICK t, l, v, u : t = t0 /\ l = last /\ v = half /\ u = w OBVIOUS
<1>2. /\ t.found = <<>> /\ hi + n <= Len(stream) + 1 /\ (e = "EOF" => hi + n = Len(stream) + 1)
      /\ hi' = hi + n /\ cut' = (cut \/ v > 0) /\ frames' = frames \o u /\ lo' = l.lo
      /\ err' = (IF l.found = <<>> THEN e ELSE "none") /\ stream' = stream /\ mode' = mode
    BY <1>1 DEF ReadMore
<1>3. n \in Nat
    <2>1. ReadSize \in Nat BY FrameConstants
    <2>2. QED BY <2>1
<1>4. t = TryExtractFrame(lo, hi, off) BY <1>1
<1>5. t.lo \in lo .. hi /\ t.off \in Nat
    <2>1. Extraction(t, lo, hi, off) BY <1>4, BufferSpan, ExtractFrame
    <2>2. QED BY <2>1, BufferSpan DEF Extraction
<1>6. PICK a \in Nat, b \in Nat, d \in Nat : a = t.lo /\ b = hi + n /\ d = c
    <2>1. t.lo \in Nat /\ hi + n \in Nat BY <1>3, <1>5, BufferSpan
    <2>2. c \in Nat BY <1>1, <1>5
    <2>3. QED BY <2>1, <2>2
<1>7. 1 <= a /\ a <= b /\ b <= Len(stream) + 1 BY <1>2, <1>3, <1>5, <1>6, BufferSpan
<1>8. u = [i \in DOMAIN l.found |-> [l.found[i] EXCEPT !.arr = arr']] BY <1>1
<1>9. size = b - a
    <2>1. t0.lo = a BY <1>1, <1>6
    <2> HIDE DEF t0
    <2>2. hi \in Nat /\ n \in Nat /\ a \in Nat BY <1>3, <1>6, BufferSpan
    <2>3. QED BY <1>6, <2>1, <2>2
<1>10. v = half /\ l = IF e = "EOF" /\ size - v > 0 THEN TryExtractFrame(a + v, b, d + v)
                       ELSE [found |-> <<>>, lo |-> a + v, off |-> d + v]
    BY <1>1, <1>6
<1> HIDE DEF t0, c, size, last, w
<1>11. v \in 0 .. (b - a)
    <2>1. PICK x \in Nat : x = size BY <1>7, <1>9
    <2>2. x \div 2 \in 0 .. x BY Half
    <2>3. v = x \div 2 \/ v = 0 BY <1>10, <2>1
    <2>4. QED BY <1>9, <2>1, <2>2, <2>3
<1> HIDE DEF half
\* The last attempt takes nothing or one frame, whatever the guard did.
<1>12. l.found = <<>> \/ \E g \in FrameSet : l.found = <<g>>
    <2>1. a + v \in Nat /\ 1 <= a + v /\ a + v <= b /\ d + v \in Nat BY <1>7, <1>11
    <2>2. CASE l = TryExtractFrame(a + v, b, d + v)
        <3>1. Extraction(l, a + v, b, d + v) BY <2>1, <2>2, BufferSpan, ExtractFrame
        <3>2. QED BY <3>1, Zenon DEF Extraction, Extracted
    <2>3. CASE l = [found |-> <<>>, lo |-> a + v, off |-> d + v] BY <2>3
    <2>4. QED BY <1>10, <2>2, <2>3
<1>13. ~cut' => ~cut BY <1>2
\* Without a cut the attempt is on the buffer as it was read.
<1>14. ASSUME ~cut', mode # "length"
       PROVE  \/ l.found = <<>> /\ At(l.lo, e, Returned)
              \/ \E h \in FrameSet : /\ l.found = <<h>> /\ Trimmed(h)
                                     /\ At(l.lo, "none", Append(Returned, <<h.first, h.last>>))
    <2>1. v = 0
        <3>1. ~(v > 0) BY <1>2, <1>14
        <3>2. QED BY <1>11, <3>1
    <2>2. PICK out : out = Returned OBVIOUS
    <2>3. mode \in {"newline", "sync"} /\ At(lo, err, out) BY <1>13, <1>14, <2>2 DEF ScanInv
    <2>4. ScannedTo(lo, out) BY <2>3 DEF At
    <2>5. ScannedTo(a, out)
        <3>1. ScannedTo(t.lo, out)
            BY <1>2, <1>4, <2>3, <2>4, BufferSpan, AttemptFollows
        <3>2. QED BY <1>6, <3>1
    <2>6. a + v = a /\ d + v = d /\ size - v = b - a BY <1>7, <1>9, <2>1
    <2>7. l = IF e = "EOF" /\ b - a > 0 THEN TryExtractFrame(a, b, d)
              ELSE [found |-> <<>>, lo |-> a, off |-> d]
        BY <1>10, <2>6
    <2>8. stream \in Streams /\ (e = "EOF" => b = Len(stream) + 1) BY <1>2, <1>6, BufferSpan
    <2>9. \/ l.found = <<>> /\ At(l.lo, e, out)
          \/ \E h \in FrameSet : /\ l.found = <<h>> /\ Trimmed(h)
                                 /\ At(l.lo, "none", Append(out, <<h.first, h.last>>))
        BY <1>7, <2>3, <2>5, <2>7, <2>8, LastAttempt
    <2>10. QED BY <2>2, <2>9
<1>15. arr' \in Nat
    <2>1. BufferOK' BY DEF IInv
    <2>2. QED BY <2>1 DEF BufferOK
<1>16. CASE l.found = <<>>
    <2>1. u = <<>> BY <1>8, <1>16
    <2>2. frames' = frames BY <1>2, <2>1, BufferSpan, ConcatEmptySeq
    <2>3. err' = e /\ lo' = l.lo BY <1>2, <1>16
    <2>4. ASSUME ~cut', mode # "length" PROVE At(lo', err', Returned)
        <3>1. \A h : <<h>> # <<>> OBVIOUS
        <3>2. At(l.lo, e, Returned) BY <1>14, <1>16, <2>4, <3>1
        <3>3. QED BY <2>3, <3>2
    <2>5. QED BY <1>2, <1>13, <2>2, <2>4, ScanInvKept
<1>17. ASSUME NEW g \in FrameSet, l.found = <<g>> PROVE ScanInv'
    <2>1. PICK h : h = [g EXCEPT !.arr = arr'] OBVIOUS
    <2>2. h \in FrameSet /\ h.first = g.first /\ h.last = g.last /\ h.from = g.from /\ h.to = g.to
        BY <1>15, <2>1 DEF FrameSet
    <2>3. u = <<h>>
        <3>1. PICK x : x = l.found OBVIOUS
        <3> PICK y \in Nat : y = arr' BY <1>15
        <3>2. [i \in DOMAIN x |-> [x[i] EXCEPT !.arr = y]] = <<[g EXCEPT !.arr = y]>>
            BY <1>17, <3>1, Renumbered
        <3>3. QED BY <1>8, <2>1, <3>1, <3>2
    <2>4. frames' = frames \o <<h>> BY <1>2, <2>3
    <2>5. err' = "none" /\ lo' = l.lo
        <3>1. l.found # <<>> BY <1>17
        <3>2. QED BY <1>2, <3>1
    <2>6. ASSUME ~cut', mode # "length"
          PROVE  At(lo', err', Append(Returned, <<h.first, h.last>>)) /\ Trimmed(h)
        <3>1. <<g>> # <<>> /\ \A k : <<k>> = <<g>> => k = g OBVIOUS
        <3>2. Trimmed(g) /\ At(l.lo, "none", Append(Returned, <<g.first, g.last>>))
            BY <1>14, <1>17, <2>6, <3>1
        <3>3. Trimmed(h) BY <2>2, <3>2 DEF Trimmed
        <3>4. At(lo', err', Append(Returned, <<h.first, h.last>>)) BY <2>2, <2>5, <3>2
        <3>5. QED BY <3>3, <3>4
    <2>7. QED BY <1>2, <1>13, <2>2, <2>4, <2>6, BufferSpan, ScanInvMore
<1>18. QED BY <1>12, <1>16, <1>17

\* At the start nothing is scanned and nothing returned.
LEMMA InitScan == Init => ScanInv
<1> SUFFICES ASSUME Init PROVE ScanInv OBVIOUS
<1>1. stream \in Streams /\ lo = 1 /\ frames = <<>> /\ err = "none"
      /\ mode \in {"newline", "sync", "length"}
    BY FrameConstants DEF Init
<1>2. Returned = <<>> /\ TrimmedAll BY <1>1 DEF Returned, TrimmedAll
<1>3. ASSUME mode # "length", NEW f, IsScan(f) PROVE f[lo - 1] = <<Begin(lo), Returned>>
    <2>1. f[0] = ScanStart BY <1>1, <1>3, ScanSteps
    <2>2. lo - 1 = 0 /\ Begin(lo) = IF mode = "newline" THEN 1 ELSE 0 BY <1>1 DEF Begin
    <2>3. QED BY <1>2, <2>1, <2>2 DEF ScanStart
<1>4. mode # "length" => At(lo, err, Returned) BY <1>1, <1>3 DEF At, ScannedTo
<1>5. QED BY <1>1, <1>2, <1>4 DEF ScanInv

\* The buffer always begins where the scan is (ScanInv).
THEOREM ScanInvariance == Spec => []ScanInv
<1>1. IInv /\ IInv' /\ ScanInv /\ [Next]_vars => ScanInv'
    <2> SUFFICES ASSUME IInv, IInv', ScanInv, [Next]_vars PROVE ScanInv' OBVIOUS
    <2>1. CASE ReturnFrame BY <2>1, ReturnFrameScan
    <2>2. ASSUME NEW n \in 0 .. ReadSize, NEW e \in {"none", "EOF", "EIO"}, ReadMore(n, e)
          PROVE  ScanInv'
        BY <2>2, ReadMoreScan
    <2>3. CASE UNCHANGED vars
        <3>1. /\ stream' = stream /\ mode' = mode /\ frames' = frames /\ cut' = cut
              /\ lo' = lo /\ err' = err
            BY <2>3 DEF vars
        <3>2. ~cut' /\ mode # "length" => At(lo', err', Returned) BY <3>1 DEF ScanInv
        <3>3. QED BY <3>1, <3>2, ScanInvKept
    <2>4. QED BY <2>1, <2>2, <2>3 DEF Next
<1>2. QED BY <1>1, InitScan, FrameInvariance, PTL DEF Spec

\* However the stream is cut into reads, ReadNextFrame returns the frames that a
\* byte-by-byte scan of the whole stream finds, in order, and at its end all of them.
THEOREM FramesAsScanned == Spec => []ChunkingIrrelevant
<1>1. IInv /\ ScanInv => ChunkingIrrelevant
    <2> SUFFICES ASSUME IInv, ScanInv, ~cut, mode # "length"
                 PROVE  /\ IsPrefix(Returned, Scan[Len(stream)][2])
                        /\ err = "EOF" => Returned = Scan[Len(stream)][2]
                        /\ mode = "newline" => \A i \in DOMAIN frames :
                             /\ \A p \in frames[i].to .. (frames[i].last - 1) : stream[p] = CR
                             /\ frames[i].to > frames[i].from => stream[frames[i].to - 1] # CR
        BY DEF ChunkingIrrelevant, Returned
    <2>1. At(lo, err, Returned) /\ TrimmedAll BY DEF ScanInv
    <2>2. stream \in Streams /\ IsScan(Scan) BY BufferSpan, ScanExists
    <2>3. Scan[lo - 1] = <<Begin(lo), Returned>> /\ (err = "EOF" => Scan[Len(stream)][2] = Returned)
        <3>1. (Len(stream) + 1) - 1 = Len(stream) BY BufferSpan
        <3>2. err = "EOF" => Scan[(Len(stream) + 1) - 1][2] = Returned BY <2>1, <2>2 DEF At, Finds
        <3>3. QED BY <2>1, <2>2, <3>1, <3>2 DEF At, ScannedTo
    <2>4. IsPrefix(Returned, Scan[Len(stream)][2])
        <3>1. PICK a, f : a = lo - 1 /\ f = Scan OBVIOUS
        <3>2. a \in Nat /\ a <= Len(stream) BY <3>1, BufferSpan
        <3>3. IsPrefix(f[a][2], f[Len(stream)][2]) BY <2>2, <3>1, <3>2, ScanGrows
        <3>4. f[a][2] = Returned BY <2>3, <3>1
        <3>5. QED BY <3>1, <3>3, <3>4
    <2>5. QED BY <2>1, <2>3, <2>4 DEF TrimmedAll, Trimmed
<1>2. QED BY <1>1, ScanInvariance, FrameInvariance, PTL
=============================================================================
