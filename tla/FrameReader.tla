---------------------------- MODULE FrameReader ----------------------------
(***************************************************************************)
(* hw/serial.go: frames cut out of a byte stream that arrives in chunks.   *)
(* The buffer fr.buf always holds consecutive bytes of the stream, so it   *)
(* is three numbers: it holds the positions lo..hi-1, the first of them in *)
(* cell off of the array behind the slice.  Frames are returned as slices  *)
(* of that array, without a copy: mem says which position each cell holds. *)
(***************************************************************************)
EXTENDS Integers, Sequences, SequencesExt, FiniteSetsExt

CONSTANTS Streams,       \* the byte sequences considered
          Modes,         \* subset of {"newline", "sync", "length"}
          SOF, EOF, NL, CR,
          MaxFrameSize,
          ReadSize       \* bytes per Read (512 in the code)

ASSUME FrameConstants ==
  /\ MaxFrameSize \in Nat \ {0} /\ ReadSize \in Nat \ {0}
  /\ \A s \in Streams : s \in Seq(Nat)
  /\ Modes \subseteq {"newline", "sync", "length"}

VARIABLES stream, mode,
          lo, hi, off,   \* the slice fr.buf
          arr, cap, mem, \* the array behind it: how many there were, its size, its cells
          frames,        \* frames returned so far; SeqNum is the index
          cut,           \* the overflow guard has dropped bytes
          err            \* "none" until ReadNextFrame returns "EOF" or "EIO"
vars == <<stream, mode, lo, hi, off, arr, cap, mem, frames, cut, err>>

Init ==
  /\ stream \in Streams /\ mode \in Modes
  /\ lo = 1 /\ hi = 1 /\ off = 0
  /\ arr = 1 /\ cap = 2 * MaxFrameSize /\ mem = [c \in 0..(2 * MaxFrameSize - 1) |-> 0]
  /\ frames = <<>> /\ cut = FALSE /\ err = "none"

\* bytes.IndexByte: the first position of byte x in a..b-1, or 0.
IndexByte(x, a, b) ==
  IF \E p \in a..(b - 1) : stream[p] = x
  THEN CHOOSE p \in a..(b - 1) : stream[p] = x /\ \A q \in a..(p - 1) : stream[q] # x
  ELSE 0

\* bytes.TrimRight(.., "\r"): the end of a..b-1 without its trailing CRs.
TrimRight(a, b) ==
  CHOOSE e \in a..b : (\A p \in e..(b - 1) : stream[p] = CR) /\ (e > a => stream[e - 1] # CR)

\* A frame: its raw bytes first..last, its payload from..to-1, and where they lie.
Frame(first, last, from, to, cell) ==
  [first |-> first, last |-> last, from |-> from, to |-> to, arr |-> arr, cell |-> cell]

\* Mutant: the start byte is discarded along with the garbage before it.
SyncStartBehind(a, b) == IF IndexByte(SOF, a, b) = 0 THEN b ELSE IndexByte(SOF, a, b) + 1

\* Where the buffer starts once the garbage before a start byte is discarded.
SyncStart(a, b) == IF IndexByte(SOF, a, b) = 0 THEN b ELSE IndexByte(SOF, a, b)

\* tryExtractFrame on the buffer a..b-1 in cell c: the frames found (none or one), and
\* the start of the buffer afterwards.  Mode "length" has no case.
TryExtractFrame(a, b, c) ==
  LET nl  == IndexByte(NL, a, b)
      sof == IndexByte(SOF, a, b)
      eof == IndexByte(EOF, sof + 1, b)
  IN CASE mode = "newline" /\ nl # 0 ->
            [found |-> <<Frame(a, nl, a, TrimRight(a, nl), c)>>, lo |-> nl + 1, off |-> c + nl + 1 - a]
       [] mode = "sync" /\ (sof = 0 \/ eof = 0) ->
            [found |-> <<>>, lo |-> SyncStart(a, b),
             off |-> IF sof = 0 THEN c ELSE c + SyncStart(a, b) - a]
       [] mode = "sync" /\ sof # 0 /\ eof # 0 ->
            [found |-> <<Frame(sof, eof, sof + 1, eof, c + sof - a)>>,
             lo |-> eof + 1, off |-> c + eof + 1 - a]
       [] OTHER -> [found |-> <<>>, lo |-> a, off |-> c]

\* ReadNextFrame finds a frame in the buffer.
ReturnFrame ==
  LET t == TryExtractFrame(lo, hi, off)
  IN /\ err = "none" /\ t.found # <<>>
     /\ frames' = frames \o t.found /\ lo' = t.lo /\ off' = t.off
     /\ UNCHANGED <<stream, mode, hi, arr, cap, mem, cut, err>>

\* Mutant: what is left of the buffer is moved to the start of its array.
AppendBytesToFront(a, c, n) ==
  LET need == hi + n - a
  IN IF need <= cap
     THEN /\ mem' = [k \in 0..(cap - 1) |-> IF k < need THEN a + k ELSE mem[k]]
          /\ UNCHANGED <<arr, cap>>
     ELSE /\ arr' = arr + 1 /\ cap' \in {need, 2 * need}
          /\ mem' = [k \in 0..(cap' - 1) |-> IF k < need THEN a + k ELSE 0]

\* append(fr.buf, temp[:n]...) to the buffer a..hi-1 in cell c: in place if it fits,
\* else in a new array, at least as large as needed.
AppendBytes(a, c, n) ==
  LET need == hi + n - a
  IN IF c + need <= cap
     THEN /\ mem' = [k \in 0..(cap - 1) |->
                       IF c + hi - a <= k /\ k < c + need THEN a + k - c ELSE mem[k]]
          /\ UNCHANGED <<arr, cap>>
     ELSE /\ arr' = arr + 1 /\ cap' \in {need, 2 * need}
          /\ mem' = [k \in 0..(cap' - 1) |-> IF k < need THEN a + k ELSE 0]

\* The buffer holds none: discard, read n bytes, drop the oldest half of an overfull
\* buffer; on EOF try once more, on any other error return.
ReadMore(n, e) ==
  LET t     == TryExtractFrame(lo, hi, off)
      c     == IF t.off + hi + n - t.lo <= cap THEN t.off ELSE 0
      size  == hi + n - t.lo
      half  == IF n > 0 /\ size > 4 * MaxFrameSize THEN size \div 2 ELSE 0
      last  == IF e = "EOF" /\ size - half > 0
               THEN TryExtractFrame(t.lo + half, hi + n, c + half)
               ELSE [found |-> <<>>, lo |-> t.lo + half, off |-> c + half]
  IN /\ err = "none" /\ t.found = <<>>
     /\ hi + n <= Len(stream) + 1 /\ (e = "EOF" => hi + n = Len(stream) + 1)
     /\ AppendBytes(t.lo, t.off, n)
     /\ hi' = hi + n
     /\ cut' = (cut \/ half > 0)
     /\ frames' = frames \o [i \in DOMAIN last.found |-> [last.found[i] EXCEPT !.arr = arr']]
     /\ lo' = last.lo /\ off' = last.off
     /\ err' = IF last.found = <<>> THEN e ELSE "none"
     /\ UNCHANGED <<stream, mode>>

Next == ReturnFrame \/ \E n \in 0..ReadSize, e \in {"none", "EOF", "EIO"} : ReadMore(n, e)
Spec == Init /\ [][Next]_vars

-----------------------------------------------------------------------------
(* Reference: the frames of a whole stream, byte by byte. *)

\* What has been seen, <<start, frames>>: the first byte of the frame under way (0 outside
\* a frame), and the frames that are complete.
ScanStart == <<IF mode = "newline" THEN 1 ELSE 0, <<>>>>
ScanByte(seen, p) ==
  LET start == seen[1]
      out   == seen[2]
  IN CASE mode = "newline" /\ stream[p] = NL -> <<p + 1, Append(out, <<start, p>>)>>
       [] mode = "sync" /\ start = 0 /\ stream[p] = SOF -> <<p, out>>
       [] mode = "sync" /\ start # 0 /\ stream[p] = EOF -> <<0, Append(out, <<start, p>>)>>
       [] OTHER -> seen

\* After the first p bytes.
Scan[p \in 0..Len(stream)] == IF p = 0 THEN ScanStart ELSE ScanByte(Scan[p - 1], p)

-----------------------------------------------------------------------------
(* Properties *)

\* However the stream is cut into reads, also in the middle of a frame, and with data
\* and end of file together, ReadNextFrame returns the frames a byte-by-byte scan of
\* the whole stream finds, in order; at the end of the stream, all of them.
ChunkingIrrelevant ==
  ~cut /\ mode # "length" =>
    LET returned == [i \in DOMAIN frames |-> <<frames[i].first, frames[i].last>>]
        expected == Scan[Len(stream)][2]
    IN /\ IsPrefix(returned, expected)
       /\ err = "EOF" => returned = expected
       /\ mode = "newline" => \A i \in DOMAIN frames :
            /\ \A p \in frames[i].to..(frames[i].last - 1) : stream[p] = CR
            /\ frames[i].to > frames[i].from => stream[frames[i].to - 1] # CR

\* A frame's slices still hold its bytes after any number of later reads, although
\* they share the array that the reader appends to (the monitor passes them on
\* through a channel without copying).
FramesNotOverwritten ==
  \A i \in DOMAIN frames :
    frames[i].arr = arr =>
      \A k \in 0..(frames[i].last - frames[i].first) :
        mem[frames[i].cell + k] = frames[i].first + k

\* Inductive invariant: the buffer's cells hold its positions, and the frames of the
\* current array lie before it.
BufferOK ==
  /\ lo \in Nat /\ hi \in Nat /\ off \in Nat /\ arr \in Nat /\ cap \in Nat
  /\ 1 <= lo /\ lo <= hi /\ hi <= Len(stream) + 1 /\ off + (hi - lo) <= cap
  /\ mem \in [0..(cap - 1) -> Nat]
  /\ \A k \in 0..(hi - lo - 1) : mem[off + k] = lo + k
FrameOK(f) ==
  /\ f.first \in Nat /\ f.last \in Nat /\ f.arr \in Nat /\ f.cell \in Nat
  /\ 1 <= f.first /\ f.first <= f.last /\ f.last < lo /\ f.arr <= arr
  /\ f.arr = arr => f.cell + (f.last - f.first) < off
FramesInv ==
  /\ frames \in Seq([first : Nat, last : Nat, from : Nat, to : Nat, arr : Nat, cell : Nat])
  /\ \A i \in DOMAIN frames : FrameOK(frames[i])
IInv == stream \in Streams /\ BufferOK /\ FramesInv /\ FramesNotOverwritten
=============================================================================
