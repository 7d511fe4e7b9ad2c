----------------------------- MODULE JsonlFile -----------------------------
(***************************************************************************)
(* JsonlSink and export/jsonl.go: workers write lines through one buffered *)
(* writer (bufio, external) to a file.  A line is a sequence of cells, the *)
(* last one (number 0) its newline.  Writes to the file may stop short;    *)
(* the process may be killed.                                              *)
(***************************************************************************)
EXTENDS Naturals, Sequences, SequencesExt

CONSTANTS Workers, Lines,  \* each worker writes the lines in Lines[w], by length in cells
          BufferSize       \* cells of the buffer (64 KiB)

ASSUME JsonlConstants == Lines \in [Workers -> Seq(Nat)] /\ BufferSize \in Nat

VARIABLES next,      \* per worker: lines handed to WriteRecord so far
          half,      \* the lock jw.mu: a worker that has written its data, not its newline
          buf, ioErr, file, isOpen,
          sent,      \* cells of the lines whose WriteRecord returned nil
          failed,    \* some WriteRecord returned an error
          closeRes   \* result of Close: "none", "nil", "error", or "killed"
jsonlVars == <<next, half, buf, ioErr, file, isOpen, sent, failed, closeRes>>

JsonlInit ==
  /\ next = [w \in Workers |-> 0] /\ half = {}
  /\ buf = <<>> /\ ioErr = FALSE /\ file = <<>> /\ isOpen = TRUE
  /\ sent = <<>> /\ failed = FALSE /\ closeRes = "none"

Data(w, i) == [k \in 1..Lines[w][i] |-> <<w, i, k>>]

-----------------------------------------------------------------------------
(* bufio.Writer: an error of the file is remembered and stops everything after it *)

\* Out goes to the file, whole or in part with an error; rest stays buffered.
FileWrite(out, rest) ==
  \/ isOpen /\ file' = file \o out /\ buf' = rest /\ UNCHANGED ioErr
  \/ \E k \in 0..(Len(out) - 1) :
       /\ isOpen \/ k = 0
       /\ file' = file \o SubSeq(out, 1, k)
       /\ buf' = SubSeq(out, k + 1, Len(out)) \o rest /\ ioErr' = TRUE

\* Write(p): in the buffer if it fits; else the buffer is filled and written out, and
\* what is left goes to the buffer, or straight to the file when it is larger.
BufWrite(p) ==
  LET all  == buf \o p
      out  == IF buf = <<>> THEN Len(p) ELSE BufferSize
      left == Len(all) - out
  IN CASE ioErr -> UNCHANGED <<file, buf, ioErr>>
       [] ~ioErr /\ Len(all) <= BufferSize -> buf' = all /\ UNCHANGED <<file, ioErr>>
       [] OTHER -> IF left > BufferSize
                   THEN FileWrite(all, <<>>)
                   ELSE FileWrite(SubSeq(all, 1, out), SubSeq(all, out + 1, Len(all)))

\* Flush: nothing to do, the remembered error, or one write.
BufFlush ==
  IF ioErr \/ buf = <<>> THEN UNCHANGED <<file, buf, ioErr>> ELSE FileWrite(buf, <<>>)

-----------------------------------------------------------------------------

\* Mutant: no lock is held between the data and the newline.
WriteDataUnlocked(w) ==
  /\ closeRes = "none" /\ w \notin half /\ next[w] < Len(Lines[w])
  /\ next' = [next EXCEPT ![w] = @ + 1]
  /\ BufWrite(Data(w, next[w] + 1))
  /\ half' = IF ioErr' THEN half ELSE half \cup {w}
  /\ failed' = (failed \/ ioErr')
  /\ UNCHANGED <<isOpen, sent, closeRes>>

\* WriteRecord under jw.mu: the data; an error returns at once.
WriteData(w) ==
  /\ closeRes = "none" /\ half = {} /\ next[w] < Len(Lines[w])
  /\ next' = [next EXCEPT ![w] = @ + 1]
  /\ BufWrite(Data(w, next[w] + 1))
  /\ half' = IF ioErr' THEN {} ELSE {w}
  /\ failed' = (failed \/ ioErr')
  /\ UNCHANGED <<isOpen, sent, closeRes>>

\* Then the newline.
WriteNewline(w) ==
  /\ closeRes = "none" /\ w \in half /\ half' = half \ {w}
  /\ BufWrite(<<<<w, next[w], 0>>>>)
  /\ IF ioErr' THEN failed' = TRUE /\ UNCHANGED sent
               ELSE sent' = sent \o Append(Data(w, next[w]), <<w, next[w], 0>>)
                    /\ UNCHANGED failed
  /\ UNCHANGED <<next, isOpen, closeRes>>

\* Mutant: Close closes the file without flushing.
CloseNoFlush ==
  /\ closeRes = "none" /\ half = {} /\ \A w \in Workers : next[w] = Len(Lines[w])
  /\ isOpen' = FALSE /\ closeRes' = IF ioErr THEN "error" ELSE "nil"
  /\ UNCHANGED <<next, half, sent, failed, file, buf, ioErr>>

\* The engine closes its sinks when the workers have ended: flush, then close.
SinkClose ==
  /\ closeRes = "none" /\ half = {} /\ \A w \in Workers : next[w] = Len(Lines[w])
  /\ BufFlush
  /\ isOpen' = FALSE /\ closeRes' = IF ioErr' THEN "error" ELSE "nil"
  /\ UNCHANGED <<next, half, sent, failed>>

\* The process ends without Close: the tools leave through os.Exit when Start fails.
Kill ==
  /\ closeRes = "none" /\ closeRes' = "killed" /\ isOpen' = FALSE
  /\ UNCHANGED <<next, half, buf, ioErr, file, sent, failed>>

JsonlNext == (\E w \in Workers : WriteData(w) \/ WriteNewline(w)) \/ SinkClose \/ Kill
JsonlSpec == JsonlInit /\ [][JsonlNext]_jsonlVars

-----------------------------------------------------------------------------
(* Properties *)

\* What a reader of the file sees as complete lines.
IsNewline(c) == c[3] = 0
LineEnds == {i \in DOMAIN file : IsNewline(file[i])}

\* Each worker's line stays in one piece: in the file, at any moment, with short writes
\* and after a kill, every newline closes a whole line of one worker, and a worker's
\* lines come in its order.
LinesWhole ==
  \A i \in LineEnds :
    LET line == Append(Data(file[i][1], file[i][2]), file[i])
    IN /\ i >= Len(line) /\ SubSeq(file, i - Len(line) + 1, i) = line
       /\ \A j \in LineEnds : j < i /\ file[j][1] = file[i][1] => file[j][2] < file[i][2]

\* If Close returns nil every line whose WriteRecord returned nil is in the file, and
\* nothing else: an error of the file at any earlier time reaches the caller of Close.
CloseReportsLoss == closeRes = "nil" => file = sent /\ ~failed
=============================================================================
