----------------------------- MODULE MappedFile -----------------------------
(***************************************************************************)
(* mmap/mmap.go and its two users, ParseELFMmap and ParseFLXMmap: a file   *)
(* is opened, mapped or read as a fallback, parsed, sliced and closed, the *)
(* last perhaps more than once.  Sums of machine integers wrap around.      *)
(***************************************************************************)
EXTENDS Integers

CONSTANT IntMax   \* the largest int (2^63 - 1)
ASSUME IntMaxAssumption == IntMax \in Nat

Ints == (-IntMax - 1)..IntMax
\* The sum of two machine integers.
Wrap(x) == ((x + IntMax + 1) % (2 * (IntMax + 1))) - IntMax - 1

VARIABLES pc,        \* "closed", "open" (the caller has the *File), "failed"
          size,      \* of the file
          fd,        \* the descriptor is open
          mapped,    \* the kernel has the mapping
          isMapped, handle, len,  \* fields isMapped, file # nil, len(data)
          unmaps,    \* calls of munmap
          slice      \* last result of Slice: [res, from, to]
mapVars == <<pc, size, fd, mapped, isMapped, handle, len, unmaps, slice>>

NoSlice == [res |-> "none", from |-> 0, to |-> 0]

MapInit ==
  /\ pc = "new" /\ size \in 0..IntMax /\ fd = FALSE /\ mapped = FALSE
  /\ isMapped = FALSE /\ handle = FALSE /\ len = 0 /\ unmaps = 0 /\ slice = NoSlice

\* os.Open, or Stat or the fallback after it, fails: no File, nothing left open.
OpenFails ==
  /\ pc = "new" /\ pc' = "failed"
  /\ UNCHANGED <<size, fd, mapped, isMapped, handle, len, unmaps, slice>>

\* An empty file is not mapped; any other is, or is read into a buffer if that fails.
Open ==
  /\ pc = "new" /\ pc' = "parse"
  /\ fd' = TRUE /\ handle' = TRUE /\ len' = size
  /\ isMapped' \in IF size = 0 THEN {FALSE} ELSE BOOLEAN
  /\ mapped' = isMapped'
  /\ UNCHANGED <<size, unmaps, slice>>

\* Close, whatever was done before; munmap may report an error, with the same effect on f.
CloseFile ==
  /\ IF isMapped /\ len > 0
     THEN /\ unmaps' = unmaps + 1 /\ mapped' \in {FALSE, mapped}
          /\ isMapped' = FALSE /\ len' = 0
     ELSE UNCHANGED <<unmaps, mapped, isMapped, len>>
  /\ fd' = IF handle THEN FALSE ELSE fd
  /\ handle' = FALSE

\* Mutant: a file that cannot be parsed stays open.
ParseKeepsFile ==
  /\ pc = "parse"
  /\ pc' \in {"open", "failed"}
  /\ UNCHANGED <<size, fd, mapped, isMapped, handle, len, unmaps, slice>>

\* ParseELFMmap, ParseFLXMmap: the File goes to the caller, or is closed on an error.
Parse ==
  /\ pc = "parse"
  /\ \/ pc' = "open" /\ UNCHANGED <<fd, mapped, isMapped, handle, len, unmaps>>
     \/ pc' = "failed" /\ CloseFile
  /\ UNCHANGED <<size, slice>>

Close ==
  /\ pc \in {"open", "closed"} /\ pc' = "closed" /\ CloseFile
  /\ UNCHANGED <<size, slice>>

\* f.data[offset : end] with the bounds check of the language behind the one of Slice.
Slice(offset, length) ==
  LET end == Wrap(offset + length)
  IN /\ pc \in {"open", "closed"}
     /\ slice' = [res |-> IF offset < 0 \/ length < 0 \/ end > len THEN "error"
                          ELSE IF offset > end THEN "panic" ELSE "ok",
                  from |-> offset, to |-> offset + length]
     /\ UNCHANGED <<pc, size, fd, mapped, isMapped, handle, len, unmaps>>

MapNext == OpenFails \/ Open \/ Parse \/ Close \/ \E offset, length \in Ints : Slice(offset, length)
MapSpec == MapInit /\ [][MapNext]_mapVars

-----------------------------------------------------------------------------
(* Properties *)

\* Whether it was mapped or read, parsed or not, and however often it is closed: the
\* descriptor is open exactly while a caller may use the File; the mapping is unmapped
\* at most once, and never through a File that still shows its bytes.
ReleasedOnce ==
  /\ fd <=> pc \in {"parse", "open"}
  /\ unmaps <= 1 /\ (unmaps = 1 => len = 0 /\ ~isMapped)
  /\ mapped /\ pc \in {"closed", "failed"} => unmaps = 1

\* Every slice that was returned lay inside the file, for every pair of arguments, the
\* ones whose sum exceeds the integers too.
SliceWithinFile == slice.res = "ok" => 0 <= slice.from /\ slice.from <= slice.to /\ slice.to <= size

\* Both, for a File in any state.
FileIsSafe == ReleasedOnce /\ SliceWithinFile
=============================================================================
