------------------------ MODULE BinaryFiles_proofs ------------------------
(***************************************************************************)
(* Binary files: a mapped file is released once and its slices lie inside  *)
(* it; the ELF parser reports what was linked and the FLX parser what was  *)
(* compiled, for every file of the kinds that the modules describe.        *)
(***************************************************************************)
EXTENDS MappedFile, ElfFile, FlxFile, SequenceTheorems, TLAPS, NaturalsInduction,
        WellFoundedInduction

-----------------------------------------------------------------------------
(* Mapped files: arithmetic that wraps.                                    *)

\* A sum of two integers that are not negative wraps below both, when it wraps.
LEMMA WrappedSum ==
    ASSUME NEW m \in Nat, NEW x \in 0 .. m, NEW y \in 0 .. m
    PROVE  ((x + y + m + 1) % (2 * (m + 1))) - m - 1 =
             IF x + y <= m THEN x + y ELSE x + y - 2 * (m + 1)
<1>1. PICK d \in Nat : d = 2 * (m + 1) /\ d > 0
  OBVIOUS
<1>2. CASE x + y <= m
  <2>1. PICK z \in Nat : z = x + y + m + 1 /\ z < d
    BY <1>1, <1>2
  <2>2. z % d = z
    BY <1>1, <2>1, SMT
  <2> QED
    BY <1>1, <1>2, <2>1, <2>2
<1>3. CASE x + y > m
  <2>1. PICK z \in Nat : z = x + y + m + 1 /\ d <= z /\ z < 2 * d
    BY <1>1, <1>3
  <2>2. z % d = z - d
    BY <1>1, <2>1, SMT
  <2> QED
    BY <1>1, <1>3, <2>1, <2>2
<1> QED
  BY <1>2, <1>3

-----------------------------------------------------------------------------
(* The inductive invariant.                                                *)

MapTypeOK ==
    /\ pc \in {"new", "parse", "open", "closed", "failed"}
    /\ size \in 0 .. IntMax /\ len \in {0, size} /\ unmaps \in Nat
    /\ fd \in BOOLEAN /\ mapped \in BOOLEAN /\ isMapped \in BOOLEAN /\ handle \in BOOLEAN

\* The handle says whether the descriptor is open, and the field isMapped whether the
\* kernel has the mapping: it is unmapped when the field is cleared.
HeldInv ==
    /\ fd <=> pc \in {"parse", "open"}
    /\ handle <=> fd
    /\ pc = "new" => unmaps = 0
    /\ isMapped => mapped /\ len # 0 /\ unmaps = 0 /\ fd
    /\ ~isMapped => unmaps <= 1 /\ (mapped => unmaps = 1) /\ (unmaps = 1 => len = 0)

MapInv == MapTypeOK /\ HeldInv /\ SliceWithinFile

\* Close releases what is held, and nothing twice.
LEMMA CloseFileHeld ==
    ASSUME MapTypeOK, HeldInv, CloseFile, pc' \in {"closed", "failed"}, UNCHANGED size
    PROVE  MapTypeOK' /\ HeldInv'
<1>1. pc' \in {"closed", "failed"} /\ size' = size
  OBVIOUS
<1>2. fd' = FALSE /\ handle' = FALSE
  BY DEF CloseFile, HeldInv, MapTypeOK
<1>3. CASE isMapped
  <2>1. len > 0
    BY <1>3 DEF HeldInv, MapTypeOK
  <2>2. /\ unmaps' = unmaps + 1 /\ mapped' \in {FALSE, mapped}
        /\ isMapped' = FALSE /\ len' = 0
    BY <1>3, <2>1 DEF CloseFile
  <2>3. unmaps = 0
    BY <1>3 DEF HeldInv
  <2>4. mapped' \in BOOLEAN
    BY <2>2 DEF MapTypeOK
  <2>5. MapTypeOK'
    <3>1. unmaps' \in Nat /\ len' \in {0, size'} /\ size' \in 0 .. IntMax
      BY <1>1, <2>2, <2>3 DEF MapTypeOK
    <3> QED
      BY <1>1, <1>2, <2>2, <2>4, <3>1 DEF MapTypeOK
  <2>6. unmaps' = 1
    BY <2>2, <2>3
  <2>7. HeldInv'
    BY <1>1, <1>2, <2>2, <2>6 DEF HeldInv
  <2> QED
    BY <2>5, <2>7
<1>4. CASE ~isMapped
  <2>1. unmaps' = unmaps /\ mapped' = mapped /\ isMapped' = isMapped /\ len' = len
    BY <1>4 DEF CloseFile
  <2> QED
    BY <1>1, <1>2, <1>4, <2>1 DEF MapTypeOK, HeldInv
<1> QED
  BY <1>3, <1>4 DEF MapTypeOK

\* A slice that is returned lies inside the data: a sum that wraps is below the offset.
LEMMA SliceInside ==
    ASSUME MapTypeOK, NEW offset \in Ints, NEW length \in Ints, Slice(offset, length)
    PROVE  SliceWithinFile'
<1> SUFFICES ASSUME slice'.res = "ok"
             PROVE  /\ 0 <= slice'.from /\ slice'.from <= slice'.to /\ slice'.to <= size'
  BY DEF SliceWithinFile
<1>1. IntMax \in Nat /\ offset \in Int /\ length \in Int /\ offset <= IntMax /\ length <= IntMax
  BY IntMaxAssumption DEF Ints
<1>2. PICK end : end = Wrap(offset + length)
  OBVIOUS
<1>3. slice' = [res |-> IF offset < 0 \/ length < 0 \/ end > len THEN "error"
                        ELSE IF offset > end THEN "panic" ELSE "ok",
                from |-> offset, to |-> offset + length] /\ size' = size
  BY <1>2 DEF Slice
<1>4. ~(offset < 0) /\ ~(length < 0) /\ ~(end > len) /\ ~(offset > end)
  BY <1>3
<1>5. offset \in 0 .. IntMax /\ length \in 0 .. IntMax
  BY <1>1, <1>4
<1>6. end = ((offset + length + IntMax + 1) % (2 * (IntMax + 1))) - IntMax - 1
  BY <1>2 DEF Wrap
<1>7. end = IF offset + length <= IntMax THEN offset + length
            ELSE offset + length - 2 * (IntMax + 1)
  BY <1>1, <1>5, <1>6, WrappedSum
<1>8. len <= size /\ len \in Nat /\ size \in Nat
  BY <1>1 DEF MapTypeOK
<1> QED
  BY <1>1, <1>3, <1>4, <1>5, <1>7, <1>8

\* Every step keeps the invariant.
LEMMA MapStep == MapInv /\ [MapNext]_mapVars => MapInv'
<1> SUFFICES ASSUME MapInv, [MapNext]_mapVars PROVE MapInv'
  OBVIOUS
<1> USE DEF MapInv
<1>1. CASE OpenFails
  BY <1>1 DEF OpenFails, MapTypeOK, HeldInv, SliceWithinFile
<1>2. CASE Open
  <2>1. /\ pc = "new" /\ pc' = "parse" /\ fd' = TRUE /\ handle' = TRUE /\ len' = size
        /\ isMapped' \in (IF size = 0 THEN {FALSE} ELSE BOOLEAN) /\ mapped' = isMapped'
        /\ size' = size /\ unmaps' = unmaps /\ slice' = slice
    BY <1>2 DEF Open
  <2>2. size # 0 \/ isMapped' = FALSE
    BY <2>1
  <2>3. isMapped' \in BOOLEAN /\ mapped' \in BOOLEAN
    BY <2>1
  <2>4. ~isMapped /\ unmaps = 0
    BY <2>1 DEF HeldInv
  <2>5. MapTypeOK' /\ HeldInv'
    BY <2>1, <2>2, <2>3, <2>4 DEF MapTypeOK, HeldInv
  <2> QED
    BY <2>1, <2>5 DEF SliceWithinFile
<1>3. CASE Parse /\ pc' = "open"
  BY <1>3 DEF Parse, MapTypeOK, HeldInv, SliceWithinFile, CloseFile
<1>4. CASE (Parse /\ pc' = "failed") \/ Close
  <2>1. CloseFile /\ pc' \in {"closed", "failed"} /\ UNCHANGED size /\ slice' = slice
    BY <1>4 DEF Parse, Close
  <2> QED
    BY <2>1, CloseFileHeld DEF SliceWithinFile
<1>5. ASSUME NEW offset \in Ints, NEW length \in Ints, Slice(offset, length)
      PROVE  MapInv'
  <2>1. UNCHANGED <<pc, size, fd, mapped, isMapped, handle, len, unmaps>>
    BY <1>5 DEF Slice
  <2>2. MapTypeOK' /\ HeldInv'
    BY <2>1 DEF MapTypeOK, HeldInv
  <2> QED
    BY <1>5, <2>2, SliceInside
<1>6. CASE UNCHANGED mapVars
  BY <1>6 DEF mapVars, MapTypeOK, HeldInv, SliceWithinFile
<1>7. Parse => pc' = "open" \/ pc' = "failed"
  BY DEF Parse
<1> QED
  BY <1>1, <1>2, <1>3, <1>4, <1>5, <1>6, <1>7 DEF MapNext

-----------------------------------------------------------------------------
(* Theorems.                                                               *)

\* In every state the fields of the File say what it still has to release.
THEOREM MapInvariance == MapSpec => []MapInv
<1>1. MapInit => MapInv
  <2> SUFFICES ASSUME MapInit PROVE MapInv
    OBVIOUS
  <2>1. /\ pc = "new" /\ size \in 0 .. IntMax /\ fd = FALSE /\ mapped = FALSE
        /\ isMapped = FALSE /\ handle = FALSE /\ len = 0 /\ unmaps = 0 /\ slice = NoSlice
    BY DEF MapInit
  <2>2. MapTypeOK /\ HeldInv
    <3>1. unmaps \in Nat /\ unmaps <= 1 /\ len \in {0, size}
      BY <2>1
    <3> QED
      BY <2>1, <3>1 DEF MapTypeOK, HeldInv
  <2>3. SliceWithinFile
    BY <2>1 DEF SliceWithinFile, NoSlice
  <2> QED
    BY <2>2, <2>3 DEF MapInv
<1> QED
  BY <1>1, MapStep, PTL DEF MapSpec

\* However a file is opened, parsed and closed, it is released once; and every slice
\* that was returned lay inside it, whatever the arguments.
THEOREM MapFileIsSafe == MapSpec => []FileIsSafe
<1>1. MapInv => FileIsSafe
  <2> SUFFICES ASSUME MapInv PROVE ReleasedOnce
    BY DEF MapInv, FileIsSafe
  <2>1. HeldInv
    BY DEF MapInv
  <2> QED
    BY <2>1 DEF HeldInv, ReleasedOnce
<1> QED
  BY <1>1, MapInvariance, PTL

-----------------------------------------------------------------------------
(* Recursive functions.                                                    *)

\* A non-empty set of numbers has a least one.
LEMMA NatMin ==
    ASSUME NEW S \in SUBSET Nat, S # {}
    PROVE  \E m \in S : \A k \in S : m <= k
<1>1. PICK m \in S : \A k \in S : <<k, m>> \notin OpToRel(<, Nat)
    <2>1. \A s \in SUBSET Nat : s # {} =>
              \E x \in s : \A y \in s : ~ (<<y, x>> \in OpToRel(<, Nat))
        BY WFMin, NatLessThanWellFounded
    <2>2. QED BY <2>1
<1>2. ASSUME NEW k \in S PROVE m <= k
    <2>1. k \in Nat /\ m \in Nat OBVIOUS
    <2>2. ~(k < m) BY <1>1, <2>1, Zenon DEF OpToRel
    <2>3. QED BY <2>1, <2>2
<1>3. QED BY <1>2

\* Counting from 0 to n stays in a set that each number leads to the next.
LEMMA UpTo ==
    ASSUME NEW S, NEW n \in Nat, 0 \in S, \A k \in 0 .. n : k < n /\ k \in S => k + 1 \in S
    PROVE  0 .. n \subseteq S
<1> SUFFICES ASSUME (0 .. n) \ S # {} PROVE FALSE OBVIOUS
<1>1. (0 .. n) \ S \in SUBSET Nat OBVIOUS
<1>2. PICK m \in (0 .. n) \ S : \A k \in (0 .. n) \ S : m <= k BY <1>1, NatMin
<1>3. m \in Nat /\ 0 < m /\ m <= n
    <2>1. m # 0 OBVIOUS
    <2>2. QED BY <2>1
<1>4. m - 1 \in 0 .. n /\ m - 1 < m /\ m - 1 < n BY <1>3
<1>5. m - 1 \in S BY <1>2, <1>3, <1>4
<1>6. (m - 1) + 1 \in S BY <1>4, <1>5
<1>7. (m - 1) + 1 = m BY <1>3
<1>8. QED BY <1>6, <1>7

\* f begins with a and goes on with what step gives of the value before.
Iterates(f, n, a, step) == f = [i \in 0 .. n |-> IF i = 0 THEN a ELSE step[i][f[i - 1]]]

\* Such a recursion has a solution, and its values are those that step gives.
LEMMA IterationExists ==
    ASSUME NEW n \in Nat, NEW D, NEW a \in D, NEW step \in [1 .. n -> [D -> D]]
    PROVE  \E f \in [0 .. n -> D] : Iterates(f, n, a, step)
<1> DEFINE Solved(m) == \E f \in [0 .. m -> D] : Iterates(f, m, a, step)
           S == {m \in 0 .. n : Solved(m)}
<1>1. 0 \in S
    <2> DEFINE g == [i \in 0 .. 0 |-> a]
    <2>1. g = [i \in 0 .. 0 |-> IF i = 0 THEN a ELSE step[i][g[i - 1]]]
        <3>1. \A i \in 0 .. 0 : i = 0 OBVIOUS
        <3>2. QED BY <3>1
    <2>2. g \in [0 .. 0 -> D] OBVIOUS
    <2>3. Solved(0) BY <2>1, <2>2 DEF Iterates
    <2>4. QED BY <2>3
<1>2. ASSUME NEW m \in 0 .. n, m < n, m \in S PROVE m + 1 \in S
    <2>1. PICK g \in [0 .. m -> D] :
            g = [i \in 0 .. m |-> IF i = 0 THEN a ELSE step[i][g[i - 1]]]
        BY <1>2 DEF Iterates
    <2> DEFINE h == [i \in 0 .. (m + 1) |-> IF i = m + 1 THEN step[m + 1][g[m]] ELSE g[i]]
               k == [i \in 0 .. (m + 1) |-> IF i = 0 THEN a ELSE step[i][h[i - 1]]]
    <2>2. m \in Nat /\ m + 1 \in 1 .. n BY <1>2
    <2>3. g[m] \in D /\ step[m + 1][g[m]] \in D
        <3>1. g[m] \in D BY <2>1, <2>2
        <3>2. QED BY <2>2, <3>1
    <2>4. h \in [0 .. (m + 1) -> D]
        <3>1. ASSUME NEW i \in 0 .. (m + 1) PROVE h[i] \in D
            <4>1. i = m + 1 \/ i \in 0 .. m BY <2>2
            <4>2. CASE i = m + 1 BY <2>3, <4>2
            <4>3. CASE i \in 0 .. m /\ i # m + 1 BY <2>1, <4>3
            <4>4. QED BY <4>1, <4>2, <4>3
        <3>2. QED BY <3>1
    <2>5. ASSUME NEW i \in 0 .. (m + 1) PROVE h[i] = k[i]
        <3>1. CASE i = m + 1
            <4>1. i # 0 /\ i - 1 = m /\ m \in 0 .. (m + 1) /\ m # m + 1 BY <2>2, <3>1
            <4>2. h[m] = g[m] BY <4>1
            <4>3. k[i] = step[m + 1][h[m]] BY <3>1, <4>1
            <4>4. QED BY <3>1, <4>2, <4>3
        <3>2. CASE i = 0
            <4>1. 0 \in 0 .. m /\ 0 # m + 1 BY <2>2
            <4>2. h[i] = g[0] /\ g[0] = a BY <2>1, <3>2, <4>1
            <4>3. QED BY <3>2, <4>2
        <3>3. CASE i # m + 1 /\ i # 0
            <4>1. i \in 0 .. m /\ i - 1 \in 0 .. m /\ i - 1 \in 0 .. (m + 1) /\ i - 1 # m + 1
                BY <2>2, <3>3
            <4>2. h[i] = g[i] /\ h[i - 1] = g[i - 1] BY <3>3, <4>1
            <4>3. g[i] = step[i][g[i - 1]] BY <2>1, <3>3, <4>1
            <4>4. k[i] = step[i][h[i - 1]] BY <3>3
            <4>5. QED BY <4>2, <4>3, <4>4
        <3>4. QED BY <3>1, <3>2, <3>3
    <2>6. h = k BY <2>5
    <2>7. Solved(m + 1)
        <3> HIDE DEF h
        <3>1. QED BY <2>4, <2>6 DEF Iterates, k
    <2>8. m + 1 \in 0 .. n BY <1>2, <2>2
    <2> HIDE DEF Solved
    <2>9. QED BY <2>7, <2>8
<1>3. 0 .. n \subseteq S
    <2> HIDE DEF S
    <2>1. QED BY <1>1, <1>2, UpTo
<1>4. QED BY <1>3

-----------------------------------------------------------------------------
(* ELF: the layout of the file.                                            *)

\* The sizes of a description are numbers, and its bodies are sequences.
LEMMA LinkedTypes ==
    ASSUME NEW d, WellLinked(d)
    PROVE  /\ Len(d.segs) \in Nat /\ Len(d.secs) \in Nat /\ DOMAIN d.secs = 1 .. Len(d.secs)
           /\ PhdrSize(d.class) \in Nat /\ ShdrSize(d.class) \in Nat /\ SymSize(d.class) \in {16, 24}
           /\ PhdrEnd(d) \in Nat /\ PhdrEnd(d) > 0 /\ ShdrsSize(d) \in Nat
           /\ \A i \in 1 .. Len(d.secs) :
                /\ Len(d.secs[i].body) \in Nat /\ d.secs[i].link \in Nat /\ d.secs[i].type \in Nat
                /\ d.secs[i].name \in Seq(Char)
                /\ d.secs[i].body \in Seq(IF IsSymbolTable(d.secs[i]) THEN Symbol ELSE Nat)
                /\ BodySize(d, i) \in Nat
<1>1. Len(d.segs) \in Nat
    <2>1. d.segs \in Seq(STRING) BY DEF WellLinked
    <2>2. QED BY <2>1
<1>2. Len(d.secs) \in Nat /\ DOMAIN d.secs = 1 .. Len(d.secs) BY DEF WellLinked
<1>3. PhdrSize(d.class) \in Nat /\ ShdrSize(d.class) \in Nat /\ SymSize(d.class) \in {16, 24}
    BY DEF PhdrSize, ShdrSize, SymSize
<1>4. EhdrSize(d.class) \in {52, 64} BY DEF EhdrSize
<1>5. \A x, y \in Nat : x * y \in Nat BY SMT
<1>6. Len(d.segs) * PhdrSize(d.class) \in Nat /\ ShdrsSize(d) \in Nat
    BY <1>1, <1>2, <1>3, <1>5 DEF ShdrsSize
<1>7. PhdrEnd(d) \in Nat /\ PhdrEnd(d) > 0
    <2>1. PICK x \in Nat : x = Len(d.segs) * PhdrSize(d.class) BY <1>6
    <2>2. QED BY <1>4, <2>1 DEF PhdrEnd
<1>8. ASSUME NEW i \in 1 .. Len(d.secs)
      PROVE  /\ Len(d.secs[i].body) \in Nat /\ d.secs[i].link \in Nat /\ d.secs[i].type \in Nat
             /\ d.secs[i].name \in Seq(Char)
             /\ d.secs[i].body \in Seq(IF IsSymbolTable(d.secs[i]) THEN Symbol ELSE Nat)
             /\ BodySize(d, i) \in Nat
    <2>1. d.secs[i] \in IF IsSymbolTable(d.secs[i]) THEN Section(Symbol) ELSE Section(Nat)
        BY <1>2 DEF WellLinked
    <2>2. d.secs[i] \in Section(IF IsSymbolTable(d.secs[i]) THEN Symbol ELSE Nat)
        BY <2>1
    <2>3. /\ d.secs[i].link \in Nat /\ d.secs[i].type \in Nat /\ d.secs[i].name \in Seq(Char)
          /\ d.secs[i].body \in Seq(IF IsSymbolTable(d.secs[i]) THEN Symbol ELSE Nat)
        BY <2>2 DEF Section
    <2>4. Len(d.secs[i].body) \in Nat BY <2>3
    <2>5. (IF IsSymbolTable(d.secs[i]) THEN SymSize(d.class) ELSE 1) \in Nat BY <1>3
    <2>6. BodySize(d, i) \in Nat BY <1>5, <2>4, <2>5 DEF BodySize
    <2>7. QED BY <2>3, <2>4, <2>6
<1>9. QED BY <1>1, <1>2, <1>3, <1>6, <1>7, <1>8

\* The bodies lie one after the other, behind the program headers.
LEMMA BodyEndSteps ==
    ASSUME NEW d, WellLinked(d)
    PROVE  /\ BodyEnd(d) \in [0 .. Len(d.secs) -> Nat \ {0}]
           /\ \A i \in 1 .. Len(d.secs) : BodyEnd(d)[i] = BodyEnd(d)[i - 1] + BodySize(d, i)
<1> DEFINE n == Len(d.secs)
           a == PhdrEnd(d) + (IF d.headersFirst THEN ShdrsSize(d) ELSE 0)
           D == Nat \ {0}
           step == [i \in 1 .. n |-> [x \in D |-> x + BodySize(d, i)]]
           IsEnd(f) == f = [i \in 0 .. n |-> IF i = 0 THEN a ELSE f[i - 1] + BodySize(d, i)]
<1>1. n \in Nat /\ \A i \in 1 .. n : BodySize(d, i) \in Nat BY LinkedTypes
<1>2. a \in D BY LinkedTypes
<1>3. step \in [1 .. n -> [D -> D]] BY <1>1
<1> HIDE DEF a
<1>4. PICK f \in [0 .. n -> D] : Iterates(f, n, a, step) BY <1>1, <1>2, <1>3, IterationExists
<1>5. ASSUME NEW i \in 1 .. n PROVE step[i][f[i - 1]] = f[i - 1] + BodySize(d, i)
    <2>1. i - 1 \in 0 .. n BY <1>1
    <2>2. f[i - 1] \in D BY <2>1, <1>4
    <2>3. QED BY <2>2
<1>6. IsEnd(f)
    <2>1. f = [i \in 0 .. n |-> IF i = 0 THEN a ELSE step[i][f[i - 1]]] BY <1>4 DEF Iterates
    <2>2. \A i \in 0 .. n : i # 0 => i \in 1 .. n BY <1>1
    <2> HIDE DEF step, n
    <2>3. QED BY <1>5, <2>1, <2>2
<1>7. IsEnd(BodyEnd(d))
    <2>1. BodyEnd(d) = CHOOSE g : IsEnd(g) BY DEF BodyEnd, a
    <2> HIDE DEF IsEnd
    <2>2. QED BY <1>6, <2>1
<1>8. \A i \in 1 .. n : BodyEnd(d)[i] = BodyEnd(d)[i - 1] + BodySize(d, i)
    <2>1. \A i \in 1 .. n : i \in 0 .. n /\ i # 0 BY <1>1
    <2> HIDE DEF n
    <2>2. QED BY <1>7, <2>1
<1>9. BodyEnd(d) \in [0 .. n -> D]
    <2> DEFINE S == {i \in 0 .. n : BodyEnd(d)[i] \in D}
    <2> HIDE DEF n, D
    <2>1. 0 \in S
        <3>1. 0 \in 0 .. n BY <1>1
        <3>2. BodyEnd(d)[0] = a BY <1>7, <3>1
        <3>3. QED BY <1>2, <3>1, <3>2
    <2>2. ASSUME NEW i \in 0 .. n, i < n, i \in S PROVE i + 1 \in S
        <3>1. i + 1 \in 1 .. n /\ i + 1 \in 0 .. n /\ (i + 1) - 1 = i BY <1>1, <2>2
        <3>2. BodyEnd(d)[i + 1] = BodyEnd(d)[i] + BodySize(d, i + 1) BY <1>8, <3>1
        <3>3. BodySize(d, i + 1) \in Nat /\ BodyEnd(d)[i] \in Nat \ {0} BY <1>1, <2>2, <3>1 DEF D
        <3>4. BodyEnd(d)[i + 1] \in D BY <3>2, <3>3 DEF D
        <3>5. QED BY <3>1, <3>4
    <2>3. 0 .. n \subseteq S
        <3> HIDE DEF S
        <3>1. QED BY <1>1, <2>1, <2>2, UpTo
    <2>4. \A i \in 0 .. n : BodyEnd(d)[i] \in D BY <2>3
    <2>5. BodyEnd(d) = [i \in 0 .. n |-> BodyEnd(d)[i]]
        <3>1. BodyEnd(d) = [i \in 0 .. n |-> IF i = 0 THEN a ELSE BodyEnd(d)[i - 1] + BodySize(d, i)]
            BY <1>7
        <3>2. QED BY <3>1
    <2>6. QED BY <2>4, <2>5
<1>10. QED BY <1>8, <1>9

\* A name is found where it lies: its characters are not NUL, and a NUL follows them.
LEMMA ExtractsName ==
    ASSUME NEW table \in Seq(Nat), NEW name \in Seq(Char),
           \E o \in 0 .. Len(table) : LiesAt(table, name, o)
    PROVE  ExtractNullString(table, NameOff(table, name)) = name
<1> DEFINE L == Len(table)
           l == Len(name)
<1>0. (\A j \in 1 .. l : name[j] \in Nat \ {0}) /\ (\A k \in 1 .. L : table[k] \in Nat)
    BY ElementOfSeq DEF Char
<1>1. PICK o \in 0 .. L : o = NameOff(table, name) /\ LiesAt(table, name, o) BY DEF NameOff
<1>2. L \in Nat /\ l \in Nat /\ o \in Nat /\ o + l + 1 <= L
    <2>1. o + l + 1 <= L BY <1>1 DEF LiesAt
    <2>2. L \in Nat /\ l \in Nat OBVIOUS
    <2>3. QED BY <2>1, <2>2
<1>3. SubSeq(table, o + 1, o + l + 1) = Append(name, 0) BY <1>1 DEF LiesAt
<1>4. ASSUME NEW j \in 1 .. (l + 1) PROVE table[o + j] = Append(name, 0)[j]
    <2>1. SubSeq(table, o + 1, o + l + 1)[j] = table[o + j]
        <3>1. j \in 1 .. ((o + l + 1) - (o + 1) + 1) BY <1>2
        <3>2. (o + 1) + j - 1 = o + j BY <1>2
        <3>3. o + 1 \in 1 .. L /\ o + l + 1 \in 1 .. L BY <1>2
        <3>4. QED BY <3>1, <3>2, <3>3
    <2>2. QED BY <1>3, <2>1
<1>5. \A j \in 1 .. l : table[o + j] = name[j] /\ name[j] # 0
    <2>1. ASSUME NEW j \in 1 .. l PROVE table[o + j] = name[j] /\ name[j] # 0
        <3>1. j \in 1 .. (l + 1) BY <1>2
        <3>2. name[j] \in Nat \ {0} BY <1>0
        <3>3. Append(name, 0)[j] = name[j] OBVIOUS
        <3>4. table[o + j] = name[j] BY <1>4, <3>1, <3>3
        <3>5. \A x \in Nat \ {0} : x # 0 OBVIOUS
        <3>6. name[j] # 0 BY ONLY <3>2, <3>5
        <3>7. QED BY ONLY <3>4, <3>6
    <2>2. QED BY <2>1
<1>6. table[o + l + 1] = 0
    <2>1. l + 1 \in 1 .. (l + 1) /\ Append(name, 0)[l + 1] = 0 BY <1>2
    <2>2. table[o + (l + 1)] = 0 BY <1>4, <2>1
    <2>3. o + (l + 1) = o + l + 1 BY <1>2
    <2>4. QED BY <2>2, <2>3
<1> DEFINE IsEnd(e) == (e = L + 1 \/ table[e] = 0) /\ \A k \in (o + 1) .. (e - 1) : table[k] # 0
<1>7. ASSUME NEW e \in (o + 1) .. (L + 1) PROVE IsEnd(e) <=> e = o + l + 1
    <2>1. ASSUME e = o + l + 1 PROVE IsEnd(e)
        <3>1. ASSUME NEW k \in (o + 1) .. (e - 1) PROVE table[k] # 0
            <4>1. k - o \in 1 .. l /\ o + (k - o) = k BY <1>2, <2>1
            <4>2. QED BY <1>5, <4>1
        <3>2. QED BY <1>6, <2>1, <3>1
    <2>2. ASSUME IsEnd(e), e < o + l + 1 PROVE FALSE
        <3>1. e - o \in 1 .. l /\ o + (e - o) = e /\ e # L + 1 BY <1>2, <2>2
        <3>2. QED BY <1>5, <2>2, <3>1
    <2>3. ASSUME IsEnd(e), e > o + l + 1 PROVE FALSE
        <3>1. o + l + 1 \in (o + 1) .. (e - 1) BY <1>2, <2>3
        <3>2. QED BY <1>6, <2>3, <3>1
    <2>4. e < o + l + 1 \/ e = o + l + 1 \/ e > o + l + 1 BY <1>2
    <2>5. QED BY <2>1, <2>2, <2>3, <2>4
<1>8. o + l + 1 \in (o + 1) .. (L + 1) BY <1>2
<1>9. (CHOOSE e \in (o + 1) .. (L + 1) : IsEnd(e)) = o + l + 1
    <2> HIDE DEF IsEnd
    <2>1. QED BY <1>7, <1>8
<1>10. ExtractNullString(table, o) = SubSeq(table, o + 1, (o + l + 1) - 1)
    <2>1. ~(o >= L) BY <1>2
    <2>2. QED BY <1>9, <2>1 DEF ExtractNullString
<1>11. SubSeq(table, o + 1, (o + l + 1) - 1) = name
    <2>1. (o + l + 1) - 1 = o + l BY <1>2
    <2>2. \A k \in (o + 1) .. (o + l) : table[k] \in Nat
        <3>1. \A k \in (o + 1) .. (o + l) : k \in 1 .. L BY <1>2
        <3>2. QED BY <1>0, <3>1
    <2>3. o + 1 \in Int /\ o + l \in Int BY <1>2
    <2> DEFINE part == SubSeq(table, o + 1, o + l)
    <2>4. /\ part \in Seq(Nat)
          /\ Len(part) = IF o + 1 <= o + l THEN (o + l) - (o + 1) + 1 ELSE 0
          /\ \A j \in 1 .. ((o + l) - (o + 1) + 1) : part[j] = table[(o + 1) + j - 1]
        BY <2>2, <2>3, SubSeqProperties
    <2>5. /\ (IF o + 1 <= o + l THEN (o + l) - (o + 1) + 1 ELSE 0) = l
          /\ (o + l) - (o + 1) + 1 = l /\ \A j \in 1 .. l : (o + 1) + j - 1 = o + j
        BY <1>2
    <2> HIDE DEF part
    <2>6. Len(part) = l BY ONLY <2>4, <2>5
    <2>7. \A j \in 1 .. l : part[j] = table[o + j] BY ONLY <2>4, <2>5
    <2>8. \A j \in 1 .. Len(part) : part[j] = name[j] BY ONLY <1>5, <2>6, <2>7
    <2>9. name \in Seq(Nat)
        <3>1. \A j \in 1 .. Len(name) : name[j] \in Nat BY <1>0
        <3>2. QED BY <3>1
    <2>10. part = name BY <2>4, <2>6, <2>8, <2>9, SeqEqual
    <2>11. QED BY <2>1, <2>10 DEF part
<1>12. QED BY <1>1, <1>10, <1>11

-----------------------------------------------------------------------------
(* ELF: the inductive invariant.                                           *)

\* The file is one that was linked, perhaps cut short.
ElfInput == linked \in LinkedFiles /\ \E missing \in ElfCuts : elf = ElfBytes(linked, missing)

\* The conditions under which the parser succeeds, in the order in which it checks them.
HeaderThere ==
    /\ linked.magic /\ linked.class \in {Class32, Class64} /\ linked.data \in {1, 2}
    /\ elf.len >= HeaderBytes
SegmentsThere == elf.segs # <<>> => Fits(elf.phOff, Len(elf.segs) * PhdrSize(linked.class))
SectionsThere == elf.secs # <<>> => Fits(elf.shOff, Len(elf.secs) * ShdrSize(linked.class))

\* The section headers as they are read, and with the names that are looked up next.
NamesThere == linked.shstr # 0 /\ InFull(linked.shstr)
NameFound(k) == IF NamesThere THEN linked.secs[k].name ELSE <<>>
Raw == [k \in 1 .. Len(linked.secs) |-> RawSection(SectionHeader(linked, k))]
Resolved == [k \in 1 .. Len(linked.secs) |->
               [RawSection(SectionHeader(linked, k)) EXCEPT !.name = NameFound(k)]]

\* What is reported of the only table of its type, the one with index k: nothing before the
\* loop comes to it; then all of it, or nothing.
TableThere(k) == InFull(k - 1) /\ (linked.secs[k].link # 0 => InFull(linked.secs[k].link))
TableReported(k) ==
    /\ TableThere(k) => Reported(k) = Written(k)
    /\ ~InFull(k - 1) => Reported(k) = <<>>
Only(type, k) == k \in Tables(linked, type) /\ Tables(linked, type) = {k}
AllReported ==
    \A type \in {SYMTAB, DYNSYM} : \A k \in 1 .. Len(linked.secs) : Only(type, k) => TableReported(k)
TablesInv ==
    \A type \in {SYMTAB, DYNSYM} : \A k \in 1 .. Len(linked.secs) :
       Only(type, k) => IF k < secIdx THEN TableReported(k) ELSE Reported(k) = <<>>

ElfPhase ==
    /\ elfPc \in {"header", "segments", "sections", "names", "symbols", "done"}
    /\ elfPc # "done" => elfRes = "none"
    /\ elfPc \in {"header", "segments"} => segments = <<>>
    /\ elfPc \in {"header", "segments", "sections"} => sections = <<>>
    /\ elfPc \notin {"symbols", "done"} => symbols = <<>> /\ dynSymbols = <<>>
    /\ elfPc \notin {"header", "done"} => HeaderThere
    /\ elfPc \in {"sections", "names", "symbols"} => SegmentsThere /\ segments = linked.segs
    /\ elfPc \in {"names", "symbols"} => SectionsThere
    /\ elfPc = "names" => sections = Raw
    /\ elfPc = "symbols" =>
         sections = Resolved /\ secIdx \in 1 .. (Len(linked.secs) + 1) /\ TablesInv

ElfInv == ElfInput /\ ElfPhase /\ ReportsWhatWasLinked

\* What the fields of a file say of its description.
LEMMA ElfFields ==
    ASSUME ElfInput
    PROVE  /\ WellLinked(linked)
           /\ elf.len \in Int /\ elf.magic = linked.magic /\ elf.class = linked.class
           /\ elf.data = linked.data /\ elf.phOff > 0 /\ elf.phOff \in Nat
           /\ elf.phNum = Len(linked.segs) /\ elf.segs = linked.segs
           /\ elf.shOff > 0 /\ elf.shOff \in Nat /\ elf.shNum = Len(linked.secs)
           /\ elf.shStrIdx = linked.shstr
           /\ elf.secs = [i \in 1 .. Len(linked.secs) |-> SectionHeader(linked, i)]
           /\ elf.bodies = [i \in 1 .. Len(linked.secs) |-> LinkedBody(linked, i)]
<1>1. PICK missing \in ElfCuts : elf = ElfBytes(linked, missing) BY DEF ElfInput
<1>2. WellLinked(linked) /\ missing \in Nat BY ElfAssumption DEF ElfInput
<1>3. Len(linked.secs) \in Nat /\ DOMAIN linked.secs = 1 .. Len(linked.secs) BY <1>2, LinkedTypes
<1>4. PICK end : end = BodyEnd(linked)[Len(linked.secs)] OBVIOUS
<1>5. end \in Nat \ {0}
    <2>1. Len(linked.secs) \in 0 .. Len(linked.secs) BY <1>3
    <2>2. BodyEnd(linked) \in [0 .. Len(linked.secs) -> Nat \ {0}] BY <1>2, BodyEndSteps
    <2>3. QED BY <1>4, <2>1, <2>2
<1>6. PICK p \in Nat, q \in Nat : p = PhdrEnd(linked) /\ p > 0 /\ q = ShdrsSize(linked)
    BY <1>2, LinkedTypes
<1>7. /\ elf.len = (IF linked.headersFirst THEN end ELSE end + q) - missing
      /\ elf.magic = linked.magic /\ elf.class = linked.class /\ elf.data = linked.data
      /\ elf.phOff = EhdrSize(linked.class) /\ elf.phNum = Len(linked.segs)
      /\ elf.segs = linked.segs /\ elf.shOff = (IF linked.headersFirst THEN p ELSE end)
      /\ elf.shNum = Len(linked.secs) /\ elf.shStrIdx = linked.shstr
      /\ elf.secs = [i \in DOMAIN linked.secs |-> SectionHeader(linked, i)]
      /\ elf.bodies = [i \in DOMAIN linked.secs |-> LinkedBody(linked, i)]
    BY <1>1, <1>4, <1>6 DEF ElfBytes
<1>8. elf.len \in Int
    <2>1. (IF linked.headersFirst THEN end ELSE end + q) \in Int BY <1>5, <1>6
    <2>2. QED BY <1>2, <1>7, <2>1
<1>9. elf.phOff > 0 /\ elf.phOff \in Nat BY <1>7 DEF EhdrSize
<1>10. elf.shOff > 0 /\ elf.shOff \in Nat BY <1>5, <1>6, <1>7
<1>11. QED BY <1>2, <1>3, <1>7, <1>8, <1>9, <1>10

\* The fields that are read of the section headers, with or without the names.
HeadersRead ==
    /\ DOMAIN sections = 1 .. Len(linked.secs) /\ Len(sections) = Len(linked.secs)
    /\ \A k \in 1 .. Len(linked.secs) :
         /\ sections[k].type = linked.secs[k].type /\ sections[k].link = linked.secs[k].link
         /\ sections[k].offset = BodyEnd(linked)[k - 1] /\ sections[k].size = BodySize(linked, k)
         /\ sections[k].nameOff = Named(linked, linked.shstr, linked.secs[k].name)

\* Where a section lies, and that the parser sees it there.
LEMMA SectionPlace ==
    ASSUME ElfInput, NEW k \in 1 .. Len(linked.secs)
    PROVE  /\ BodyEnd(linked)[k - 1] \in Nat \ {0} /\ BodySize(linked, k) \in Nat
           /\ InFull(k - 1) <=> BodyEnd(linked)[k - 1] + BodySize(linked, k) <= elf.len
<1>1. WellLinked(linked) BY ElfFields
<1>2. Len(linked.secs) \in Nat /\ BodySize(linked, k) \in Nat BY <1>1, LinkedTypes
<1>3. k - 1 \in 0 .. Len(linked.secs) /\ (k - 1) + 1 = k BY <1>2
<1>4. BodyEnd(linked)[k - 1] \in Nat \ {0} BY <1>1, <1>3, BodyEndSteps
<1>5. elf.secs[k].offset = BodyEnd(linked)[k - 1] /\ elf.secs[k].size = BodySize(linked, k)
    <2>1. elf.secs[k] = SectionHeader(linked, k) BY ElfFields
    <2>2. QED BY <2>1 DEF SectionHeader
<1>6. QED BY <1>2, <1>3, <1>4, <1>5 DEF InFull, Fits

\* Both forms of the headers have the fields.
LEMMA HeadersAreRead ==
    ASSUME ElfInput, sections = Raw \/ sections = Resolved
    PROVE  HeadersRead
<1>1. Len(linked.secs) \in Nat BY ElfFields, LinkedTypes
<1>2. DOMAIN sections = 1 .. Len(linked.secs) BY DEF Raw, Resolved
<1>3. Len(sections) = Len(linked.secs) BY <1>1 DEF Raw, Resolved
<1>4. ASSUME NEW k \in 1 .. Len(linked.secs)
      PROVE  /\ sections[k].type = linked.secs[k].type /\ sections[k].link = linked.secs[k].link
             /\ sections[k].offset = BodyEnd(linked)[k - 1]
             /\ sections[k].size = BodySize(linked, k)
             /\ sections[k].nameOff = Named(linked, linked.shstr, linked.secs[k].name)
    <2>1. \/ sections[k] = RawSection(SectionHeader(linked, k))
          \/ sections[k] = [RawSection(SectionHeader(linked, k)) EXCEPT !.name = NameFound(k)]
        BY DEF Raw, Resolved
    <2>2. QED BY <2>1 DEF RawSection, SectionHeader
<1>5. QED BY <1>2, <1>3, <1>4 DEF HeadersRead

\* A section of bytes that lies in the file in full is read as it was written.
LEMMA ReadBodyInFull ==
    ASSUME ElfInput, HeadersRead, NEW t \in Nat, t < Len(linked.secs), InFull(t),
           ~IsSymbolTable(linked.secs[t + 1])
    PROVE  /\ ReadBody(t) = linked.secs[t + 1].body
           /\ BodySize(linked, t + 1) = Len(linked.secs[t + 1].body)
<1>1. WellLinked(linked) /\ Len(linked.secs) \in Nat BY ElfFields, LinkedTypes
<1>2. t + 1 \in 1 .. Len(linked.secs) /\ (t + 1) - 1 = t BY <1>1
<1>3. PICK off, extent, body : /\ off = BodyEnd(linked)[t] /\ extent = BodySize(linked, t + 1)
                             /\ body = linked.secs[t + 1].body
    OBVIOUS
<1>4. off \in Nat /\ extent \in Nat /\ off + extent <= elf.len /\ elf.len \in Int
    BY <1>2, <1>3, SectionPlace, ElfFields
<1>5. body \in Seq(Nat) /\ Len(body) \in Nat /\ extent = Len(body)
    <2>1. body \in Seq(Nat) /\ Len(body) \in Nat BY <1>1, <1>2, <1>3, LinkedTypes
    <2>2. extent = Len(body) * 1 BY <1>3 DEF BodySize
    <2>3. QED BY <2>1, <2>2
<1>6. elf.bodies[t + 1] = body BY <1>2, <1>3, ElfFields DEF LinkedBody
<1>7. sections[t + 1].size = extent /\ sections[t + 1].offset = off BY <1>2, <1>3 DEF HeadersRead
<1>8. ReadBody(t) = [k \in 1 .. extent |-> IF off + k <= elf.len THEN body[k] ELSE 0]
    BY <1>6, <1>7 DEF ReadBody, Fits
<1>9. \A k \in 1 .. extent : off + k <= elf.len BY <1>4
<1>10. ReadBody(t) = [k \in 1 .. Len(body) |-> body[k]] BY <1>5, <1>8, <1>9
<1>11. body = [k \in 1 .. Len(body) |-> body[k]] BY <1>5
<1>12. QED BY <1>3, <1>5, <1>10, <1>11

\* A name of a table that lies in the file is found in it.
LEMMA NameIsFound ==
    ASSUME ElfInput, HeadersRead, NEW t \in Nat, t # 0, InFull(t), NEW names,
           HasNames(linked, t, names), NEW name \in names, name \in Seq(Char)
    PROVE  /\ t < Len(sections) /\ sections[t + 1].type = STRTAB /\ sections[t + 1].size > 0
           /\ ExtractNullString(ReadBody(t), Named(linked, t, name)) = name
<1>1. t < Len(linked.secs) /\ linked.secs[t + 1].type = STRTAB BY DEF HasNames
<1>2. WellLinked(linked) /\ Len(linked.secs) \in Nat BY ElfFields, LinkedTypes
<1>3. t + 1 \in 1 .. Len(linked.secs) BY <1>1, <1>2
<1>4. ~IsSymbolTable(linked.secs[t + 1]) BY <1>1 DEF IsSymbolTable, STRTAB, SYMTAB, DYNSYM
<1>5. PICK body : body = linked.secs[t + 1].body OBVIOUS
<1>6. ReadBody(t) = body /\ BodySize(linked, t + 1) = Len(body)
    BY <1>1, <1>4, <1>5, ReadBodyInFull
<1>7. body \in Seq(Nat) BY <1>2, <1>3, <1>4, <1>5, LinkedTypes
<1>8. \E o \in 0 .. Len(body) : LiesAt(body, name, o) BY <1>5 DEF HasNames
<1>9. ExtractNullString(body, NameOff(body, name)) = name BY <1>7, <1>8, ExtractsName
<1>10. Len(body) > 0
    <2>1. PICK o \in 0 .. Len(body) : o + Len(name) + 1 <= Len(body) BY <1>8 DEF LiesAt
    <2>2. Len(name) \in Nat /\ Len(body) \in Nat BY <1>7
    <2>3. QED BY <2>1, <2>2
<1>11. Named(linked, t, name) = NameOff(body, name) BY <1>5 DEF Named
<1>12. Len(sections) = Len(linked.secs) /\ sections[t + 1].type = STRTAB
       /\ sections[t + 1].size = Len(body)
    BY <1>1, <1>3, <1>6 DEF HeadersRead
<1>13. QED BY <1>1, <1>6, <1>9, <1>10, <1>11, <1>12

\* The names of the sections are looked up in their table, if it is there.
LEMMA NamesResolved ==
    ASSUME ElfInput, sections = Raw, ResolveNames
    PROVE  sections' = Resolved
<1> DEFINE t == linked.shstr
<1>1. WellLinked(linked) /\ Len(linked.secs) \in Nat /\ elf.shStrIdx = t
    BY ElfFields, LinkedTypes
<1>2. t \in Nat /\ HasNames(linked, t, {linked.secs[k].name : k \in DOMAIN linked.secs})
    BY <1>1 DEF WellLinked
<1>3. HeadersRead BY HeadersAreRead
<1>4. DOMAIN sections = 1 .. Len(linked.secs) BY <1>3 DEF HeadersRead
<1>5. \A k \in 1 .. Len(linked.secs) : sections[k] = RawSection(SectionHeader(linked, k))
    BY DEF Raw
<1> DEFINE Found == /\ t # 0 /\ t < Len(sections) /\ sections[t + 1].size > 0
                    /\ sections[t + 1].type = STRTAB
                    /\ Fits(sections[t + 1].offset, sections[t + 1].size)
<1>6. sections' = IF Found
                  THEN [k \in DOMAIN sections |->
                          [sections[k] EXCEPT !.name = ExtractNullString(ReadBody(t), sections[k].nameOff)]]
                  ELSE sections
    BY <1>1 DEF ResolveNames
<1>7. CASE NamesThere
    <2>1. t # 0 /\ InFull(t) BY <1>7 DEF NamesThere
    <2>2. ASSUME NEW k \in 1 .. Len(linked.secs)
          PROVE  /\ t < Len(sections) /\ sections[t + 1].type = STRTAB /\ sections[t + 1].size > 0
                 /\ ExtractNullString(ReadBody(t), Named(linked, t, linked.secs[k].name)) =
                      linked.secs[k].name
        <3>1. linked.secs[k].name \in {linked.secs[n].name : n \in DOMAIN linked.secs}
            BY <1>1, LinkedTypes
        <3>2. linked.secs[k].name \in Seq(Char) BY <1>1, LinkedTypes
        <3>3. QED BY <1>2, <1>3, <2>1, <3>1, <3>2, NameIsFound
    <2>3. Found
        <3>1. t < Len(linked.secs) BY <1>2, <2>1 DEF HasNames
        <3>2. t + 1 \in 1 .. Len(linked.secs) /\ (t + 1) - 1 = t BY <1>1, <1>2, <3>1
        <3>3. t < Len(sections) /\ sections[t + 1].type = STRTAB /\ sections[t + 1].size > 0
            BY <2>2, <3>2
        <3>4. Fits(sections[t + 1].offset, sections[t + 1].size)
            <4>1. BodyEnd(linked)[t] + BodySize(linked, t + 1) <= elf.len
                BY <2>1, <3>2, SectionPlace
            <4>2. sections[t + 1].offset = BodyEnd(linked)[t]
                  /\ sections[t + 1].size = BodySize(linked, t + 1)
                BY <1>3, <3>2 DEF HeadersRead
            <4>3. QED BY <4>1, <4>2 DEF Fits
        <3>5. QED BY <2>1, <3>3, <3>4
    <2>4. ASSUME NEW k \in 1 .. Len(linked.secs)
          PROVE  [sections[k] EXCEPT !.name = ExtractNullString(ReadBody(t), sections[k].nameOff)] =
                 [RawSection(SectionHeader(linked, k)) EXCEPT !.name = NameFound(k)]
        <3>1. sections[k].nameOff = Named(linked, t, linked.secs[k].name)
            BY <1>3 DEF HeadersRead
        <3>2. NameFound(k) = linked.secs[k].name BY <1>7 DEF NameFound
        <3>3. QED BY <1>5, <2>2, <3>1, <3>2
    <2>5. sections' = [k \in 1 .. Len(linked.secs) |->
                        [sections[k] EXCEPT !.name = ExtractNullString(ReadBody(t), sections[k].nameOff)]]
        BY <1>4, <1>6, <2>3
    <2>6. QED BY <2>4, <2>5 DEF Resolved
<1>8. CASE ~NamesThere
    <2>1. ~Found
        <3>1. SUFFICES ASSUME Found PROVE NamesThere BY <1>8
        <3>2. t # 0 /\ t < Len(linked.secs) BY <1>3, <3>1 DEF HeadersRead
        <3>3. t + 1 \in 1 .. Len(linked.secs) /\ (t + 1) - 1 = t BY <1>1, <1>2, <3>2
        <3>4. sections[t + 1].offset = BodyEnd(linked)[t]
              /\ sections[t + 1].size = BodySize(linked, t + 1)
            BY <1>3, <3>3 DEF HeadersRead
        <3>5. BodyEnd(linked)[t] + BodySize(linked, t + 1) <= elf.len BY <3>1, <3>4 DEF Fits
        <3>6. InFull(t) BY <3>3, <3>5, SectionPlace
        <3>7. QED BY <3>2, <3>6 DEF NamesThere
    <2>2. sections' = Raw BY <1>6, <2>1
    <2>3. ASSUME NEW k \in 1 .. Len(linked.secs)
          PROVE  RawSection(SectionHeader(linked, k)) =
                 [RawSection(SectionHeader(linked, k)) EXCEPT !.name = NameFound(k)]
        <3>1. NameFound(k) = <<>> BY <1>8 DEF NameFound
        <3>2. QED BY <3>1 DEF RawSection
    <2>4. QED BY <2>2, <2>3 DEF Raw, Resolved
<1>9. QED BY <1>7, <1>8

\* An index resolves to the name of the section it was written for.
LEMMA IndexResolved ==
    ASSUME ElfInput, sections = Resolved, NEW x \in Nat
    PROVE  ResolveSectionIndex(x) = SectionOf(x)
<1>1. Len(linked.secs) \in Nat
    <2>1. WellLinked(linked) BY ElfFields
    <2>2. QED BY ONLY <2>1, LinkedTypes
<1>2. Len(sections) = Len(linked.secs)
    <2>1. HeadersRead BY HeadersAreRead
    <2>2. QED BY <2>1 DEF HeadersRead
<1>3. ASSUME NEW k \in 1 .. Len(linked.secs) PROVE sections[k].name = NameFound(k)
    <2>1. sections[k] = [RawSection(SectionHeader(linked, k)) EXCEPT !.name = NameFound(k)]
        BY DEF Resolved
    <2>2. QED BY <2>1 DEF RawSection
<1>4. CASE x \in {UNDEF, ABS, COMMON}
    BY <1>4 DEF ResolveSectionIndex, SectionOf, UNDEF, ABS, COMMON
<1>5. CASE x \notin {UNDEF, ABS, COMMON} /\ x < Len(linked.secs)
    <2>1. x + 1 \in 1 .. Len(linked.secs) /\ x \in (1 .. (Len(linked.secs) - 1)) \ {ABS, COMMON}
        BY <1>1, <1>5 DEF UNDEF
    <2>2. ResolveSectionIndex(x) = IF NameFound(x + 1) # <<>> THEN NameFound(x + 1) ELSE x
        BY <1>2, <1>3, <1>5, <2>1 DEF ResolveSectionIndex
    <2>3. SectionOf(x) = IF NamesThere /\ linked.secs[x + 1].name # <<>>
                         THEN linked.secs[x + 1].name ELSE x
        BY <1>5, <2>1 DEF SectionOf, NamesThere
    <2>4. QED BY <2>2, <2>3 DEF NameFound
<1>6. CASE x \notin {UNDEF, ABS, COMMON} /\ ~(x < Len(linked.secs))
    <2>1. x \notin 1 .. (Len(linked.secs) - 1) BY <1>1, <1>6
    <2>2. ResolveSectionIndex(x) = x BY <1>2, <1>6 DEF ResolveSectionIndex
    <2>3. SectionOf(x) = x BY <1>6, <2>1 DEF SectionOf
    <2>4. QED BY <2>2, <2>3
<1>7. QED BY <1>4, <1>5, <1>6

\* The nibbles of the info byte, and the visibility beside another bit.
LEMMA SymbolBits ==
    ASSUME NEW b \in 0 .. 15, NEW t \in 0 .. 15, NEW v \in 0 .. 3
    PROVE  (16 * b + t) \div 16 = b /\ (16 * b + t) % 16 = t /\ (4 + v) % 4 = v
OBVIOUS

\* A symbol table that lies in the file in full, and its string table too, is read as it
\* was written; one that does not is an error, or empty.
LEMMA TableParsed ==
    ASSUME ElfInput, sections = Resolved, NEW k \in 1 .. Len(linked.secs),
           IsSymbolTable(linked.secs[k])
    PROVE  /\ ~InFull(k - 1) => ParseSymbolTable(k).err \/ ParseSymbolTable(k).syms = <<>>
           /\ TableThere(k) => /\ ~ParseSymbolTable(k).err
                               /\ ParseSymbolTable(k).syms = Written(k)
<1> DEFINE body == linked.secs[k].body
           w    == SymSize(linked.class)
           off  == BodyEnd(linked)[k - 1]
           link == linked.secs[k].link
<1>1. WellLinked(linked) /\ HeadersRead BY ElfFields, HeadersAreRead
<1>2. /\ w \in {16, 24} /\ body \in Seq(Symbol) /\ Len(body) \in Nat /\ link \in Nat
      /\ off \in Nat \ {0} /\ elf.len \in Int /\ elf.class = linked.class
    BY <1>1, LinkedTypes, SectionPlace, ElfFields
<1>3. BodySize(linked, k) = Len(body) * w BY DEF BodySize
<1>4. sections[k].size = Len(body) * w /\ sections[k].offset = off /\ sections[k].link = link
    BY <1>1, <1>3 DEF HeadersRead
<1>5. /\ (Len(body) * w) \div w = Len(body) /\ Len(body) * w \in Nat
      /\ Len(body) * w = 0 <=> Len(body) = 0
    <2>1. \A n \in Nat : (n * 16) \div 16 = n /\ (n * 24) \div 24 = n OBVIOUS
    <2>2. \A n \in Nat : n * 16 \in Nat /\ n * 24 \in Nat OBVIOUS
    <2>3. \A n \in Nat : (n * 16 = 0 <=> n = 0) /\ (n * 24 = 0 <=> n = 0) OBVIOUS
    <2>4. CASE w = 16 BY <1>2, <2>1, <2>2, <2>3, <2>4
    <2>5. CASE w = 24 BY <1>2, <2>1, <2>2, <2>3, <2>5
    <2>6. QED BY <1>2, <2>4, <2>5
<1>6. InFull(k - 1) <=> Fits(off, Len(body) * w) BY <1>3, SectionPlace DEF Fits
<1>7. elf.bodies[k] = [n \in DOMAIN body |-> SymbolEntry(linked, k, body[n])]
    BY ElfFields DEF LinkedBody
<1>8. DOMAIN body = 1 .. Len(body) BY <1>2
<1> DEFINE parsed(s) == [name    |-> ExtractNullString(StringTable(sections[k]), s.nameOff),
                         section |-> ResolveSectionIndex(s.shndx), bind |-> s.info \div 16,
                         type    |-> s.info % 16, vis |-> s.other % 4]
           extent == Len(body) * w
<1>9. ParseSymbolTable(k) =
        CASE extent = 0 \/ off = 0 -> [err |-> FALSE, syms |-> <<>>]
          [] extent > 0 /\ off # 0 /\ ~Fits(off, extent) -> [err |-> TRUE, syms |-> <<>>]
          [] OTHER -> [err |-> FALSE, syms |-> [n \in 1 .. Len(body) |-> parsed(elf.bodies[k][n])]]
    BY <1>2, <1>4, <1>5 DEF ParseSymbolTable
<1>10. ASSUME extent = 0 PROVE ParseSymbolTable(k) = [err |-> FALSE, syms |-> <<>>]
    <2> HIDE DEF parsed
    <2>1. ~(extent > 0 /\ off # 0 /\ ~Fits(off, extent)) BY <1>10
    <2>2. QED BY <1>9, <1>10, <2>1
<1>11. ASSUME extent # 0, ~Fits(off, extent) PROVE ParseSymbolTable(k) = [err |-> TRUE, syms |-> <<>>]
    <2> HIDE DEF parsed
    <2>1. ~(extent = 0 \/ off = 0) /\ extent > 0 /\ off # 0 BY <1>2, <1>5, <1>11
    <2>2. QED BY <1>9, <1>11, <2>1
<1>12. ASSUME extent # 0, Fits(off, extent)
       PROVE  ParseSymbolTable(k) =
                [err |-> FALSE, syms |-> [n \in 1 .. Len(body) |-> parsed(elf.bodies[k][n])]]
    <2> HIDE DEF parsed
    <2>1. ~(extent = 0 \/ off = 0) BY <1>2, <1>12
    <2>2. QED BY <1>9, <1>12, <2>1
<1>13. ~InFull(k - 1) => ParseSymbolTable(k).err \/ ParseSymbolTable(k).syms = <<>>
    BY <1>6, <1>10, <1>11
<1>14. ASSUME TableThere(k), NEW n \in 1 .. Len(body)
       PROVE  parsed(elf.bodies[k][n]) = Written(k)[n]
    <2>1. PICK s \in Symbol : s = body[n] BY <1>2, ElementOfSeq
    <2>2. /\ s.name \in Seq(Char) /\ s.bind \in 0 .. 15 /\ s.type \in 0 .. 15 /\ s.vis \in 0 .. 3
          /\ s.shndx \in Nat
        BY <2>1 DEF Symbol
    <2>3. PICK e : e = elf.bodies[k][n] OBVIOUS
    <2>4. /\ e.nameOff = Named(linked, link, s.name) /\ e.info = 16 * s.bind + s.type
          /\ e.other = 4 + s.vis /\ e.shndx = s.shndx
        <3>1. e = SymbolEntry(linked, k, s) BY <1>7, <1>8, <2>1, <2>3
        <3>2. QED BY <3>1 DEF SymbolEntry
    <2>5. e.info \div 16 = s.bind /\ e.info % 16 = s.type /\ e.other % 4 = s.vis
        BY <2>2, <2>4, SymbolBits
    <2>6. ResolveSectionIndex(e.shndx) = SectionOf(s.shndx) BY <2>2, <2>4, IndexResolved
    <2>7. ExtractNullString(StringTable(sections[k]), e.nameOff) = IF link = 0 THEN <<>> ELSE s.name
        <3>1. CASE link = 0
            <4>1. StringTable(sections[k]) = <<>> BY <1>4, <3>1 DEF StringTable
            <4>2. e.nameOff = 0 BY <2>4, <3>1 DEF Named
            <4>3. QED BY <3>1, <4>1, <4>2 DEF ExtractNullString
        <3>2. CASE link # 0
            <4>1. HasNames(linked, link, {body[m].name : m \in DOMAIN body})
                BY <1>1, LinkedTypes DEF WellLinked
            <4>2. s.name \in {body[m].name : m \in DOMAIN body} BY <1>8, <2>1
            <4>3. InFull(link) BY <1>14, <3>2 DEF TableThere
            <4>4. /\ link < Len(sections) /\ sections[link + 1].type = STRTAB
                  /\ sections[link + 1].size > 0
                  /\ ExtractNullString(ReadBody(link), Named(linked, link, s.name)) = s.name
                BY <1>1, <1>2, <2>2, <3>2, <4>1, <4>2, <4>3, NameIsFound
            <4>5. StringTable(sections[k]) = ReadBody(link) BY <1>4, <3>2, <4>4 DEF StringTable
            <4>6. QED BY <2>4, <3>2, <4>4, <4>5
        <3>3. QED BY <3>1, <3>2
    <2>8. parsed(e) = [name |-> IF link = 0 THEN <<>> ELSE s.name, section |-> SectionOf(s.shndx),
                       bind |-> s.bind, type |-> s.type, vis |-> s.vis]
        BY <2>5, <2>6, <2>7
    <2>9. Written(k)[n] = [name |-> IF link = 0 THEN <<>> ELSE s.name,
                           section |-> SectionOf(s.shndx), bind |-> s.bind, type |-> s.type,
                           vis |-> s.vis]
        BY <1>8, <2>1 DEF Written
    <2>10. QED BY <2>3, <2>8, <2>9
<1>15. Written(k) = [n \in 1 .. Len(body) |-> Written(k)[n]] BY <1>8 DEF Written
<1>16. ASSUME TableThere(k)
       PROVE  ~ParseSymbolTable(k).err /\ ParseSymbolTable(k).syms = Written(k)
    <2>1. Fits(off, extent) BY <1>6, <1>16 DEF TableThere
    <2>2. [n \in 1 .. Len(body) |-> parsed(elf.bodies[k][n])] = Written(k)
        BY <1>14, <1>15, <1>16
    <2>3. CASE extent = 0
        <3>1. Len(body) = 0 BY <1>5, <2>3
        <3>2. Written(k) = <<>>
            <4>1. \A n \in 1 .. Len(body) : FALSE BY <3>1
            <4>2. Written(k) = [n \in 1 .. 0 |-> Written(k)[n]] BY <1>15, <3>1
            <4>3. QED BY <4>2
        <3>3. QED BY <1>10, <2>3, <3>2
    <2>4. CASE extent # 0 BY <1>12, <2>1, <2>2, <2>4
    <2>5. QED BY <2>3, <2>4
<1>17. QED BY <1>13, <1>16

-----------------------------------------------------------------------------
(* ELF: every step keeps the invariant.                                    *)

\* No step touches the file, hence what it contains.
LEMMA ElfInputKept ==
    ASSUME ElfInput, [ElfNext]_elfVars
    PROVE  linked' = linked /\ elf' = elf /\ ElfInput'
<1>1. linked' = linked /\ elf' = elf
    BY DEF ElfNext, elfVars, ReadElfHeader, ParseSegments, ParseSections, ResolveNames, ParseSymbols,
           Finish
<1>2. QED BY <1>1 DEF ElfInput

\* The operators on the file, while it stays.
LEMMA FileOperatorsKept ==
    ASSUME linked' = linked, elf' = elf
    PROVE  /\ HeaderThere' = HeaderThere /\ SegmentsThere' = SegmentsThere
           /\ SectionsThere' = SectionsThere /\ NamesThere' = NamesThere
           /\ Raw' = Raw /\ Resolved' = Resolved
           /\ \A k : InFull(k)' = InFull(k) /\ Written(k)' = Written(k)
<1>1. \A o, n : Fits(o, n)' = Fits(o, n) BY DEF Fits
<1>2. \A k : InFull(k)' = InFull(k) BY <1>1 DEF InFull, Fits
<1>3. NamesThere' = NamesThere BY <1>2 DEF NamesThere, InFull, Fits
<1>4. \A k : NameFound(k)' = NameFound(k) BY <1>3 DEF NameFound, NamesThere, InFull, Fits
<1>5. Resolved' = Resolved BY DEF Resolved, NameFound, NamesThere, InFull, Fits
<1>6. Raw' = Raw BY DEF Raw
<1>7. \A k : Written(k)' = Written(k) BY DEF Written, SectionOf, InFull, Fits
<1>8. HeaderThere' = HeaderThere BY DEF HeaderThere
<1>9. SegmentsThere' = SegmentsThere BY DEF SegmentsThere, Fits
<1>10. SectionsThere' = SectionsThere BY DEF SectionsThere, Fits
<1>11. QED BY <1>2, <1>3, <1>5, <1>6, <1>7, <1>8, <1>9, <1>10

\* The segments and sections that are counted are those that are there.
LEMMA CountedIffThere ==
    ASSUME ElfInput
    PROVE  /\ elf.phNum # 0 <=> elf.segs # <<>>
           /\ elf.shNum # 0 <=> elf.secs # <<>>
           /\ elf.phNum = Len(elf.segs) /\ elf.shNum = Len(elf.secs)
           /\ elf.phOff # 0 /\ elf.shOff # 0
           /\ elf.segs = <<>> => linked.segs = <<>>
           /\ elf.secs = <<>> => Len(linked.secs) = 0
<1>1. WellLinked(linked) BY ElfFields
<1>2. Len(linked.secs) \in Nat BY <1>1, LinkedTypes
<1>3. elf.phOff # 0 /\ elf.shOff # 0 BY ElfFields
<1>4. elf.phNum = Len(linked.segs) /\ elf.segs = linked.segs /\ elf.shNum = Len(linked.secs)
      /\ elf.secs = [i \in 1 .. Len(linked.secs) |-> SectionHeader(linked, i)]
    BY ElfFields
<1>5. linked.segs \in Seq(STRING) BY <1>1 DEF WellLinked
<1>6. Len(linked.segs) # 0 <=> linked.segs # <<>> BY <1>5
<1>7. Len(elf.secs) = Len(linked.secs) BY <1>2, <1>4
<1>8. elf.secs = <<>> <=> Len(linked.secs) = 0
    <2>1. DOMAIN elf.secs = 1 .. Len(linked.secs) BY <1>4
    <2>2. CASE Len(linked.secs) = 0
        <3>1. elf.secs = [i \in 1 .. 0 |-> SectionHeader(linked, i)] BY <1>4, <2>2
        <3>2. QED BY <2>2, <3>1
    <2>3. CASE Len(linked.secs) # 0
        <3>1. 1 \in DOMAIN elf.secs BY <1>2, <2>1, <2>3
        <3>2. QED BY <2>3, <3>1
    <2>4. QED BY <2>2, <2>3
<1>9. QED BY <1>3, <1>4, <1>6, <1>7, <1>8

\* A run that ends early reports an error exactly because something is missing.
LEMMA EndsWithError ==
    ASSUME elfPc' = "done", elfRes' = "error", linked' = linked, elf' = elf,
           ~(HeaderThere /\ SegmentsThere /\ SectionsThere)
    PROVE  ReportsWhatWasLinked' /\ ElfPhase'
<1>1. ~(HeaderThere' /\ SegmentsThere' /\ SectionsThere') BY FileOperatorsKept
<1>2. elfRes' # "ok" OBVIOUS
<1>3. ReportsWhatWasLinked'
    BY <1>1, <1>2 DEF ReportsWhatWasLinked, HeaderThere, SegmentsThere, SectionsThere
<1>4. ElfPhase' BY DEF ElfPhase
<1>5. QED BY <1>3, <1>4

\* A run that ends well has read everything.
LEMMA EndsWell ==
    ASSUME ElfInput, elfPc' = "done", elfRes' = "ok", linked' = linked, elf' = elf,
           HeaderThere, SegmentsThere, SectionsThere, segments' = linked.segs,
           sections' = Resolved, AllReported, symbols' = symbols, dynSymbols' = dynSymbols
    PROVE  ReportsWhatWasLinked' /\ ElfPhase'
<1>1. Len(linked.secs) \in Nat BY ElfFields, LinkedTypes
<1>2. ElfPhase' BY DEF ElfPhase
<1>3. /\ HeaderThere' /\ SegmentsThere' /\ SectionsThere' /\ segments' = linked'.segs
      /\ NamesThere' = NamesThere /\ sections' = Resolved
    BY FileOperatorsKept
<1>4. DOMAIN sections' = 1 .. Len(linked.secs) /\ Len(sections') = Len(linked'.secs)
    BY <1>1, <1>3 DEF Resolved
<1>5. ASSUME NEW k \in DOMAIN sections'
      PROVE  sections'[k].name =
               IF linked'.shstr # 0 /\ InFull(linked.shstr)' THEN linked'.secs[k].name ELSE <<>>
    <2>1. sections'[k] = [RawSection(SectionHeader(linked, k)) EXCEPT !.name = NameFound(k)]
        BY <1>3, <1>4, <1>5 DEF Resolved
    <2>2. sections'[k].name = NameFound(k) BY <2>1 DEF RawSection
    <2>3. QED BY <1>3, <2>2 DEF NameFound, NamesThere
<1>6. ASSUME NEW type \in {SYMTAB, DYNSYM}, NEW k \in Tables(linked, type),
             Tables(linked, type) = {k}
      PROVE  /\ InFull(k - 1)' /\ (linked'.secs[k].link # 0 => InFull(linked.secs[k].link)')
                  => Reported(k)' = Written(k)'
             /\ ~InFull(k - 1)' => Reported(k)' = <<>>
    <2>1. k \in 1 .. Len(linked.secs)
        <3>1. k \in DOMAIN linked.secs BY DEF Tables
        <3>2. QED BY <3>1, ElfFields, LinkedTypes
    <2>2. Only(type, k) BY <1>6 DEF Only
    <2>3. TableReported(k) BY <2>1, <2>2 DEF AllReported
    <2>4. Reported(k)' = Reported(k) BY DEF Reported
    <2>5. InFull(k - 1)' = InFull(k - 1) /\ Written(k)' = Written(k)
          /\ InFull(linked.secs[k].link)' = InFull(linked.secs[k].link)
        BY FileOperatorsKept
    <2>6. QED BY <2>3, <2>4, <2>5 DEF TableReported, TableThere
<1>7. QED BY <1>2, <1>3, <1>4, <1>5, <1>6
          DEF ReportsWhatWasLinked, HeaderThere, SegmentsThere, SectionsThere

\* The phases are disjoint, and what holds before the segments are read.
LEMMA HeaderStep == ASSUME ElfInv, ReadElfHeader PROVE ElfInv'
<1>1. ElfInput /\ ElfPhase /\ elfPc = "header" BY DEF ElfInv, ReadElfHeader
<1>2. linked' = linked /\ elf' = elf /\ ElfInput' BY <1>1, ElfInputKept DEF ElfNext
<1>3. HeaderThere <=> /\ elf.len >= HeaderBytes /\ elf.magic /\ elf.class \in {Class32, Class64}
                      /\ elf.data \in {1, 2}
    BY <1>1, ElfFields DEF HeaderThere
<1>4. CASE HeaderThere
    <2>1. /\ elfPc' = "segments" /\ elfRes' = elfRes /\ segments' = segments /\ sections' = sections
          /\ symbols' = symbols /\ dynSymbols' = dynSymbols
        BY <1>3, <1>4 DEF ReadElfHeader
    <2>2. HeaderThere' BY <1>2, <1>4, FileOperatorsKept
    <2>3. ElfPhase' BY <1>1, <2>1, <2>2 DEF ElfPhase
    <2>4. ReportsWhatWasLinked' BY <2>1 DEF ReportsWhatWasLinked
    <2>5. QED BY <1>2, <2>3, <2>4 DEF ElfInv
<1>5. CASE ~HeaderThere
    <2>1. elfPc' = "done" /\ elfRes' = "error" BY <1>3, <1>5 DEF ReadElfHeader, ElfFail
    <2>2. ReportsWhatWasLinked' /\ ElfPhase' BY <1>2, <1>5, <2>1, EndsWithError
    <2>3. QED BY <1>2, <2>2 DEF ElfInv
<1>6. QED BY <1>4, <1>5

\* The program headers are read, if they are all there.
LEMMA SegmentsStep == ASSUME ElfInv, ParseSegments PROVE ElfInv'
<1>1. ElfInput /\ ElfPhase /\ elfPc = "segments" BY DEF ElfInv, ParseSegments
<1>2. linked' = linked /\ elf' = elf /\ ElfInput' BY <1>1, ElfInputKept DEF ElfNext
<1>3. HeaderThere /\ segments = <<>> /\ elfRes = "none" BY <1>1 DEF ElfPhase
<1>4. elf.class = linked.class /\ elf.segs = linked.segs BY <1>1, ElfFields
<1>5. SegmentsThere <=> (elf.phOff # 0 /\ elf.phNum # 0 => Fits(elf.phOff, elf.phNum * PhdrSize(elf.class)))
    BY <1>1, <1>4, CountedIffThere DEF SegmentsThere
<1>6. CASE SegmentsThere
    <2>1. /\ elfPc' = "sections" /\ elfRes' = elfRes /\ sections' = sections
          /\ symbols' = symbols /\ dynSymbols' = dynSymbols
        BY <1>5, <1>6 DEF ParseSegments
    <2>2. segments' = linked.segs
        <3>1. CASE elf.phOff # 0 /\ elf.phNum # 0 BY <1>4, <1>5, <1>6, <3>1 DEF ParseSegments
        <3>2. CASE ~(elf.phOff # 0 /\ elf.phNum # 0)
            <4>1. segments' = segments BY <3>2 DEF ParseSegments
            <4>2. linked.segs = <<>> BY <1>1, <3>2, CountedIffThere
            <4>3. QED BY <1>3, <4>1, <4>2
        <3>3. QED BY <3>1, <3>2
    <2>3. HeaderThere' /\ SegmentsThere' BY <1>2, <1>3, <1>6, FileOperatorsKept
    <2>4. ElfPhase' BY <1>1, <1>2, <2>1, <2>2, <2>3 DEF ElfPhase
    <2>5. ReportsWhatWasLinked' BY <2>1 DEF ReportsWhatWasLinked
    <2>6. QED BY <1>2, <2>4, <2>5 DEF ElfInv
<1>7. CASE ~SegmentsThere
    <2>1. elfPc' = "done" /\ elfRes' = "error" BY <1>5, <1>7 DEF ParseSegments, ElfFail
    <2>2. ReportsWhatWasLinked' /\ ElfPhase' BY <1>2, <1>7, <2>1, EndsWithError
    <2>3. QED BY <1>2, <2>2 DEF ElfInv
<1>8. QED BY <1>6, <1>7

\* The section headers are read, if they are all there; without any the parser is done.
LEMMA SectionsStep == ASSUME ElfInv, ParseSections PROVE ElfInv'
<1>1. ElfInput /\ ElfPhase /\ elfPc = "sections" BY DEF ElfInv, ParseSections
<1>2. linked' = linked /\ elf' = elf /\ ElfInput' BY <1>1, ElfInputKept DEF ElfNext
<1>3. /\ HeaderThere /\ SegmentsThere /\ segments = linked.segs /\ sections = <<>>
      /\ symbols = <<>> /\ dynSymbols = <<>> /\ elfRes = "none"
    BY <1>1 DEF ElfPhase
<1>4. elf.class = linked.class /\ elf.secs = [k \in 1 .. Len(linked.secs) |-> SectionHeader(linked, k)]
    BY <1>1, ElfFields
<1>5. /\ elf.shOff # 0 /\ elf.shNum # 0 <=> elf.secs # <<>>
      /\ SectionsThere <=> (elf.shOff # 0 /\ elf.shNum # 0 => Fits(elf.shOff, elf.shNum * ShdrSize(elf.class)))
    BY <1>1, <1>4, CountedIffThere DEF SectionsThere
<1>6. segments' = segments /\ symbols' = symbols /\ dynSymbols' = dynSymbols BY DEF ParseSections
<1>7. CASE SectionsThere /\ elf.secs # <<>>
    <2>1. elf.shOff # 0 /\ elf.shNum # 0 /\ Fits(elf.shOff, elf.shNum * ShdrSize(elf.class))
        BY <1>5, <1>7
    <2>2. /\ elfPc' = "names" /\ elfRes' = elfRes
          /\ sections' = [k \in DOMAIN elf.secs |-> RawSection(elf.secs[k])]
        BY <2>1 DEF ParseSections
    <2>3. sections' = Raw BY <1>4, <2>2 DEF Raw
    <2>4. HeaderThere' /\ SegmentsThere' /\ SectionsThere' /\ sections' = Raw'
        BY <1>2, <1>3, <1>7, <2>3, FileOperatorsKept
    <2>5. ElfPhase' BY <1>2, <1>3, <1>6, <2>2, <2>4 DEF ElfPhase
    <2>6. ReportsWhatWasLinked' BY <2>2 DEF ReportsWhatWasLinked
    <2>7. QED BY <1>2, <2>5, <2>6 DEF ElfInv
<1>8. CASE elf.secs = <<>>
    <2>1. elfPc' = "done" /\ elfRes' = "ok" /\ sections' = sections
        BY <1>5, <1>8 DEF ParseSections
    <2>2. Len(linked.secs) = 0 BY <1>1, <1>8, CountedIffThere
    <2>3. Resolved = <<>>
        <3>1. Resolved = [k \in 1 .. 0 |-> [RawSection(SectionHeader(linked, k)) EXCEPT !.name = NameFound(k)]]
            BY <2>2 DEF Resolved
        <3>2. QED BY <3>1
    <2>4. AllReported BY <2>2 DEF AllReported
    <2>5. SectionsThere BY <1>8 DEF SectionsThere
    <2>6. ReportsWhatWasLinked' /\ ElfPhase'
        BY <1>1, <1>2, <1>3, <1>6, <2>1, <2>3, <2>4, <2>5, EndsWell
    <2>7. QED BY <1>2, <2>6 DEF ElfInv
<1>9. CASE ~SectionsThere
    <2>1. elfPc' = "done" /\ elfRes' = "error" BY <1>5, <1>9 DEF ParseSections, ElfFail
    <2>2. ReportsWhatWasLinked' /\ ElfPhase' BY <1>2, <1>9, <2>1, EndsWithError
    <2>3. QED BY <1>2, <2>2 DEF ElfInv
<1>10. QED BY <1>7, <1>8, <1>9

\* The names are looked up; no symbol table has been looked at.
LEMMA NamesStep == ASSUME ElfInv, ResolveNames PROVE ElfInv'
<1>1. ElfInput /\ ElfPhase /\ elfPc = "names" BY DEF ElfInv, ResolveNames
<1>2. linked' = linked /\ elf' = elf /\ ElfInput' BY <1>1, ElfInputKept DEF ElfNext
<1>3. /\ HeaderThere /\ SegmentsThere /\ SectionsThere /\ segments = linked.segs
      /\ sections = Raw /\ symbols = <<>> /\ dynSymbols = <<>> /\ elfRes = "none"
    BY <1>1 DEF ElfPhase
<1>4. /\ elfPc' = "symbols" /\ secIdx' = 1 /\ segments' = segments /\ symbols' = symbols
      /\ dynSymbols' = dynSymbols /\ elfRes' = elfRes
    BY DEF ResolveNames
<1>5. sections' = Resolved BY <1>1, <1>3, NamesResolved
<1>6. /\ HeaderThere' /\ SegmentsThere' /\ SectionsThere' /\ sections' = Resolved'
    BY <1>2, <1>3, <1>5, FileOperatorsKept
<1>7. Len(linked.secs) \in Nat BY <1>1, ElfFields, LinkedTypes
<1>8. TablesInv'
    <2>1. \A k \in 1 .. Len(linked'.secs) : ~(k < secIdx') BY <1>2, <1>4, <1>7
    <2>2. \A k : Reported(k)' = <<>> BY <1>3, <1>4 DEF Reported
    <2>3. QED BY <2>1, <2>2 DEF TablesInv
<1>9. secIdx' \in 1 .. (Len(linked'.secs) + 1) BY <1>2, <1>4, <1>7
<1>10. ElfPhase' BY <1>2, <1>3, <1>4, <1>6, <1>8, <1>9 DEF ElfPhase
<1>11. ReportsWhatWasLinked' BY <1>4 DEF ReportsWhatWasLinked
<1>12. QED BY <1>2, <1>10, <1>11 DEF ElfInv

\* One more section is looked at: the only table of its type is read there and nowhere else.
LEMMA SymbolsStep == ASSUME ElfInv, ParseSymbols PROVE ElfInv'
<1>1. ElfInput /\ ElfPhase /\ elfPc = "symbols" BY DEF ElfInv, ParseSymbols
<1>2. linked' = linked /\ elf' = elf /\ ElfInput' BY <1>1, ElfInputKept DEF ElfNext
<1>3. /\ HeaderThere /\ SegmentsThere /\ SectionsThere /\ segments = linked.segs
      /\ sections = Resolved /\ secIdx \in 1 .. (Len(linked.secs) + 1) /\ TablesInv
      /\ elfRes = "none"
    BY <1>1 DEF ElfPhase
<1>4. HeadersRead /\ Len(linked.secs) \in Nat BY <1>1, <1>3, HeadersAreRead, ElfFields, LinkedTypes
<1>5. PICK i : i = secIdx OBVIOUS
<1>6. PICK t : t = ParseSymbolTable(i) OBVIOUS
<1>7. /\ elfPc' = "symbols" /\ secIdx' = i + 1 /\ i <= Len(sections)
      /\ symbols' = (IF sections[i].type = SYMTAB /\ ~t.err THEN t.syms ELSE symbols)
      /\ dynSymbols' = (IF sections[i].type = DYNSYM /\ ~t.err THEN t.syms ELSE dynSymbols)
      /\ segments' = segments /\ sections' = sections /\ elfRes' = elfRes
    BY <1>1, <1>5, <1>6 DEF ParseSymbols
<1>8. i \in 1 .. Len(linked.secs) BY <1>3, <1>4, <1>5, <1>7 DEF HeadersRead
<1>9. sections[i].type = linked.secs[i].type BY <1>4, <1>8 DEF HeadersRead
<1>10. ASSUME NEW type \in {SYMTAB, DYNSYM}, NEW k \in 1 .. Len(linked.secs), Only(type, k)
       PROVE  IF k < i + 1 THEN TableReported(k)' ELSE Reported(k)' = <<>>
    <2>1. linked.secs[k].type = type BY <1>10 DEF Only, Tables
    <2>2. IF k < i THEN TableReported(k) ELSE Reported(k) = <<>>
        BY <1>3, <1>5, <1>10 DEF TablesInv
    <2>3. Written(k)' = Written(k) /\ InFull(k - 1)' = InFull(k - 1)
          /\ InFull(linked.secs[k].link)' = InFull(linked.secs[k].link)
        BY <1>2, FileOperatorsKept
    <2>4. TableReported(k)' <=> /\ TableThere(k) => Reported(k)' = Written(k)
                                /\ ~InFull(k - 1) => Reported(k)' = <<>>
        BY <1>2, <2>3 DEF TableReported, TableThere
    <2>5. CASE k # i
        <3>1. linked.secs[i].type # type
            <4>1. SUFFICES ASSUME linked.secs[i].type = type PROVE FALSE OBVIOUS
            <4>2. i \in DOMAIN linked.secs BY <1>1, <1>8, ElfFields, LinkedTypes
            <4>3. i \in Tables(linked, type) BY <4>1, <4>2 DEF Tables
            <4>4. QED BY <1>10, <2>5, <4>3 DEF Only
        <3>2. Reported(k)' = Reported(k)
            <4>1. CASE type = SYMTAB
                <5>1. symbols' = symbols BY <1>7, <1>9, <3>1, <4>1
                <5>2. QED BY <1>2, <2>1, <4>1, <5>1 DEF Reported
            <4>2. CASE type = DYNSYM
                <5>1. dynSymbols' = dynSymbols BY <1>7, <1>9, <3>1, <4>2
                <5>2. type # SYMTAB BY <4>2 DEF DYNSYM, SYMTAB
                <5>3. QED BY <1>2, <2>1, <5>1, <5>2 DEF Reported
            <4>3. QED BY <4>1, <4>2
        <3>3. k < i + 1 <=> k < i BY <1>8, <2>5
        <3>4. QED BY <2>2, <2>4, <3>2, <3>3 DEF TableReported
    <2>6. CASE k = i
        <3>1. IsSymbolTable(linked.secs[k]) BY <2>1 DEF IsSymbolTable
        <3>2. /\ ~InFull(k - 1) => t.err \/ t.syms = <<>>
              /\ TableThere(k) => ~t.err /\ t.syms = Written(k)
            BY <1>1, <1>3, <1>6, <2>6, <3>1, TableParsed
        <3>3. Reported(k) = <<>> /\ k < i + 1
            <4>1. ~(k < i) /\ k < i + 1 BY <1>8, <2>6
            <4>2. QED BY <2>2, <4>1
        <3>4. Reported(k)' = IF ~t.err THEN t.syms ELSE Reported(k)
            <4>1. CASE type = SYMTAB BY <1>2, <1>7, <1>9, <2>1, <2>6, <4>1 DEF Reported
            <4>2. CASE type = DYNSYM
                <5>1. type # SYMTAB BY <4>2 DEF DYNSYM, SYMTAB
                <5>2. QED BY <1>2, <1>7, <1>9, <2>1, <2>6, <4>2, <5>1 DEF Reported
            <4>3. QED BY <4>1, <4>2
        <3>5. QED BY <2>4, <3>2, <3>3, <3>4
    <2>7. QED BY <2>5, <2>6
<1>11. TablesInv'
    <2>1. \A type, k : Only(type, k)' <=> Only(type, k) BY <1>2 DEF Only, Tables
    <2>2. QED BY <1>2, <1>7, <1>10, <2>1 DEF TablesInv
<1>12. secIdx' \in 1 .. (Len(linked'.secs) + 1) BY <1>2, <1>4, <1>7, <1>8
<1>13. HeaderThere' /\ SegmentsThere' /\ SectionsThere' /\ sections' = Resolved'
    BY <1>2, <1>3, <1>7, FileOperatorsKept
<1>14. ElfPhase' BY <1>2, <1>3, <1>7, <1>11, <1>12, <1>13 DEF ElfPhase
<1>15. ReportsWhatWasLinked' BY <1>7 DEF ReportsWhatWasLinked
<1>16. QED BY <1>2, <1>14, <1>15 DEF ElfInv

\* When every section has been looked at, the parser is done.
LEMMA FinishStep == ASSUME ElfInv, Finish PROVE ElfInv'
<1>1. ElfInput /\ ElfPhase /\ elfPc = "symbols" BY DEF ElfInv, Finish
<1>2. linked' = linked /\ elf' = elf /\ ElfInput' BY <1>1, ElfInputKept DEF ElfNext
<1>3. /\ HeaderThere /\ SegmentsThere /\ SectionsThere /\ segments = linked.segs
      /\ sections = Resolved /\ secIdx \in 1 .. (Len(linked.secs) + 1) /\ TablesInv
    BY <1>1 DEF ElfPhase
<1>4. Len(sections) = Len(linked.secs) /\ Len(linked.secs) \in Nat
    BY <1>1, <1>3, HeadersAreRead, ElfFields, LinkedTypes DEF HeadersRead
<1>5. /\ elfPc' = "done" /\ elfRes' = "ok" /\ segments' = segments /\ sections' = sections
      /\ symbols' = symbols /\ dynSymbols' = dynSymbols /\ secIdx > Len(sections)
    BY DEF Finish
<1>6. AllReported
    <2>1. \A k \in 1 .. Len(linked.secs) : k < secIdx BY <1>3, <1>4, <1>5
    <2>2. QED BY <1>3, <2>1 DEF AllReported, TablesInv
<1>7. ReportsWhatWasLinked' /\ ElfPhase' BY <1>1, <1>2, <1>3, <1>5, <1>6, EndsWell
<1>8. QED BY <1>2, <1>7 DEF ElfInv

\* A step that changes nothing keeps the invariant.
LEMMA ElfStutter == ASSUME ElfInv, UNCHANGED elfVars PROVE ElfInv'
<1>1. /\ linked' = linked /\ elf' = elf /\ elfPc' = elfPc /\ secIdx' = secIdx
      /\ segments' = segments /\ sections' = sections /\ symbols' = symbols
      /\ dynSymbols' = dynSymbols /\ elfRes' = elfRes
    BY DEF elfVars
<1>2. \A o, n : Fits(o, n)' = Fits(o, n) BY <1>1 DEF Fits
<1>3. ElfInput' = ElfInput BY <1>1 DEF ElfInput
<1>4. ReportsWhatWasLinked' = ReportsWhatWasLinked
    BY <1>1 DEF ReportsWhatWasLinked, Reported, Written, SectionOf, InFull, Fits
<1>5. /\ HeaderThere' = HeaderThere /\ SegmentsThere' = SegmentsThere
      /\ SectionsThere' = SectionsThere /\ Raw' = Raw /\ Resolved' = Resolved
    BY <1>1, FileOperatorsKept
<1>6. TablesInv' = TablesInv
    BY <1>1 DEF TablesInv, TableReported, TableThere, Reported, Written, SectionOf, InFull, Fits, Only
<1>7. ElfPhase' = ElfPhase BY <1>1, <1>5, <1>6 DEF ElfPhase
<1>8. QED BY <1>3, <1>4, <1>7 DEF ElfInv

\* The parser has read what it should have read, at every point of its way through the file.
THEOREM ElfInvariance == ElfSpec => []ElfInv
<1>1. ElfInit => ElfInv
    <2>1. SUFFICES ASSUME ElfInit PROVE ElfInv OBVIOUS
    <2>2. ElfInput BY <2>1 DEF ElfInit, ElfInput
    <2>3. ElfPhase BY <2>1 DEF ElfInit, ElfPhase
    <2>4. ReportsWhatWasLinked BY <2>1 DEF ElfInit, ReportsWhatWasLinked
    <2>5. QED BY <2>2, <2>3, <2>4 DEF ElfInv
<1>2. ElfInv /\ [ElfNext]_elfVars => ElfInv'
    BY HeaderStep, SegmentsStep, SectionsStep, NamesStep, SymbolsStep, FinishStep, ElfStutter
       DEF ElfNext
<1>3. QED BY <1>1, <1>2, PTL DEF ElfSpec

\* Whatever file a linker writes and however much of its end is missing, a parser that is
\* done has reported what was linked: it succeeds iff the headers are there, with the
\* segments, the sections and their names, and each symbol table whole or not at all.
THEOREM ElfReported == ElfSpec => []ReportsWhatWasLinked
<1>1. ElfInv => ReportsWhatWasLinked BY DEF ElfInv
<1>2. QED BY <1>1, ElfInvariance, PTL
-----------------------------------------------------------------------------
(* FLX: joined sequences.                                                  *)

\* The prefixes of a join grow by one piece at a time.
LEMMA JoinsSteps ==
    ASSUME NEW ss \in Seq(Seq(Nat))
    PROVE  /\ Len(ss) \in Nat
           /\ Joins(ss) \in [0 .. Len(ss) -> Seq(Nat)] /\ Joins(ss)[0] = <<>>
           /\ \A i \in 1 .. Len(ss) : Joins(ss)[i] = Joins(ss)[i - 1] \o ss[i]
<1> DEFINE n == Len(ss)
           D == Seq(Nat)
           step == [i \in 1 .. n |-> [x \in D |-> x \o ss[i]]]
           IsJoin(f) == f = [i \in 0 .. n |-> IF i = 0 THEN <<>> ELSE f[i - 1] \o ss[i]]
<1>1. n \in Nat /\ \A i \in 1 .. n : ss[i] \in D BY ElementOfSeq
<1>2. <<>> \in D OBVIOUS
<1>3. step \in [1 .. n -> [D -> D]]
    <2>1. \A x, y \in Seq(Nat) : x \o y \in Seq(Nat) OBVIOUS
    <2>2. QED BY <1>1, <2>1
<1>4. PICK f \in [0 .. n -> D] : Iterates(f, n, <<>>, step) BY <1>1, <1>2, <1>3, IterationExists
<1>5. ASSUME NEW i \in 1 .. n PROVE step[i][f[i - 1]] = f[i - 1] \o ss[i]
    <2>1. i - 1 \in 0 .. n BY <1>1
    <2>2. f[i - 1] \in D BY <2>1, <1>4
    <2>3. QED BY <2>2
<1>6. IsJoin(f)
    <2>1. f = [i \in 0 .. n |-> IF i = 0 THEN <<>> ELSE step[i][f[i - 1]]] BY <1>4 DEF Iterates
    <2>2. \A i \in 0 .. n : i # 0 => i \in 1 .. n BY <1>1
    <2> HIDE DEF step, n
    <2>3. QED BY <1>5, <2>1, <2>2
<1>7. IsJoin(Joins(ss))
    <2>1. Joins(ss) = CHOOSE g : IsJoin(g) BY DEF Joins
    <2> HIDE DEF IsJoin
    <2>2. QED BY <1>6, <2>1
<1>8. \A i \in 1 .. n : Joins(ss)[i] = Joins(ss)[i - 1] \o ss[i]
    <2>1. \A i \in 1 .. n : i \in 0 .. n /\ i # 0 BY <1>1
    <2> HIDE DEF n
    <2>2. QED BY <1>7, <2>1
<1>9. Joins(ss)[0] = <<>>
    <2>1. 0 \in 0 .. n BY <1>1
    <2> HIDE DEF n
    <2>2. QED BY <1>7, <2>1
<1>10. Joins(ss) \in [0 .. n -> D]
    <2> DEFINE S == {i \in 0 .. n : Joins(ss)[i] \in D}
    <2> HIDE DEF n, D
    <2>1. 0 \in S
        <3>1. 0 \in 0 .. n BY <1>1
        <3>2. QED BY <1>2, <1>9, <3>1
    <2>2. ASSUME NEW i \in 0 .. n, i < n, i \in S PROVE i + 1 \in S
        <3>1. i + 1 \in 1 .. n /\ i + 1 \in 0 .. n /\ (i + 1) - 1 = i BY <1>1, <2>2
        <3>2. Joins(ss)[i + 1] = Joins(ss)[i] \o ss[i + 1] BY <1>8, <3>1
        <3>3. ss[i + 1] \in Seq(Nat) /\ Joins(ss)[i] \in Seq(Nat) BY <1>1, <2>2, <3>1 DEF D
        <3>4. Joins(ss)[i + 1] \in D BY <3>2, <3>3 DEF D
        <3>5. QED BY <3>1, <3>4
    <2>3. 0 .. n \subseteq S
        <3> HIDE DEF S
        <3>1. QED BY <1>1, <2>1, <2>2, UpTo
    <2>4. \A i \in 0 .. n : Joins(ss)[i] \in D BY <2>3
    <2>5. Joins(ss) = [i \in 0 .. n |-> Joins(ss)[i]]
        <3>1. Joins(ss) = [i \in 0 .. n |-> IF i = 0 THEN <<>> ELSE Joins(ss)[i - 1] \o ss[i]]
            BY <1>7
        <3>2. QED BY <3>1
    <2>6. QED BY <2>4, <2>5
<1>11. QED BY <1>1, <1>8, <1>9, <1>10

\* The prefix after a is the beginning of every later prefix.
Begins(x, y) == Len(x) <= Len(y) /\ \A k \in 1 .. Len(x) : y[k] = x[k]

\* A sequence begins each of its continuations, and so on.
LEMMA BeginsConcat ==
    ASSUME NEW x \in Seq(Nat), NEW y \in Seq(Nat), NEW z \in Seq(Nat), Begins(x, y)
    PROVE  Begins(x, y \o z)
<1>1. Len(y \o z) = Len(y) + Len(z) /\ Len(x) \in Nat /\ Len(y) \in Nat /\ Len(z) \in Nat
    OBVIOUS
<1>2. \A k \in 1 .. Len(y) : (y \o z)[k] = y[k] OBVIOUS
<1>3. Len(x) <= Len(y) BY DEF Begins
<1>4. \A k \in 1 .. Len(x) : k \in 1 .. Len(y) BY <1>1, <1>3
<1>5. \A k \in 1 .. Len(x) : (y \o z)[k] = x[k] BY <1>2, <1>4 DEF Begins
<1>6. Len(x) <= Len(y \o z) BY <1>1, <1>3
<1>7. QED BY <1>5, <1>6 DEF Begins

\* Earlier prefixes of a join are prefixes of the later ones.
LEMMA JoinsGrow ==
    ASSUME NEW ss \in Seq(Seq(Nat)), NEW i \in 0 .. Len(ss), NEW m \in i .. Len(ss)
    PROVE  Begins(Joins(ss)[i], Joins(ss)[m])
<1> DEFINE n == Len(ss)
           P == Joins(ss)
           S == {x \in 0 .. (n - i) : Begins(P[i], P[i + x])}
<1>1. n \in Nat /\ i \in Nat /\ i <= n /\ n - i \in Nat BY JoinsSteps
<1>2. \A x \in 0 .. n : P[x] \in Seq(Nat) BY JoinsSteps
<1>3. 0 \in S
    <2>1. i + 0 = i /\ 0 \in 0 .. (n - i) BY <1>1
    <2>2. P[i] \in Seq(Nat) BY <1>2
    <2>3. Len(P[i]) <= Len(P[i]) BY <2>2
    <2>4. Begins(P[i], P[i]) BY <2>3 DEF Begins
    <2>5. QED BY <2>1, <2>4
<1>4. ASSUME NEW x \in 0 .. (n - i), x < n - i, x \in S PROVE x + 1 \in S
    <2>1. /\ i + x \in 0 .. n /\ i + (x + 1) \in 1 .. n /\ (i + (x + 1)) - 1 = i + x
          /\ x + 1 \in 0 .. (n - i)
        BY <1>1, <1>4
    <2>2. P[i + (x + 1)] = P[i + x] \o ss[i + (x + 1)] BY <2>1, JoinsSteps
    <2>3. P[i] \in Seq(Nat) /\ P[i + x] \in Seq(Nat) BY <1>2, <2>1
    <2>4. ss[i + (x + 1)] \in Seq(Nat) BY <2>1, ElementOfSeq
    <2>5. Begins(P[i], P[i + (x + 1)]) BY <1>4, <2>2, <2>3, <2>4, BeginsConcat
    <2>6. QED BY <2>1, <2>5
<1>5. 0 .. (n - i) \subseteq S
    <2> HIDE DEF S, n
    <2>1. QED BY <1>1, <1>3, <1>4, UpTo
<1>6. m - i \in 0 .. (n - i) /\ i + (m - i) = m BY <1>1
<1>7. QED BY <1>5, <1>6

\* Where a piece lies in a join.
LEMMA PieceAt ==
    ASSUME NEW ss \in Seq(Seq(Nat)), NEW i \in 1 .. Len(ss), NEW m \in i .. Len(ss)
    PROVE  /\ Len(Joins(ss)[i - 1]) \in Nat /\ Len(ss[i]) \in Nat
           /\ Len(Joins(ss)[i]) = Len(Joins(ss)[i - 1]) + Len(ss[i])
           /\ Len(Joins(ss)[i]) <= Len(Joins(ss)[m])
           /\ \A k \in 1 .. Len(ss[i]) : Joins(ss)[m][Len(Joins(ss)[i - 1]) + k] = ss[i][k]
<1>1. Len(ss) \in Nat /\ i - 1 \in 0 .. Len(ss) /\ i \in 0 .. Len(ss) BY JoinsSteps
<1>2. PICK p \in Seq(Nat), q \in Seq(Nat), r \in Seq(Nat) :
        p = Joins(ss)[i - 1] /\ q = ss[i] /\ r = Joins(ss)[i]
    BY <1>1, JoinsSteps, ElementOfSeq
<1>3. r = p \o q BY <1>2, JoinsSteps
<1>4. Len(p) \in Nat /\ Len(q) \in Nat /\ Len(r) = Len(p) + Len(q) BY <1>3
<1>5. Begins(r, Joins(ss)[m]) BY <1>1, <1>2, JoinsGrow
<1>6. ASSUME NEW k \in 1 .. Len(q) PROVE Joins(ss)[m][Len(p) + k] = q[k]
    <2>1. Len(p) + k \in 1 .. Len(r) BY <1>4
    <2>2. Joins(ss)[m][Len(p) + k] = r[Len(p) + k] BY <1>5, <2>1 DEF Begins
    <2>3. (p \o q)[Len(p) + k] = q[k]
        <3>1. Len(p) + k \in 1 .. (Len(p) + Len(q)) /\ ~(Len(p) + k <= Len(p))
              /\ (Len(p) + k) - Len(p) = k
            BY <1>4
        <3>2. QED BY <3>1
    <2>4. QED BY <1>3, <2>2, <2>3
<1>7. Len(r) <= Len(Joins(ss)[m]) BY <1>5 DEF Begins
<1>8. QED BY <1>2, <1>4, <1>6, <1>7

-----------------------------------------------------------------------------
(* FLX: numbers and entries.                                               *)

\* The i-th byte of a number.
ByteOf(n, i) == (n \div Weight[i]) % 256

\* The bytes of a number, in as many places as are asked for.
LEMMA LEBytes ==
    ASSUME NEW n \in Int, NEW w \in {0, 1, 2, 4}
    PROVE  /\ LE(n, w) \in Seq(Nat) /\ Len(LE(n, w)) = w
           /\ \A i \in 1 .. w : LE(n, w)[i] = ByteOf(n, i)
           /\ w = 0 => LE(n, w) = <<>>
<1>1. \A x \in Int : x % 256 \in Nat OBVIOUS
<1>2. n \div 1 \in Int /\ n \div 256 \in Int /\ n \div 65536 \in Int /\ n \div 16777216 \in Int
    OBVIOUS
<1>3. /\ Weight[1] = 1 /\ Weight[2] = 256 /\ Weight[3] = 65536 /\ Weight[4] = 16777216
    BY DEF Weight
<1>4. \A i \in 1 .. 4 : i = 1 \/ i = 2 \/ i = 3 \/ i = 4 OBVIOUS
<1>5. \A i \in 1 .. 4 : ByteOf(n, i) \in Nat BY <1>1, <1>2, <1>3, <1>4 DEF ByteOf
<1>6. w \in Nat /\ \A i \in 1 .. w : i \in 1 .. 4 OBVIOUS
<1> DEFINE f == [i \in 1 .. w |-> ByteOf(n, i)]
<1>7. f \in [1 .. w -> Nat] BY <1>5, <1>6
<1>8. LE(n, w) = f BY DEF LE, ByteOf
<1>9. \A i \in 1 .. w : f[i] = ByteOf(n, i) OBVIOUS
<1>10. w = 0 => f = <<>>
    <2>1. SUFFICES ASSUME w = 0 PROVE f = <<>> OBVIOUS
    <2>2. f = [i \in 1 .. 0 |-> ByteOf(n, i)] BY <2>1
    <2>3. QED BY <2>2
<1> HIDE DEF f
<1>11. f \in Seq(Nat) /\ Len(f) = w BY <1>6, <1>7
<1>12. QED BY <1>8, <1>9, <1>10, <1>11

\* Sixteen bits.
LEMMA TwoBytes ==
    ASSUME NEW n \in Int
    PROVE  /\ 0 <= n /\ n < 256 => ByteOf(n, 1) = n
           /\ 0 <= n /\ n < 65536 => ByteOf(n, 1) + 256 * ByteOf(n, 2) = n
           /\ -32768 <= n /\ n < 0 => ByteOf(n, 1) + 256 * ByteOf(n, 2) = n + 65536
<1>0. ByteOf(n, 1) = n % 256 /\ ByteOf(n, 2) = (n \div 256) % 256
    <2>1. Weight[1] = 1 /\ Weight[2] = 256 BY DEF Weight
    <2>2. n \div 1 = n OBVIOUS
    <2>3. QED BY <2>1, <2>2 DEF ByteOf
<1>1. PICK q \in Int, r \in Int : q = n \div 256 /\ r = n % 256 /\ n = 256 * q + r /\ 0 <= r /\ r < 256
    OBVIOUS
<1>2. ASSUME 0 <= n, n < 65536 PROVE q % 256 = q
    <2>1. 0 <= q /\ q < 256 BY <1>1, <1>2
    <2>2. QED BY <2>1
<1>3. ASSUME -32768 <= n, n < 0 PROVE q % 256 = q + 256
    <2>1. -128 <= q /\ q < 0 BY <1>1, <1>3
    <2>2. QED BY <2>1
<1>4. QED BY <1>0, <1>1, <1>2, <1>3

\* Quotient and remainder.
LEMMA Split256 ==
    ASSUME NEW n \in Nat
    PROVE  \E q \in Nat, r \in Nat : q = n \div 256 /\ r = n % 256 /\ n = 256 * q + r /\ r < 256
OBVIOUS

\* Thirty-two bits.
LEMMA FourBytes ==
    ASSUME NEW n \in Nat, Fits32(n)
    PROVE  (ByteOf(n, 1) + 256 * ByteOf(n, 2)) + 65536 * (ByteOf(n, 3) + 256 * ByteOf(n, 4)) = n
<1>1. PICK a \in Nat, x \in Nat : a = n \div 256 /\ x = n % 256 /\ n = 256 * a + x BY Split256
<1>2. PICK b \in Nat, y \in Nat : b = a \div 256 /\ y = a % 256 /\ a = 256 * b + y BY Split256
<1>3. PICK c \in Nat, z \in Nat : c = b \div 256 /\ z = b % 256 /\ b = 256 * c + z BY Split256
<1>4. b = n \div 65536 BY <1>1, <1>2
<1>5. c = n \div 16777216 BY <1>3, <1>4
<1>6. c % 256 = c
    <2>1. c < 256 BY <1>5 DEF Fits32
    <2>2. QED BY <2>1
<1>7. ByteOf(n, 1) = x
    <2>1. Weight[1] = 1 BY DEF Weight
    <2>2. n \div 1 = n OBVIOUS
    <2>3. QED BY <1>1, <2>1, <2>2 DEF ByteOf
<1>8. ByteOf(n, 2) = y
    <2>1. Weight[2] = 256 BY DEF Weight
    <2>2. QED BY <1>1, <1>2, <2>1 DEF ByteOf
<1>9. ByteOf(n, 3) = z
    <2>1. Weight[3] = 65536 BY DEF Weight
    <2>2. QED BY <1>3, <1>4, <2>1 DEF ByteOf
<1>10. ByteOf(n, 4) = c
    <2>1. Weight[4] = 16777216 BY DEF Weight
    <2>2. QED BY <1>5, <1>6, <2>1 DEF ByteOf
<1>11. n = x + 256 * y + 65536 * (z + 256 * c)
    <2>1. n = 256 * a + x /\ a = 256 * b + y /\ b = 256 * c + z BY <1>1, <1>2, <1>3
    <2>2. QED BY ONLY <2>1
<1>12. QED BY ONLY <1>7, <1>8, <1>9, <1>10, <1>11

\* Where the pieces of a concatenation lie.
LEMMA ConcatAt ==
    ASSUME NEW x \in Seq(Nat), NEW y \in Seq(Nat)
    PROVE  /\ x \o y \in Seq(Nat) /\ Len(x \o y) = Len(x) + Len(y)
           /\ \A i \in 1 .. Len(x) : (x \o y)[i] = x[i]
           /\ \A i \in 1 .. Len(y) : (x \o y)[Len(x) + i] = y[i]
<1>1. x \o y \in Seq(Nat) /\ Len(x \o y) = Len(x) + Len(y) /\ Len(x) \in Nat /\ Len(y) \in Nat
    OBVIOUS
<1>2. \A i \in 1 .. Len(x) : (x \o y)[i] = x[i] OBVIOUS
<1>3. ASSUME NEW i \in 1 .. Len(y) PROVE (x \o y)[Len(x) + i] = y[i]
    <2>1. /\ Len(x) + i \in 1 .. (Len(x) + Len(y)) /\ ~(Len(x) + i <= Len(x))
          /\ (Len(x) + i) - Len(x) = i
        BY <1>1
    <2>2. QED BY <2>1
<1>4. QED BY <1>1, <1>2, <1>3

\* A key and a value with their lengths.
PairLayout(m, bytes) ==
    /\ bytes \in Seq(Nat) /\ Len(m.key) \in Nat /\ Len(m.val) \in Nat
    /\ Len(bytes) = 4 + Len(m.key) + Len(m.val)
    /\ bytes[1] + 256 * bytes[2] = Len(m.key)
    /\ bytes[3 + Len(m.key)] + 256 * bytes[4 + Len(m.key)] = Len(m.val)
    /\ \A k \in 1 .. Len(m.key) : bytes[2 + k] = m.key[k]
    /\ \A k \in 1 .. Len(m.val) : bytes[4 + Len(m.key) + k] = m.val[k]
IsPair(m) == m \in Pairs /\ Len(m.key) < 65536 /\ Len(m.val) < 65536

\* That is how a pair is written.
LEMMA PairAt ==
    ASSUME NEW m, IsPair(m)
    PROVE  PairLayout(m, PairBytes(m))
<1>1. PICK key \in Seq(Nat), val \in Seq(Nat) : key = m.key /\ val = m.val BY DEF IsPair, Pairs
<1>2. PICK x \in Nat, y \in Nat : x = Len(key) /\ y = Len(val) /\ x < 65536 /\ y < 65536
    BY <1>1 DEF IsPair
<1>3. PICK h, g : h = LE(x, 2) /\ g = LE(y, 2) OBVIOUS
<1>4. /\ h \in Seq(Nat) /\ Len(h) = 2 /\ h[1] + 256 * h[2] = x
      /\ g \in Seq(Nat) /\ Len(g) = 2 /\ g[1] + 256 * g[2] = y
    <2>1. /\ h \in Seq(Nat) /\ Len(h) = 2 /\ g \in Seq(Nat) /\ Len(g) = 2
          /\ \A i \in 1 .. 2 : h[i] = ByteOf(x, i) /\ g[i] = ByteOf(y, i)
        BY <1>3, LEBytes
    <2>2. ByteOf(x, 1) + 256 * ByteOf(x, 2) = x /\ ByteOf(y, 1) + 256 * ByteOf(y, 2) = y
        BY <1>2, TwoBytes
    <2>3. 1 \in 1 .. 2 /\ 2 \in 1 .. 2 OBVIOUS
    <2>4. QED BY ONLY <2>1, <2>2, <2>3
<1> DEFINE p == h \o key
           q == p \o g
           b == q \o val
<1>5. /\ p \in Seq(Nat) /\ Len(p) = 2 + x
      /\ \A i \in 1 .. 2 : p[i] = h[i]
      /\ \A i \in 1 .. x : p[2 + i] = key[i]
    <2>1. /\ p \in Seq(Nat) /\ Len(p) = Len(h) + Len(key)
          /\ \A i \in 1 .. Len(h) : p[i] = h[i]
          /\ \A i \in 1 .. Len(key) : p[Len(h) + i] = key[i]
        BY ONLY <1>1, <1>4, ConcatAt, Zenon
    <2> HIDE DEF p
    <2>2. QED BY ONLY <1>2, <1>4, <2>1
<1> HIDE DEF p
<1>6. /\ q \in Seq(Nat) /\ Len(q) = (2 + x) + 2
      /\ \A i \in 1 .. (2 + x) : q[i] = p[i]
      /\ \A i \in 1 .. 2 : q[(2 + x) + i] = g[i]
    <2>1. /\ q \in Seq(Nat) /\ Len(q) = Len(p) + Len(g)
          /\ \A i \in 1 .. Len(p) : q[i] = p[i]
          /\ \A i \in 1 .. Len(g) : q[Len(p) + i] = g[i]
        BY ONLY <1>4, <1>5, ConcatAt, Zenon
    <2> HIDE DEF q
    <2>2. QED BY ONLY <1>4, <1>5, <2>1
<1> HIDE DEF q
<1>7. /\ b \in Seq(Nat) /\ Len(b) = ((2 + x) + 2) + y
      /\ \A i \in 1 .. ((2 + x) + 2) : b[i] = q[i]
      /\ \A i \in 1 .. y : b[((2 + x) + 2) + i] = val[i]
    <2>1. /\ b \in Seq(Nat) /\ Len(b) = Len(q) + Len(val)
          /\ \A i \in 1 .. Len(q) : b[i] = q[i]
          /\ \A i \in 1 .. Len(val) : b[Len(q) + i] = val[i]
        BY ONLY <1>1, <1>6, ConcatAt, Zenon
    <2> HIDE DEF b
    <2>2. QED BY ONLY <1>2, <1>6, <2>1
<1>8. PairBytes(m) = b
    <2>1. PairBytes(m) = h \o key \o g \o val BY <1>1, <1>2, <1>3 DEF PairBytes
    <2>2. QED BY <2>1 DEF p, q
<1> HIDE DEF b
<1>9. /\ (2 + x) + 2 = 4 + x /\ (2 + x) + 1 = 3 + x
      /\ \A i \in 1 .. (2 + x) : i \in 1 .. ((2 + x) + 2)
      /\ \A i \in 1 .. x : 2 + i \in 1 .. (2 + x)
      /\ 1 \in 1 .. (2 + x) /\ 2 \in 1 .. (2 + x) /\ 1 \in 1 .. 2 /\ 2 \in 1 .. 2
      /\ (2 + x) + 1 \in 1 .. ((2 + x) + 2) /\ (2 + x) + 2 \in 1 .. ((2 + x) + 2)
    BY <1>2
<1>10. b[1] = h[1] /\ b[2] = h[2] BY ONLY <1>5, <1>6, <1>7, <1>9
<1>11. \A k \in 1 .. x : b[2 + k] = key[k] BY ONLY <1>5, <1>6, <1>7, <1>9
<1>12. b[3 + x] = g[1] /\ b[4 + x] = g[2]
    <2>1. q[(2 + x) + 1] = g[1] /\ q[(2 + x) + 2] = g[2] BY ONLY <1>6, <1>9
    <2>2. b[(2 + x) + 1] = q[(2 + x) + 1] /\ b[(2 + x) + 2] = q[(2 + x) + 2] BY ONLY <1>7, <1>9
    <2>3. QED BY ONLY <1>9, <2>1, <2>2
<1>13. \A k \in 1 .. y : b[4 + x + k] = val[k] BY ONLY <1>7, <1>9
<1>14. Len(b) = 4 + x + y BY ONLY <1>7, <1>9
<1>15. b[1] + 256 * b[2] = x /\ b[3 + x] + 256 * b[4 + x] = y BY ONLY <1>4, <1>10, <1>12
<1>16. Len(m.key) = x /\ Len(m.val) = y /\ x \in Nat /\ y \in Nat BY <1>1, <1>2
<1>17. QED BY ONLY <1>1, <1>7, <1>8, <1>11, <1>13, <1>14, <1>15, <1>16 DEF PairLayout


\* A constant: its tag, for a string its length, and its value.
ConstantLayout(c, bytes) ==
    /\ bytes \in Seq(Nat) /\ Len(c.val) \in Nat /\ bytes[1] = c.tag
    /\ IsString(c) =>
         /\ Len(bytes) = 5 + Len(c.val)
         /\ (bytes[2] + 256 * bytes[3]) + 65536 * (bytes[4] + 256 * bytes[5]) = Len(c.val)
         /\ \A k \in 1 .. Len(c.val) : bytes[5 + k] = c.val[k]
    /\ ~IsString(c) =>
         /\ Len(bytes) = 1 + Len(c.val)
         /\ \A k \in 1 .. Len(c.val) : bytes[1 + k] = c.val[k]

\* That is how a constant is written.
LEMMA ConstantAt ==
    ASSUME NEW c, IsConstant(c)
    PROVE  ConstantLayout(c, ConstantBytes(c))
<1>1. PICK t \in Nat, val \in Seq(Nat) : t = c.tag /\ val = c.val BY DEF IsConstant, Constants
<1>2. PICK y \in Nat : y = Len(val) BY <1>1
<1>3. PICK g : g = IF IsString(c) THEN LE(y, 4) ELSE <<>> OBVIOUS
<1>4. /\ g \in Seq(Nat)
      /\ IsString(c) => /\ Len(g) = 4
                        /\ (g[1] + 256 * g[2]) + 65536 * (g[3] + 256 * g[4]) = y
      /\ ~IsString(c) => Len(g) = 0
    <2>1. CASE IsString(c)
        <3>1. /\ g \in Seq(Nat) /\ Len(g) = 4 /\ \A i \in 1 .. 4 : g[i] = ByteOf(y, i)
            BY <1>3, <2>1, LEBytes
        <3>2. (ByteOf(y, 1) + 256 * ByteOf(y, 2)) + 65536 * (ByteOf(y, 3) + 256 * ByteOf(y, 4)) = y
            <4>1. Fits32(y) BY <1>1, <1>2, <2>1 DEF IsConstant
            <4>2. QED BY <4>1, FourBytes
        <3>3. 1 \in 1 .. 4 /\ 2 \in 1 .. 4 /\ 3 \in 1 .. 4 /\ 4 \in 1 .. 4 OBVIOUS
        <3>4. QED BY ONLY <2>1, <3>1, <3>2, <3>3
    <2>2. CASE ~IsString(c)
        <3>1. g = <<>> BY <1>3, <2>2
        <3>2. QED BY ONLY <2>2, <3>1
    <2>3. QED BY <2>1, <2>2
<1>5. PICK h : h = <<t>> OBVIOUS
<1>6. h \in Seq(Nat) /\ Len(h) = 1 /\ h[1] = t BY <1>5
<1> DEFINE p == h \o g
           bs == p \o val
<1>7. /\ p \in Seq(Nat) /\ Len(p) = 1 + Len(g) /\ p[1] = t
      /\ \A i \in 1 .. Len(g) : p[1 + i] = g[i]
    <2>1. /\ p \in Seq(Nat) /\ Len(p) = Len(h) + Len(g)
          /\ \A i \in 1 .. Len(h) : p[i] = h[i]
          /\ \A i \in 1 .. Len(g) : p[Len(h) + i] = g[i]
        <3>1. h \in Seq(Nat) /\ g \in Seq(Nat) BY <1>4, <1>6
        <3>2. QED BY ONLY <3>1, ConcatAt, Zenon
    <2>2. 1 \in 1 .. 1 OBVIOUS
    <2> HIDE DEF p
    <2>3. QED BY ONLY <1>6, <2>1, <2>2
<1> HIDE DEF p
<1>8. /\ bs \in Seq(Nat) /\ Len(bs) = Len(p) + y
      /\ \A i \in 1 .. Len(p) : bs[i] = p[i]
      /\ \A i \in 1 .. y : bs[Len(p) + i] = val[i]
    <2>1. /\ bs \in Seq(Nat) /\ Len(bs) = Len(p) + Len(val)
          /\ \A i \in 1 .. Len(p) : bs[i] = p[i]
          /\ \A i \in 1 .. Len(val) : bs[Len(p) + i] = val[i]
        BY ONLY <1>1, <1>7, ConcatAt, Zenon
    <2> HIDE DEF bs
    <2>2. QED BY ONLY <1>2, <2>1
<1>9. ConstantBytes(c) = bs
    <2>1. ConstantBytes(c) = h \o g \o val BY <1>1, <1>2, <1>3, <1>5 DEF ConstantBytes
    <2>2. QED BY <2>1 DEF p
<1> HIDE DEF bs
<1>10. bs[1] = t
    <2>1. 1 \in 1 .. Len(p)
        <3>1. Len(g) \in Nat BY <1>4
        <3>2. QED BY ONLY <1>7, <3>1
    <2>2. QED BY ONLY <1>7, <1>8, <2>1
<1>11. ASSUME IsString(c)
       PROVE  /\ Len(bs) = 5 + y
              /\ (bs[2] + 256 * bs[3]) + 65536 * (bs[4] + 256 * bs[5]) = y
              /\ \A k \in 1 .. y : bs[5 + k] = val[k]
    <2>1. Len(g) = 4 BY <1>4, <1>11
    <2>0. Len(p) = 5 BY ONLY <1>7, <2>1
    <2>2. /\ 1 + 1 = 2 /\ 1 + 2 = 3 /\ 1 + 3 = 4 /\ 1 + 4 = 5
          /\ 1 \in 1 .. 4 /\ 2 \in 1 .. 4 /\ 3 \in 1 .. 4 /\ 4 \in 1 .. 4
          /\ 2 \in 1 .. 5 /\ 3 \in 1 .. 5 /\ 4 \in 1 .. 5 /\ 5 \in 1 .. 5
        OBVIOUS
    <2>3. p[1 + 1] = g[1] /\ p[1 + 2] = g[2] /\ p[1 + 3] = g[3] /\ p[1 + 4] = g[4]
        BY ONLY <1>7, <2>1, <2>2
    <2>4. bs[2] = p[2] /\ bs[3] = p[3] /\ bs[4] = p[4] /\ bs[5] = p[5] BY ONLY <1>8, <2>0, <2>2
    <2>5. bs[2] = g[1] /\ bs[3] = g[2] /\ bs[4] = g[3] /\ bs[5] = g[4]
        BY ONLY <2>2, <2>3, <2>4
    <2>6. (g[1] + 256 * g[2]) + 65536 * (g[3] + 256 * g[4]) = y BY <1>4, <1>11
    <2>7. QED BY ONLY <1>8, <2>0, <2>5, <2>6
<1>12. ASSUME ~IsString(c)
       PROVE  Len(bs) = 1 + y /\ \A k \in 1 .. y : bs[1 + k] = val[k]
    <2>0. Len(g) = 0 BY <1>4, <1>12
    <2>1. Len(p) = 1 BY ONLY <1>7, <2>0
    <2>2. QED BY ONLY <1>8, <2>1
<1>13. Len(c.val) = y /\ y \in Nat BY <1>1, <1>2
<1>14. QED BY <1>1, <1>8, <1>9, <1>10, <1>11, <1>12, <1>13 DEF ConstantLayout

\* An instruction: its opcode and its operand.
InstructionLayout(it, bytes) ==
    /\ bytes \in Seq(Nat) /\ Len(bytes) = 1 + it.width /\ bytes[1] = it.op
    /\ \A i \in 1 .. it.width : bytes[1 + i] = ByteOf(it.arg, i)

\* That is how an instruction is written.
LEMMA InstructionAt ==
    ASSUME NEW it \in Instructions
    PROVE  InstructionLayout(it, InstructionBytes(it))
<1>1. PICK op \in Nat, width \in {0, 1, 2, 4}, arg \in Int :
        op = it.op /\ width = it.width /\ arg = it.arg
    <2>1. it.width \in {0, 1, 2, 4} BY DEF Instructions
    <2>2. QED BY <2>1 DEF Instructions
<1>2. PICK h, g : h = <<op>> /\ g = LE(arg, width) OBVIOUS
<1>3. h \in Seq(Nat) /\ Len(h) = 1 /\ h[1] = op BY <1>2
<1>4. g \in Seq(Nat) /\ Len(g) = width /\ \A i \in 1 .. width : g[i] = ByteOf(arg, i)
    BY <1>2, LEBytes
<1> DEFINE p == h \o g
<1>5. /\ p \in Seq(Nat) /\ Len(p) = 1 + width /\ p[1] = op
      /\ \A i \in 1 .. width : p[1 + i] = g[i]
    <2>1. /\ p \in Seq(Nat) /\ Len(p) = Len(h) + Len(g)
          /\ \A i \in 1 .. Len(h) : p[i] = h[i]
          /\ \A i \in 1 .. Len(g) : p[Len(h) + i] = g[i]
        BY ONLY <1>3, <1>4, ConcatAt, Zenon
    <2>2. 1 \in 1 .. 1 OBVIOUS
    <2> HIDE DEF p
    <2>3. QED BY ONLY <1>3, <1>4, <2>1, <2>2
<1>6. InstructionBytes(it) = p BY <1>1, <1>2 DEF InstructionBytes
<1> HIDE DEF p
<1>7. QED BY ONLY <1>1, <1>4, <1>5, <1>6 DEF InstructionLayout

\* The entries of a section are as many as the description has, and sequences of bytes.
LEMMA EntriesOf ==
    ASSUME NEW d, WellCompiled(d)
    PROVE  /\ EntryBytes(d, "metadata") \in Seq(Seq(Nat)) /\ Len(EntryBytes(d, "metadata")) = Len(d.meta)
           /\ Len(d.meta) \in Nat
           /\ \A i \in 1 .. Len(d.meta) : EntryBytes(d, "metadata")[i] = PairBytes(d.meta[i])
           /\ EntryBytes(d, "pool") \in Seq(Seq(Nat)) /\ Len(EntryBytes(d, "pool")) = Len(d.pool)
           /\ Len(d.pool) \in Nat
           /\ \A i \in 1 .. Len(d.pool) : EntryBytes(d, "pool")[i] = ConstantBytes(d.pool[i])
           /\ EntryBytes(d, "bytecode") \in Seq(Seq(Nat)) /\ Len(EntryBytes(d, "bytecode")) = Len(d.code)
           /\ Len(d.code) \in Nat
           /\ \A i \in 1 .. Len(d.code) : EntryBytes(d, "bytecode")[i] = InstructionBytes(d.code[i])
<1>2. d.meta \in Seq(Pairs) /\ d.pool \in Seq(Constants) /\ d.code \in Seq(Instructions)
    BY DEF WellCompiled
<1>3. /\ Len(d.meta) \in Nat /\ DOMAIN d.meta = 1 .. Len(d.meta)
      /\ Len(d.pool) \in Nat /\ DOMAIN d.pool = 1 .. Len(d.pool)
      /\ Len(d.code) \in Nat /\ DOMAIN d.code = 1 .. Len(d.code)
    BY <1>2
<1>4. /\ EntryBytes(d, "metadata") = [i \in 1 .. Len(d.meta) |-> PairBytes(d.meta[i])]
      /\ EntryBytes(d, "pool") = [i \in 1 .. Len(d.pool) |-> ConstantBytes(d.pool[i])]
      /\ EntryBytes(d, "bytecode") = [i \in 1 .. Len(d.code) |-> InstructionBytes(d.code[i])]
    BY <1>3 DEF EntryBytes
<1>5. ASSUME NEW i \in 1 .. Len(d.meta) PROVE PairBytes(d.meta[i]) \in Seq(Nat)
    <2>1. d.meta[i] \in Pairs BY <1>2, ElementOfSeq
    <2>2. Len(d.meta[i].key) < 65536 /\ Len(d.meta[i].val) < 65536 BY <1>3 DEF WellCompiled
    <2>3. IsPair(d.meta[i]) BY <2>1, <2>2 DEF IsPair
    <2>4. QED BY <2>3, PairAt DEF PairLayout
<1>6. ASSUME NEW i \in 1 .. Len(d.pool) PROVE ConstantBytes(d.pool[i]) \in Seq(Nat)
    <2>1. IsConstant(d.pool[i]) BY <1>3 DEF WellCompiled
    <2>2. QED BY <2>1, ConstantAt DEF ConstantLayout
<1>7. ASSUME NEW i \in 1 .. Len(d.code) PROVE InstructionBytes(d.code[i]) \in Seq(Nat)
    <2>1. d.code[i] \in Instructions BY <1>2, ElementOfSeq
    <2>2. QED BY <2>1, InstructionAt DEF InstructionLayout
<1>8. EntryBytes(d, "metadata") \in Seq(Seq(Nat)) /\ Len(EntryBytes(d, "metadata")) = Len(d.meta)
    <2> DEFINE es == [i \in 1 .. Len(d.meta) |-> PairBytes(d.meta[i])]
    <2>1. es \in [1 .. Len(d.meta) -> Seq(Nat)] BY <1>5
    <2> HIDE DEF es
    <2>2. es \in Seq(Seq(Nat)) /\ Len(es) = Len(d.meta) BY ONLY <1>3, <2>1
    <2>3. EntryBytes(d, "metadata") = es BY <1>4 DEF es
    <2>4. QED BY <2>2, <2>3
<1>9. EntryBytes(d, "pool") \in Seq(Seq(Nat)) /\ Len(EntryBytes(d, "pool")) = Len(d.pool)
    <2> DEFINE es == [i \in 1 .. Len(d.pool) |-> ConstantBytes(d.pool[i])]
    <2>1. es \in [1 .. Len(d.pool) -> Seq(Nat)] BY <1>6
    <2> HIDE DEF es
    <2>2. es \in Seq(Seq(Nat)) /\ Len(es) = Len(d.pool) BY ONLY <1>3, <2>1
    <2>3. EntryBytes(d, "pool") = es BY <1>4 DEF es
    <2>4. QED BY <2>2, <2>3
<1>10. EntryBytes(d, "bytecode") \in Seq(Seq(Nat)) /\ Len(EntryBytes(d, "bytecode")) = Len(d.code)
    <2> DEFINE es == [i \in 1 .. Len(d.code) |-> InstructionBytes(d.code[i])]
    <2>1. es \in [1 .. Len(d.code) -> Seq(Nat)] BY <1>7
    <2> HIDE DEF es
    <2>2. es \in Seq(Seq(Nat)) /\ Len(es) = Len(d.code) BY ONLY <1>3, <2>1
    <2>3. EntryBytes(d, "bytecode") = es BY <1>4 DEF es
    <2>4. QED BY <2>2, <2>3
<1>11. QED BY <1>3, <1>4, <1>8, <1>9, <1>10

-----------------------------------------------------------------------------
(* FLX: the layout of the file.                                            *)

\* The bytes of the j-th of some entries lie together in what they give when joined.
EntryLies(es, whole, j) ==
    /\ Len(es[j]) \in Nat /\ Len(Joins(es)[j - 1]) \in Nat
    /\ Len(Joins(es)[j]) = Len(Joins(es)[j - 1]) + Len(es[j])
    /\ Len(Joins(es)[j]) <= Len(whole)
    /\ \A k \in 1 .. Len(es[j]) : whole[Len(Joins(es)[j - 1]) + k] = es[j][k]

\* They do in every section.
LEMMA EntryInSection ==
    ASSUME NEW d, WellCompiled(d), NEW s \in Sections, NEW j \in 1 .. Len(EntryBytes(d, s))
    PROVE  EntryLies(EntryBytes(d, s), SectionBytes(d, s), j)
<1>1. PICK es : es = EntryBytes(d, s) OBVIOUS
<1>2. es \in Seq(Seq(Nat)) BY <1>1, EntriesOf DEF Sections
<1>3. Len(es) \in Nat /\ j \in 1 .. Len(es) /\ Len(es) \in j .. Len(es) BY <1>1, <1>2
<1>4. SectionBytes(d, s) = Joins(es)[Len(es)] BY <1>1 DEF SectionBytes, Joined
<1>5. /\ Len(Joins(es)[j - 1]) \in Nat /\ Len(es[j]) \in Nat
      /\ Len(Joins(es)[j]) = Len(Joins(es)[j - 1]) + Len(es[j])
      /\ Len(Joins(es)[j]) <= Len(Joins(es)[Len(es)])
      /\ \A k \in 1 .. Len(es[j]) : Joins(es)[Len(es)][Len(Joins(es)[j - 1]) + k] = es[j][k]
    BY <1>2, <1>3, PieceAt
<1>6. QED BY ONLY <1>1, <1>4, <1>5 DEF EntryLies

\* Joined entries are bytes; none of them gives none.
LEMMA SectionIsBytes ==
    ASSUME NEW d, WellCompiled(d), NEW s \in Sections
    PROVE  /\ EntryBytes(d, s) \in Seq(Seq(Nat)) /\ Len(EntryBytes(d, s)) \in Nat
           /\ SectionBytes(d, s) \in Seq(Nat) /\ Len(SectionBytes(d, s)) \in Nat
           /\ SectionBytes(d, s) = Joins(EntryBytes(d, s))[Len(EntryBytes(d, s))]
           /\ Len(EntryBytes(d, s)) = 0 => Len(SectionBytes(d, s)) = 0
           /\ Joins(EntryBytes(d, s))[0] = <<>>
<1>1. PICK es : es = EntryBytes(d, s) OBVIOUS
<1>2. es \in Seq(Seq(Nat)) BY <1>1, EntriesOf DEF Sections
<1>3. SectionBytes(d, s) = Joins(es)[Len(es)] BY <1>1 DEF SectionBytes, Joined
<1>4. /\ Len(es) \in Nat /\ Joins(es) \in [0 .. Len(es) -> Seq(Nat)] /\ Joins(es)[0] = <<>>
    BY <1>2, JoinsSteps
<1>5. Len(es) \in 0 .. Len(es) BY <1>4
<1>6. Joins(es)[Len(es)] \in Seq(Nat) BY <1>4, <1>5
<1>7. Len(Joins(es)[Len(es)]) \in Nat BY <1>6
<1>8. Len(es) = 0 => Len(Joins(es)[Len(es)]) = 0 BY <1>4
<1>9. QED BY ONLY <1>1, <1>2, <1>3, <1>4, <1>6, <1>7, <1>8

\* The order is one of all sections, each in its place.
LEMMA PlaceOf ==
    ASSUME NEW d, WellCompiled(d)
    PROVE  /\ \A s \in Sections : Place(d, s) \in 1 .. 3 /\ d.order[Place(d, s)] = s
           /\ \A k \in 1 .. 3 : d.order[k] \in Sections /\ Place(d, d.order[k]) = k
<1>1. DOMAIN d.order = 1 .. 3 /\ {d.order[k] : k \in 1 .. 3} = Sections BY DEF WellCompiled
<1>2. ASSUME NEW s \in Sections PROVE Place(d, s) \in 1 .. 3 /\ d.order[Place(d, s)] = s
    <2>1. \E k \in DOMAIN d.order : d.order[k] = s BY <1>1
    <2>2. QED BY <1>1, <2>1 DEF Place
<1>3. PICK a, b, c : a = d.order[1] /\ b = d.order[2] /\ c = d.order[3] OBVIOUS
<1>4. {a, b, c} = {"metadata", "pool", "bytecode"}
    <2>1. 1 .. 3 = {1, 2, 3} OBVIOUS
    <2>2. {d.order[k] : k \in 1 .. 3} = {a, b, c} BY <1>3, <2>1
    <2>3. QED BY <1>1, <2>2 DEF Sections
<1>5. a # b /\ a # c /\ b # c BY <1>4
<1>6. ASSUME NEW k \in 1 .. 3, NEW m \in 1 .. 3, d.order[k] = d.order[m] PROVE k = m
    <2>1. (k = 1 \/ k = 2 \/ k = 3) /\ (m = 1 \/ m = 2 \/ m = 3) OBVIOUS
    <2>2. QED BY <1>3, <1>5, <1>6, <2>1
<1>7. ASSUME NEW k \in 1 .. 3 PROVE d.order[k] \in Sections /\ Place(d, d.order[k]) = k
    <2>1. d.order[k] \in Sections BY <1>1
    <2>2. QED BY <1>2, <1>6, <2>1
<1>8. QED BY <1>2, <1>7

\* The body is the three sections one after the other.
LEMMA BodySteps ==
    ASSUME NEW d, WellCompiled(d)
    PROVE  /\ Len(d.order) = 3 /\ Body(d)[3] \in Seq(Nat)
           /\ Body(d)[0] = <<>> /\ \A k \in 0 .. 3 : Len(Body(d)[k]) \in Nat
           /\ \A k \in 1 .. 3 :
                /\ Len(Body(d)[k]) = Len(Body(d)[k - 1]) + Len(SectionBytes(d, d.order[k]))
                /\ Len(Body(d)[k]) <= Len(Body(d)[3])
                /\ \A x \in 1 .. Len(SectionBytes(d, d.order[k])) :
                     Body(d)[3][Len(Body(d)[k - 1]) + x] = SectionBytes(d, d.order[k])[x]
<1> DEFINE ss == [k \in 1 .. 3 |-> SectionBytes(d, d.order[k])]
<1>1. DOMAIN d.order = 1 .. 3 /\ Len(d.order) = 3 BY DEF WellCompiled
<1>2. Body(d) = Joins(ss) BY <1>1 DEF Body
<1>3. ss \in [1 .. 3 -> Seq(Nat)] BY PlaceOf, SectionIsBytes
<1>4. \A k \in 1 .. 3 : ss[k] = SectionBytes(d, d.order[k]) OBVIOUS
<1> HIDE DEF ss
<1>5. ss \in Seq(Seq(Nat)) /\ Len(ss) = 3
    <2>1. PICK n \in Nat : n = 3 OBVIOUS
    <2>2. ss \in [1 .. n -> Seq(Nat)] BY <1>3, <2>1
    <2>3. ss \in Seq(Seq(Nat)) /\ Len(ss) = n BY ONLY <2>2
    <2>4. QED BY <2>1, <2>3
<1>6. Joins(ss) \in [0 .. 3 -> Seq(Nat)] /\ Joins(ss)[0] = <<>> BY <1>5, JoinsSteps
<1>7. 3 \in 0 .. 3 OBVIOUS
<1>8. Joins(ss)[3] \in Seq(Nat) BY <1>6, <1>7
<1>9. \A k \in 0 .. 3 : Len(Joins(ss)[k]) \in Nat
    <2>1. \A x \in Seq(Nat) : Len(x) \in Nat OBVIOUS
    <2>2. QED BY <1>6, <2>1
<1>10. ASSUME NEW k \in 1 .. 3
       PROVE  /\ Len(Joins(ss)[k]) = Len(Joins(ss)[k - 1]) + Len(ss[k])
              /\ Len(Joins(ss)[k]) <= Len(Joins(ss)[3])
              /\ \A x \in 1 .. Len(ss[k]) : Joins(ss)[3][Len(Joins(ss)[k - 1]) + x] = ss[k][x]
    <2>1. k \in 1 .. Len(ss) /\ 3 \in k .. Len(ss) BY <1>5
    <2>2. QED BY <1>5, <2>1, PieceAt
<1>11. QED BY ONLY <1>1, <1>2, <1>4, <1>6, <1>8, <1>9, <1>10

-----------------------------------------------------------------------------
(* FLX: what the reader sees of it.                                        *)

FlxInput == compiled \in Containers /\ \E missing \in FlxCuts : flx = FlxBytes(compiled, missing)
\* Where the entry after the first j of section s begins, and that s is there entirely.
EntryPos(s, j) == flx.off[s] + Len(Joins(EntryBytes(compiled, s))[j])
SectionIn(s) ==
    Len(SectionBytes(compiled, s)) > 0 =>
        flx.off[s] + Len(SectionBytes(compiled, s)) <= flx.len

\* The fields of the header are those of a well-formed description.
LEMMA FlxFields ==
    ASSUME FlxInput
    PROVE  /\ WellCompiled(compiled) /\ HeaderSize \in Nat /\ HeaderSize > 0
           /\ End(compiled) = HeaderSize + Len(Body(compiled)[3])
           /\ flx.len \in Int /\ flx.len <= End(compiled)
           /\ flx.magic = compiled.magic /\ flx.body = Body(compiled)[3]
           /\ flx.count["metadata"] = Len(compiled.meta) /\ flx.count["pool"] = Len(compiled.pool)
           /\ flx.count["bytecode"] = Len(SectionBytes(compiled, "bytecode"))
           /\ \A s \in Sections :
                /\ flx.off[s] = HeaderSize + Len(Body(compiled)[Place(compiled, s) - 1])
                /\ flx.off[s] \in Nat /\ flx.off[s] > 0
<1>1. WellCompiled(compiled) /\ HeaderSize \in Nat /\ HeaderSize > 0
    BY FlxAssumption DEF FlxInput
<1>2. PICK missing \in Nat : flx = FlxBytes(compiled, missing) BY FlxAssumption DEF FlxInput
<1>3. Len(compiled.order) = 3 BY <1>1, BodySteps
<1>4. End(compiled) = HeaderSize + Len(Body(compiled)[3]) BY <1>3 DEF End
<1>5. \A k \in 0 .. 3 : Len(Body(compiled)[k]) \in Nat BY <1>1, BodySteps
<1>6. /\ flx.len = End(compiled) - missing /\ flx.magic = compiled.magic
      /\ flx.body = Body(compiled)[3]
      /\ \A s \in Sections : flx.off[s] = HeaderSize + Len(Body(compiled)[Place(compiled, s) - 1])
    BY <1>2, <1>3 DEF FlxBytes
<1>7. /\ flx.count["metadata"] = Len(compiled.meta) /\ flx.count["pool"] = Len(compiled.pool)
      /\ flx.count["bytecode"] = Len(SectionBytes(compiled, "bytecode"))
    BY <1>2 DEF FlxBytes, Sections
<1>8. flx.len \in Int /\ flx.len <= End(compiled)
    <2>1. PICK x \in Nat : x = Len(Body(compiled)[3]) BY <1>5
    <2>2. QED BY <1>1, <1>4, <1>6, <2>1
<1>9. ASSUME NEW s \in Sections PROVE flx.off[s] \in Nat /\ flx.off[s] > 0
    <2>1. Place(compiled, s) - 1 \in 0 .. 3
        <3>1. Place(compiled, s) \in 1 .. 3 BY <1>1, PlaceOf
        <3>2. QED BY ONLY <3>1
    <2>2. PICK x \in Nat : x = Len(Body(compiled)[Place(compiled, s) - 1]) BY <1>5, <2>1
    <2>3. flx.off[s] = HeaderSize + x BY <1>6, <2>2
    <2>4. QED BY <1>1, <2>3
<1>10. QED BY <1>1, <1>4, <1>6, <1>7, <1>8, <1>9

\* A section lies where the header says it does.
LEMMA SectionAt ==
    ASSUME FlxInput, NEW s \in Sections
    PROVE  /\ flx.off[s] \in Nat /\ Len(SectionBytes(compiled, s)) \in Nat
           /\ flx.off[s] + Len(SectionBytes(compiled, s)) <= End(compiled)
           /\ \A x \in 1 .. Len(SectionBytes(compiled, s)) :
                At(flx.off[s] + (x - 1)) = SectionBytes(compiled, s)[x]
           /\ flx.off[s] - HeaderSize + Len(SectionBytes(compiled, s)) <= Len(flx.body)
           /\ flx.off[s] - HeaderSize \in Nat /\ flx.body \in Seq(Nat)
<1>1. PICK k \in 1 .. 3 : k = Place(compiled, s) /\ compiled.order[k] = s BY FlxFields, PlaceOf
<1>2. PICK b, sb : b = Body(compiled)[3] /\ sb = SectionBytes(compiled, s) OBVIOUS
<1>3. PICK o \in Nat : o = Len(Body(compiled)[k - 1])
    <2>1. k - 1 \in 0 .. 3 OBVIOUS
    <2>2. QED BY <2>1, FlxFields, BodySteps
<1>4. /\ b \in Seq(Nat) /\ Len(b) \in Nat /\ o + Len(sb) <= Len(b)
      /\ \A x \in 1 .. Len(sb) : b[o + x] = sb[x]
    <2>1. /\ b \in Seq(Nat)
          /\ Len(Body(compiled)[k]) = o + Len(sb) /\ Len(Body(compiled)[k]) <= Len(b)
          /\ \A x \in 1 .. Len(sb) : b[o + x] = sb[x]
        <3>1. /\ Body(compiled)[3] \in Seq(Nat)
              /\ Len(Body(compiled)[k]) =
                   Len(Body(compiled)[k - 1]) + Len(SectionBytes(compiled, compiled.order[k]))
              /\ Len(Body(compiled)[k]) <= Len(Body(compiled)[3])
              /\ \A x \in 1 .. Len(SectionBytes(compiled, compiled.order[k])) :
                   Body(compiled)[3][Len(Body(compiled)[k - 1]) + x]
                     = SectionBytes(compiled, compiled.order[k])[x]
            BY FlxFields, BodySteps
        <3>2. QED BY ONLY <1>1, <1>2, <1>3, <3>1
    <2>2. QED BY <2>1
<1>5. Len(sb) \in Nat BY <1>2, FlxFields, SectionIsBytes
<1>6. flx.off[s] = HeaderSize + o /\ HeaderSize \in Nat BY <1>1, <1>3, FlxFields
<1>7. End(compiled) = HeaderSize + Len(b) /\ flx.body = b BY <1>2, FlxFields
<1>8. ASSUME NEW x \in 1 .. Len(sb) PROVE At(flx.off[s] + (x - 1)) = sb[x]
    <2>1. ((HeaderSize + o) + (x - 1)) - HeaderSize + 1 = o + x BY <1>5, <1>6
    <2>2. QED BY <1>4, <1>6, <1>7, <2>1 DEF At
<1>9. /\ flx.off[s] \in Nat /\ flx.off[s] + Len(sb) <= End(compiled)
      /\ flx.off[s] - HeaderSize = o
    BY ONLY <1>4, <1>5, <1>6, <1>7
<1>10. QED BY ONLY <1>2, <1>4, <1>5, <1>7, <1>8, <1>9

\* So do its entries.
LEMMA EntryAt ==
    ASSUME FlxInput, NEW s \in Sections, NEW j \in 1 .. Len(EntryBytes(compiled, s))
    PROVE  LET bytes == EntryBytes(compiled, s)[j] IN
           /\ EntryPos(s, j - 1) \in Nat /\ Len(bytes) \in Nat
           /\ EntryPos(s, j) = EntryPos(s, j - 1) + Len(bytes)
           /\ EntryPos(s, j) <= flx.off[s] + Len(SectionBytes(compiled, s))
           /\ \A k \in 1 .. Len(bytes) : At(EntryPos(s, j - 1) + (k - 1)) = bytes[k]
<1>1. PICK sb, bytes, a, z : sb = SectionBytes(compiled, s) /\ bytes = EntryBytes(compiled, s)[j]
        /\ a = Len(Joins(EntryBytes(compiled, s))[j - 1])
        /\ z = Len(Joins(EntryBytes(compiled, s))[j])
    OBVIOUS
<1>2. WellCompiled(compiled) BY FlxFields
<1>3. /\ Len(bytes) \in Nat /\ a \in Nat /\ z = a + Len(bytes) /\ z <= Len(sb)
      /\ \A k \in 1 .. Len(bytes) : sb[a + k] = bytes[k]
    <2>1. EntryLies(EntryBytes(compiled, s), SectionBytes(compiled, s), j)
        BY <1>2, EntryInSection
    <2>2. QED BY ONLY <1>1, <2>1 DEF EntryLies
<1>4. PICK o \in Nat : o = flx.off[s] BY SectionAt
<1>5. Len(sb) \in Nat /\ \A x \in 1 .. Len(sb) : At(o + (x - 1)) = sb[x]
    BY <1>1, <1>4, SectionAt
<1>6. EntryPos(s, j - 1) = o + a /\ EntryPos(s, j) = o + z BY <1>1, <1>4 DEF EntryPos
<1>7. ASSUME NEW k \in 1 .. Len(bytes) PROVE At((o + a) + (k - 1)) = bytes[k]
    <2>1. a + k \in 1 .. Len(sb) /\ (o + a) + (k - 1) = o + ((a + k) - 1)
        BY ONLY <1>3, <1>5, <1>7
    <2>2. QED BY <1>3, <1>5, <2>1
<1>8. o + a \in Nat /\ o + z = (o + a) + Len(bytes) /\ o + z <= o + Len(sb) BY <1>3, <1>5
<1>9. QED BY ONLY <1>1, <1>3, <1>4, <1>6, <1>7, <1>8

\* Bytes takes a part of an entry out of the file.
LEMMA BytesAt ==
    ASSUME FlxInput, NEW s \in Sections, NEW j \in 1 .. Len(EntryBytes(compiled, s)),
           NEW v \in Seq(Nat), NEW a \in Nat, a + Len(v) <= Len(EntryBytes(compiled, s)[j]),
           \A k \in 1 .. Len(v) : EntryBytes(compiled, s)[j][a + k] = v[k]
    PROVE  Bytes(EntryPos(s, j - 1) + a, Len(v)) = v
<1>1. PICK e, p : e = EntryBytes(compiled, s)[j] /\ p = EntryPos(s, j - 1) OBVIOUS
<1>2. p \in Nat /\ Len(e) \in Nat /\ p + Len(e) <= flx.off[s] + Len(SectionBytes(compiled, s))
    BY <1>1, EntryAt
<1>3. \A k \in 1 .. Len(e) : At(p + (k - 1)) = e[k] BY <1>1, EntryAt
<1>4. PICK n \in Nat : n = Len(v) OBVIOUS
<1>5. a + n <= Len(e) /\ \A k \in 1 .. n : e[a + k] = v[k] BY <1>1, <1>4
<1>6. PICK h \in Nat, q \in Nat : h = HeaderSize /\ q = p - HeaderSize
    <2>1. flx.off[s] - HeaderSize \in Nat /\ HeaderSize \in Nat BY SectionAt, FlxFields
    <2>2. PICK x \in Nat : p = flx.off[s] + x
        <3>1. j - 1 \in 0 .. Len(EntryBytes(compiled, s)) /\ WellCompiled(compiled)
            <4>1. Len(EntryBytes(compiled, s)) \in Nat BY FlxFields, SectionIsBytes
            <4>2. QED BY <4>1, FlxFields
        <3>2. Len(Joins(EntryBytes(compiled, s))[j - 1]) \in Nat BY <3>1, EntryInSection DEF EntryLies
        <3>3. QED BY <1>1, <3>2 DEF EntryPos
    <2>3. flx.off[s] \in Nat BY SectionAt
    <2>4. p - HeaderSize \in Nat BY ONLY <2>1, <2>2, <2>3
    <2>5. QED BY <2>1, <2>4
<1>7. flx.body \in Seq(Nat) /\ q + Len(e) <= Len(flx.body)
    <2>1. /\ flx.off[s] - HeaderSize + Len(SectionBytes(compiled, s)) <= Len(flx.body)
          /\ flx.body \in Seq(Nat) /\ flx.off[s] \in Nat /\ Len(SectionBytes(compiled, s)) \in Nat
        BY SectionAt
    <2>2. PICK o \in Nat, l \in Nat, z \in Nat :
            o = flx.off[s] /\ l = Len(SectionBytes(compiled, s)) /\ z = Len(flx.body)
        BY <2>1
    <2>3. PICK y \in Nat : y = Len(e) BY <1>2
    <2>4. p + y <= o + l /\ o - h + l <= z /\ q = p - h BY ONLY <1>2, <1>6, <2>1, <2>2, <2>3
    <2>5. p \in Nat BY <1>2
    <2>6. q + y <= z BY ONLY <2>4, <2>5
    <2>7. QED BY <2>1, <2>2, <2>3, <2>6
<1>8. PICK b \in Seq(Nat) : b = flx.body BY <1>7
<1>9. Len(b) \in Nat /\ q + Len(e) <= Len(b) BY <1>7, <1>8
<1>10. \A k \in 1 .. n : b[(q + a) + k] = v[k]
    <2> SUFFICES ASSUME NEW k \in 1 .. n PROVE b[(q + a) + k] = v[k] OBVIOUS
    <2>1. a + k \in 1 .. Len(e) BY ONLY <1>2, <1>5
    <2>2. At(p + ((a + k) - 1)) = e[a + k] BY <1>3, <2>1
    <2>3. (p + ((a + k) - 1)) - h + 1 = (q + a) + k BY ONLY <1>2, <1>6
    <2>4. At(p + ((a + k) - 1)) = b[(q + a) + k] BY <1>6, <1>8, <2>3 DEF At
    <2>5. e[a + k] = v[k] BY <1>5
    <2>6. QED BY <2>2, <2>4, <2>5
<1>11. SubSeq(b, (q + a) + 1, (q + a) + n) = v
    <2>1. /\ (q + a) + 1 \in 1 .. (Len(b) + 1) /\ (q + a) + n \in ((q + a) + 1) - 1 .. Len(b)
          /\ (q + a) + n - ((q + a) + 1) + 1 = n
        <3>1. PICK y \in Nat, z \in Nat : y = Len(e) /\ z = Len(b) BY <1>2, <1>9
        <3>2. a + n <= y BY <1>5, <3>1
        <3>3. q + y <= z BY <1>9, <3>1
        <3>4. PICK lo \in Nat, hi \in Nat : lo = (q + a) + 1 /\ hi = (q + a) + n OBVIOUS
        <3>5. lo \in 1 .. (z + 1) /\ hi \in lo - 1 .. z /\ hi - lo + 1 = n
            BY ONLY <3>2, <3>3, <3>4
        <3>6. lo \in 1 .. (Len(b) + 1) /\ hi \in lo - 1 .. Len(b) BY ONLY <3>1, <3>5
        <3>7. QED BY ONLY <3>4, <3>5, <3>6
    <2>2. PICK w : w = SubSeq(b, (q + a) + 1, (q + a) + n) OBVIOUS
    <2>3. /\ w \in Seq(Nat) /\ Len(w) = n
          /\ \A i \in 1 .. Len(w) : w[i] = b[((q + a) + 1) + i - 1]
        <3>1. (q + a) + 1 <= ((q + a) + n) + 1 BY ONLY <1>2
        <3>2. QED BY <2>1, <2>2, <3>1, SubSeqProperties
    <2>4. \A i \in 1 .. n : ((q + a) + 1) + i - 1 = (q + a) + i OBVIOUS
    <2>5. \A i \in 1 .. n : w[i] = v[i] BY ONLY <1>10, <2>3, <2>4
    <2>6. w = v
        <3>1. Len(w) = Len(v) /\ \A i \in 1 .. Len(w) : w[i] = v[i] BY <1>4, <2>3, <2>5
        <3>2. QED BY <2>3, <3>1, SeqEqual
    <2>7. QED BY <2>2, <2>6
<1>12. ((p + a) - h + 1 = (q + a) + 1) /\ ((p + a) - h + n = (q + a) + n) BY ONLY <1>2, <1>6
<1>13. Bytes(p + a, n) = SubSeq(b, (q + a) + 1, (q + a) + n)
    BY <1>6, <1>8, <1>12 DEF Bytes
<1>14. QED BY <1>1, <1>4, <1>11, <1>13

\* A file that has the header and every section entirely has all of it.
LEMMA AllIn ==
    ASSUME FlxInput, HeaderSize <= flx.len, \A s \in Sections : SectionIn(s)
    PROVE  flx.len >= End(compiled)
<1>1. WellCompiled(compiled) /\ HeaderSize \in Nat /\ flx.len \in Int BY FlxFields
<1>2. \A k \in 0 .. 3 : Len(Body(compiled)[k]) \in Nat BY <1>1, BodySteps
<1>3. ASSUME NEW k \in 1 .. 3, HeaderSize + Len(Body(compiled)[k - 1]) <= flx.len
      PROVE  HeaderSize + Len(Body(compiled)[k]) <= flx.len
    <2>1. PICK s \in Sections : s = compiled.order[k] /\ Place(compiled, s) = k
        BY <1>1, PlaceOf
    <2>2. PICK x \in Nat, y \in Nat : x = Len(Body(compiled)[k - 1]) /\ y = Len(SectionBytes(compiled, s))
        <3>1. k - 1 \in 0 .. 3 OBVIOUS
        <3>2. QED BY <1>1, <1>2, <3>1, SectionIsBytes
    <2>3. Len(Body(compiled)[k]) = x + y BY <1>1, <2>1, <2>2, BodySteps
    <2>4. flx.off[s] = HeaderSize + x BY <2>1, <2>2, FlxFields
    <2>5. y > 0 => flx.off[s] + y <= flx.len BY <2>2 DEF SectionIn
    <2>6. HeaderSize + x <= flx.len BY <1>3, <2>2
    <2>7. QED BY ONLY <1>1, <2>3, <2>4, <2>5, <2>6
<1>4. HeaderSize + Len(Body(compiled)[0]) <= flx.len
    <2>1. Body(compiled)[0] = <<>> BY <1>1, BodySteps
    <2>2. QED BY <1>1, <2>1
<1>5. 1 - 1 = 0 /\ 2 - 1 = 1 /\ 3 - 1 = 2 /\ 1 \in 1 .. 3 /\ 2 \in 1 .. 3 /\ 3 \in 1 .. 3 OBVIOUS
<1>6. HeaderSize + Len(Body(compiled)[1]) <= flx.len BY <1>3, <1>4, <1>5
<1>7. HeaderSize + Len(Body(compiled)[2]) <= flx.len BY <1>3, <1>5, <1>6
<1>8. HeaderSize + Len(Body(compiled)[3]) <= flx.len BY <1>3, <1>5, <1>7
<1>9. PICK x \in Nat : x = Len(Body(compiled)[3])
    <2>1. 3 \in 0 .. 3 OBVIOUS
    <2>2. QED BY <1>2, <2>1
<1>10. HeaderSize + x <= flx.len /\ End(compiled) = HeaderSize + x BY <1>8, <1>9, FlxFields
<1>11. QED BY ONLY <1>1, <1>10

-----------------------------------------------------------------------------
(* FLX: the invariant.                                                     *)

\* What has been read when j entries of a section have been: the pairs, of equal keys
\* the last; the constants, all of known tags; the instructions, all of them complete.
MetaOf(d, m, j) ==
    /\ DOMAIN m = {d.meta[i].key : i \in 1 .. j}
    /\ \A i \in 1 .. j :
         (\A k \in (i + 1) .. j : d.meta[k].key # d.meta[i].key) => m[d.meta[i].key] = d.meta[i].val
PoolOf(d, p, j) ==
    /\ p = [i \in 1 .. j |-> Truth(d.pool[i])]
    /\ \A i \in 1 .. j : d.pool[i].tag \in TagNull .. TagBool
CodeOf(d, c, j) ==
    /\ c = [i \in 1 .. j |-> Expected(d, i)]
    /\ \A i \in 1 .. j : d.code[i].kind # "truncated"

\* What a file must have for the reader to get past the header and the first sections.
HeaderIn == HeaderSize <= flx.len /\ compiled.magic
MetaDone(m) == SectionIn("metadata") /\ MetaOf(compiled, m, Len(compiled.meta))
PoolDone(p) == SectionIn("pool") /\ PoolOf(compiled, p, Len(compiled.pool))

Parsed(m, p, ins) ==
    /\ DOMAIN m = {compiled.meta[i].key : i \in DOMAIN compiled.meta}
    /\ \A key \in DOMAIN m : m[key] = compiled.meta[LastWith(compiled, key)].val
    /\ p = [i \in DOMAIN compiled.pool |-> Truth(compiled.pool[i])]
    /\ ins = [i \in DOMAIN compiled.code |-> Expected(compiled, i)]
Whole == Decodable(compiled) /\ flx.len >= End(compiled)

\* While a section is read the earlier ones have been, and the later ones have not; the
\* position is the one of the entry that comes next.
Stage(phase, p, n, result, m, cs, bytes, ins) ==
    /\ phase = "header" => MetaOf(compiled, m, 0) /\ PoolOf(compiled, cs, 0) /\ CodeOf(compiled, ins, 0)
    /\ phase = "metadata" =>
         /\ HeaderIn /\ PoolOf(compiled, cs, 0) /\ CodeOf(compiled, ins, 0)
         /\ \E j \in 1 .. Len(compiled.meta) :
              /\ MetaOf(compiled, m, j - 1)
              /\ p = EntryPos("metadata", j - 1) /\ n = Len(compiled.meta) - j + 1
    /\ phase = "pool" =>
         /\ HeaderIn /\ MetaDone(m) /\ CodeOf(compiled, ins, 0)
         /\ \E j \in 1 .. Len(compiled.pool) :
              /\ PoolOf(compiled, cs, j - 1)
              /\ p = EntryPos("pool", j - 1) /\ n = Len(compiled.pool) - j + 1
    /\ phase = "bytecode" =>
         /\ HeaderIn /\ MetaDone(m) /\ PoolDone(cs) /\ CodeOf(compiled, ins, 0)
         /\ p = flx.off["bytecode"] /\ n = Len(SectionBytes(compiled, "bytecode"))
    /\ phase = "disassemble" =>
         /\ HeaderIn /\ MetaDone(m) /\ PoolDone(cs) /\ SectionIn("bytecode")
         /\ bytes = SectionBytes(compiled, "bytecode")
         /\ \E j \in 0 .. Len(compiled.code) :
              CodeOf(compiled, ins, j) /\ p = Len(Joins(EntryBytes(compiled, "bytecode"))[j])
    /\ phase = "done" => /\ result = "ok" <=> Whole
                         /\ result = "ok" => Parsed(m, cs, ins)
FlxInv == FlxInput /\ Stage(flxPc, flxPos, left, flxRes, meta, pool, code, instructions)

-----------------------------------------------------------------------------
(* FLX: the end of the file and the way from one section to the next.      *)

\* A non-empty set of numbers up to n has a greatest one.
LEMMA NatMax ==
    ASSUME NEW n \in Nat, NEW S \in SUBSET (1 .. n), S # {}
    PROVE  \E m \in S : \A k \in S : k <= m
<1> DEFINE T == {n - x : x \in S}
<1>1. T \in SUBSET Nat /\ T # {}
    <2>1. ASSUME NEW x \in S PROVE n - x \in Nat
        <3>1. x \in 1 .. n OBVIOUS
        <3>2. QED BY <3>1
    <2>2. QED BY <2>1
<1>2. PICK t \in T : \A k \in T : t <= k BY <1>1, NatMin
<1>3. PICK m \in S : t = n - m OBVIOUS
<1>4. ASSUME NEW k \in S PROVE k <= m
    <2>1. n - m <= n - k BY <1>2, <1>3
    <2>2. k \in Int /\ m \in Int OBVIOUS
    <2>3. QED BY ONLY <2>1, <2>2
<1>5. QED BY <1>4

\* k is the last of the first n pairs with its key.
IsLast(d, n, key, k) ==
    /\ k \in 1 .. n /\ d.meta[k].key = key
    /\ \A x \in (k + 1) .. n : d.meta[x].key # key

\* A key that some pair has is the one of a last pair.
LEMMA LastWithExists ==
    ASSUME NEW d, NEW n \in Nat, DOMAIN d.meta = 1 .. n, NEW i \in 1 .. n
    PROVE  IsLast(d, n, d.meta[i].key, LastWith(d, d.meta[i].key))
<1> DEFINE key == d.meta[i].key
           S == {x \in 1 .. n : d.meta[x].key = key}
<1> HIDE DEF key
<1>1. S \in SUBSET (1 .. n) /\ S # {}
    <2>1. i \in S BY DEF key
    <2>2. QED BY <2>1
<1>2. PICK m \in S : \A x \in S : x <= m BY <1>1, NatMax
<1>3. m \in DOMAIN d.meta /\ d.meta[m].key = key /\ \A x \in DOMAIN d.meta : x > m => d.meta[x].key # key
    <2>1. ASSUME NEW x \in 1 .. n, x > m PROVE d.meta[x].key # key
        <3>1. x \notin S \/ x <= m BY <1>2
        <3>2. x \in Int /\ m \in Int OBVIOUS
        <3>3. QED BY <2>1, <3>1, <3>2
    <2>2. QED BY <2>1
<1>4. PICK k : k = LastWith(d, key) OBVIOUS
<1>5. k \in DOMAIN d.meta /\ d.meta[k].key = key /\ \A x \in DOMAIN d.meta : x > k => d.meta[x].key # key
    BY <1>3, <1>4 DEF LastWith
<1>6. \A x \in (k + 1) .. n : x \in 1 .. n /\ x > k BY <1>5
<1>7. QED BY <1>4, <1>5, <1>6 DEF key, IsLast

\* With everything read the file is whole, and what was read is what was written.
LEMMA Finished ==
    ASSUME FlxInput, HeaderIn, NEW m, MetaDone(m), NEW cs, PoolDone(cs), SectionIn("bytecode"),
           NEW ins, CodeOf(compiled, ins, Len(compiled.code))
    PROVE  Whole /\ Parsed(m, cs, ins)
<1>1. WellCompiled(compiled) BY FlxFields
<1>2. /\ Len(compiled.meta) \in Nat /\ DOMAIN compiled.meta = 1 .. Len(compiled.meta)
      /\ Len(compiled.pool) \in Nat /\ DOMAIN compiled.pool = 1 .. Len(compiled.pool)
      /\ Len(compiled.code) \in Nat /\ DOMAIN compiled.code = 1 .. Len(compiled.code)
    BY <1>1 DEF WellCompiled
<1>3. Decodable(compiled) BY <1>2 DEF Decodable, HeaderIn, PoolDone, PoolOf, CodeOf
<1>4. flx.len >= End(compiled)
    <2>1. \A s \in Sections : SectionIn(s) BY DEF Sections, MetaDone, PoolDone
    <2>2. HeaderSize <= flx.len BY DEF HeaderIn
    <2>3. QED BY <2>1, <2>2, AllIn
<1>5. cs = [i \in DOMAIN compiled.pool |-> Truth(compiled.pool[i])] BY <1>2 DEF PoolDone, PoolOf
<1>6. ins = [i \in DOMAIN compiled.code |-> Expected(compiled, i)] BY <1>2 DEF CodeOf
<1>7. DOMAIN m = {compiled.meta[i].key : i \in DOMAIN compiled.meta} BY <1>2 DEF MetaDone, MetaOf
<1>8. ASSUME NEW key \in DOMAIN m PROVE m[key] = compiled.meta[LastWith(compiled, key)].val
    <2>1. PICK n \in Nat : n = Len(compiled.meta) BY <1>2
    <2>2. PICK i \in 1 .. n : key = compiled.meta[i].key BY <1>2, <1>7, <2>1
    <2>3. PICK k : k = LastWith(compiled, key) OBVIOUS
    <2>4. k \in 1 .. n /\ compiled.meta[k].key = key
          /\ \A x \in (k + 1) .. n : compiled.meta[x].key # compiled.meta[k].key
        <3>1. IsLast(compiled, n, key, k) BY <1>2, <2>1, <2>2, <2>3, LastWithExists
        <3>2. QED BY <3>1 DEF IsLast
    <2>5. \A x \in 1 .. n :
            (\A y \in (x + 1) .. n : compiled.meta[y].key # compiled.meta[x].key)
                => m[compiled.meta[x].key] = compiled.meta[x].val
        BY <2>1 DEF MetaDone, MetaOf
    <2>6. m[compiled.meta[k].key] = compiled.meta[k].val BY <2>4, <2>5
    <2>7. QED BY <2>3, <2>4, <2>6
<1>9. QED BY <1>3, <1>4, <1>5, <1>6, <1>7, <1>8 DEF Whole, Parsed

\* A file that is not whole may be given up at any time.
LEMMA FailStage ==
    ASSUME ~Whole, FlxFail, NEW m, NEW cs, NEW bytes, NEW ins
    PROVE  Stage(flxPc', flxPos', left', flxRes', m, cs, bytes, ins)
BY DEF FlxFail, FlxStop, Stage

\* A section without bytes is there entirely; one without entries has no bytes.
LEMMA EmptySection ==
    ASSUME FlxInput, NEW s \in Sections, Len(EntryBytes(compiled, s)) = 0
    PROVE  SectionIn(s)
<1>1. Len(SectionBytes(compiled, s)) = 0 BY FlxFields, SectionIsBytes
<1>2. QED BY <1>1 DEF SectionIn

\* An instruction has at least its opcode: bytecode without bytes is no instructions.
LEMMA NoBytecode ==
    ASSUME FlxInput, ~(Len(SectionBytes(compiled, "bytecode")) > 0)
    PROVE  Len(compiled.code) = 0
<1>1. WellCompiled(compiled) /\ "bytecode" \in Sections BY FlxFields DEF Sections
<1>2. PICK n \in Nat : n = Len(compiled.code) /\ n = Len(EntryBytes(compiled, "bytecode"))
    BY <1>1, EntriesOf
<1>3. SUFFICES ASSUME n # 0 PROVE FALSE BY <1>2
<1>4. 1 \in 1 .. n BY <1>3
<1>5. EntryLies(EntryBytes(compiled, "bytecode"), SectionBytes(compiled, "bytecode"), 1)
    BY <1>1, <1>2, <1>4, EntryInSection
<1>6. EntryBytes(compiled, "bytecode")[1] = InstructionBytes(compiled.code[1])
    BY <1>1, <1>2, <1>4, EntriesOf
<1>7. compiled.code[1] \in Instructions
    <2>1. compiled.code \in Seq(Instructions) BY <1>1 DEF WellCompiled
    <2>2. QED BY <1>2, <1>4, <2>1, ElementOfSeq
<1>8. PICK w \in Nat : w = compiled.code[1].width BY <1>7 DEF Instructions
<1>9. Len(InstructionBytes(compiled.code[1])) = 1 + w BY <1>7, <1>8, InstructionAt DEF InstructionLayout
<1>10. PICK a \in Nat, l \in Nat : a = Len(Joins(EntryBytes(compiled, "bytecode"))[1 - 1])
         /\ l = Len(SectionBytes(compiled, "bytecode"))
    BY <1>1, <1>5, SectionIsBytes DEF EntryLies
<1>11. a + (1 + w) <= l BY <1>5, <1>6, <1>9, <1>10 DEF EntryLies
<1>12. ~(l > 0) BY <1>10
<1>13. QED BY ONLY <1>11, <1>12

\* After the constants come the instructions, or the end.
LEMMA EnterBytecodeStage ==
    ASSUME FlxInput, HeaderIn, NEW m, MetaDone(m), NEW cs, PoolDone(cs), NEW bytes,
           NEW ins, CodeOf(compiled, ins, 0), EnterBytecode
    PROVE  Stage(flxPc', flxPos', left', flxRes', m, cs, bytes, ins)
<1>1. "bytecode" \in Sections BY DEF Sections
<1>2. flx.off["bytecode"] > 0 /\ flx.count["bytecode"] = Len(SectionBytes(compiled, "bytecode"))
    BY <1>1, FlxFields
<1>3. CASE Present("bytecode")
    <2>1. flxPc' = "bytecode" /\ flxPos' = flx.off["bytecode"] /\ left' = flx.count["bytecode"]
        BY <1>3 DEF EnterBytecode, Seek
    <2>2. QED BY <1>2, <2>1 DEF Stage
<1>4. CASE ~Present("bytecode")
    <2>1. ~(Len(SectionBytes(compiled, "bytecode")) > 0) BY <1>2, <1>4 DEF Present
    <2>2. SectionIn("bytecode") BY <2>1 DEF SectionIn
    <2>3. CodeOf(compiled, ins, Len(compiled.code)) BY <2>1, NoBytecode
    <2>4. Whole /\ Parsed(m, cs, ins) BY <2>2, <2>3, Finished
    <2>5. flxPc' = "done" /\ flxRes' = "ok" BY <1>4 DEF EnterBytecode, FlxStop
    <2>6. QED BY <2>4, <2>5 DEF Stage
<1>5. QED BY <1>3, <1>4

\* Before the first entry of a section.
LEMMA FirstEntry ==
    ASSUME FlxInput, NEW s \in Sections
    PROVE  EntryPos(s, 0) = flx.off[s]
<1>1. Joins(EntryBytes(compiled, s))[0] = <<>> BY FlxFields, SectionIsBytes
<1>2. flx.off[s] \in Nat BY FlxFields
<1>3. QED BY <1>1, <1>2 DEF EntryPos

\* After the metadata come the constants.
LEMMA EnterPoolStage ==
    ASSUME FlxInput, HeaderIn, NEW m, MetaDone(m), NEW cs, PoolOf(compiled, cs, 0), NEW bytes,
           NEW ins, CodeOf(compiled, ins, 0), EnterPool
    PROVE  Stage(flxPc', flxPos', left', flxRes', m, cs, bytes, ins)
<1>1. "pool" \in Sections BY DEF Sections
<1>2. flx.off["pool"] > 0 /\ flx.count["pool"] = Len(compiled.pool) BY <1>1, FlxFields
<1>3. PICK n \in Nat : n = Len(compiled.pool) /\ n = Len(EntryBytes(compiled, "pool"))
    BY FlxFields, EntriesOf
<1>4. CASE Present("pool")
    <2>1. flxPc' = "pool" /\ flxPos' = flx.off["pool"] /\ left' = flx.count["pool"]
        BY <1>4 DEF EnterPool, Seek
    <2>2. n > 0 BY <1>2, <1>3, <1>4 DEF Present
    <2>3. flxPos' = EntryPos("pool", 1 - 1) /\ left' = n - 1 + 1 /\ PoolOf(compiled, cs, 1 - 1)
        <3>1. 1 - 1 = 0 /\ n - 1 + 1 = n OBVIOUS
        <3>2. EntryPos("pool", 0) = flx.off["pool"] BY <1>1, FirstEntry
        <3>3. QED BY <1>2, <1>3, <2>1, <3>1, <3>2
    <2>4. 1 \in 1 .. n BY <2>2
    <2>5. QED BY <1>3, <2>1, <2>3, <2>4 DEF Stage
<1>5. CASE ~Present("pool")
    <2>1. n = 0 BY <1>2, <1>3, <1>5 DEF Present
    <2>2. SectionIn("pool") BY <1>1, <1>3, <2>1, EmptySection
    <2>3. PoolDone(cs) BY <1>3, <2>1, <2>2 DEF PoolDone
    <2>4. EnterBytecode BY <1>5 DEF EnterPool
    <2>5. QED BY <2>3, <2>4, EnterBytecodeStage
<1>6. QED BY <1>4, <1>5

\* After the header comes the metadata.
LEMMA EnterMetadataStage ==
    ASSUME FlxInput, HeaderIn, NEW m, MetaOf(compiled, m, 0), NEW cs, PoolOf(compiled, cs, 0),
           NEW bytes, NEW ins, CodeOf(compiled, ins, 0), EnterMetadata
    PROVE  Stage(flxPc', flxPos', left', flxRes', m, cs, bytes, ins)
<1>1. "metadata" \in Sections BY DEF Sections
<1>2. flx.off["metadata"] > 0 /\ flx.count["metadata"] = Len(compiled.meta) BY <1>1, FlxFields
<1>3. PICK n \in Nat : n = Len(compiled.meta) /\ n = Len(EntryBytes(compiled, "metadata"))
    BY FlxFields, EntriesOf
<1>4. CASE Present("metadata")
    <2>1. flxPc' = "metadata" /\ flxPos' = flx.off["metadata"] /\ left' = flx.count["metadata"]
        BY <1>4 DEF EnterMetadata, Seek
    <2>2. n > 0 BY <1>2, <1>3, <1>4 DEF Present
    <2>3. flxPos' = EntryPos("metadata", 1 - 1) /\ left' = n - 1 + 1 /\ MetaOf(compiled, m, 1 - 1)
        <3>1. 1 - 1 = 0 /\ n - 1 + 1 = n OBVIOUS
        <3>2. EntryPos("metadata", 0) = flx.off["metadata"] BY <1>1, FirstEntry
        <3>3. QED BY <1>2, <1>3, <2>1, <3>1, <3>2
    <2>4. 1 \in 1 .. n BY <2>2
    <2>5. QED BY <1>3, <2>1, <2>3, <2>4 DEF Stage
<1>5. CASE ~Present("metadata")
    <2>1. n = 0 BY <1>2, <1>3, <1>5 DEF Present
    <2>2. SectionIn("metadata") BY <1>1, <1>3, <2>1, EmptySection
    <2>3. MetaDone(m) BY <1>3, <2>1, <2>2 DEF MetaDone
    <2>4. EnterPool BY <1>5 DEF EnterMetadata
    <2>5. QED BY <2>3, <2>4, EnterPoolStage
<1>6. QED BY <1>4, <1>5

-----------------------------------------------------------------------------
(* FLX: one entry.                                                         *)

\* The file stays what it is: a stage that is right of the new values is right.
LEMMA Carry ==
    ASSUME FlxInput, UNCHANGED input,
           Stage(flxPc', flxPos', left', flxRes', meta', pool', code', instructions')
    PROVE  FlxInv'
<1>1. compiled' = compiled /\ flx' = flx BY DEF input
<1>2. FlxInput' BY <1>1 DEF FlxInput
<1>3. /\ \A s \in Sections : SectionIn(s)' <=> SectionIn(s)
      /\ \A s \in Sections, j \in Nat : EntryPos(s, j)' = EntryPos(s, j)
      /\ HeaderIn' <=> HeaderIn
      /\ Whole' <=> Whole
    BY <1>1 DEF SectionIn, EntryPos, HeaderIn, Whole
<1>4. Stage(flxPc, flxPos, left, flxRes, meta, pool, code, instructions)'
    BY <1>1 DEF Stage, MetaDone, PoolDone, Parsed, SectionIn, EntryPos, HeaderIn, Whole
<1>5. QED BY <1>2, <1>4 DEF FlxInv

\* What the reader finds where a pair begins.
LEMMA PairRead ==
    ASSUME FlxInput, NEW j \in 1 .. Len(compiled.meta), NEW p, p = EntryPos("metadata", j - 1)
    PROVE  \E x \in Nat, y \in Nat :
             /\ p \in Nat /\ U16(p) = x /\ Bytes(p + 2, x) = compiled.meta[j].key
             /\ U16((p + 2) + x) = y /\ Bytes(((p + 2) + x) + 2, y) = compiled.meta[j].val
             /\ EntryPos("metadata", j) = (((p + 2) + x) + 2) + y
             /\ EntryPos("metadata", j) <= flx.off["metadata"] + Len(SectionBytes(compiled, "metadata"))
<1>1. WellCompiled(compiled) /\ "metadata" \in Sections BY FlxFields DEF Sections
<1>2. PICK n \in Nat : n = Len(compiled.meta) /\ n = Len(EntryBytes(compiled, "metadata"))
    BY <1>1, EntriesOf
<1>3. j \in 1 .. n BY <1>2
<1>4. PICK m, e : m = compiled.meta[j] /\ e = EntryBytes(compiled, "metadata")[j] OBVIOUS
<1>5. IsPair(m)
    <2>1. compiled.meta \in Seq(Pairs) BY <1>1 DEF WellCompiled
    <2>2. m \in Pairs BY <1>2, <1>3, <1>4, <2>1, ElementOfSeq
    <2>3. j \in DOMAIN compiled.meta
        <3>1. DOMAIN compiled.meta = 1 .. Len(compiled.meta) BY <2>1
        <3>2. QED BY <1>2, <1>3, <3>1
    <2>4. QED BY <1>1, <1>4, <2>2, <2>3 DEF WellCompiled, IsPair
<1>6. PairLayout(m, e)
    <2>1. e = PairBytes(m) BY <1>1, <1>2, <1>3, <1>4, EntriesOf
    <2>2. QED BY <1>5, <2>1, PairAt
<1>7. PICK key \in Seq(Nat), val \in Seq(Nat) : key = m.key /\ val = m.val
    BY <1>5 DEF IsPair, Pairs
<1>8. PICK x \in Nat, y \in Nat : x = Len(key) /\ y = Len(val) OBVIOUS
<1>9. /\ Len(e) = (4 + x) + y
      /\ e[1] + 256 * e[2] = x /\ e[3 + x] + 256 * e[4 + x] = y
      /\ \A k \in 1 .. x : e[2 + k] = key[k]
      /\ \A k \in 1 .. y : e[(4 + x) + k] = val[k]
    BY <1>6, <1>7, <1>8 DEF PairLayout
<1>10. p \in Nat /\ EntryPos("metadata", j) = p + Len(e)
       /\ \A k \in 1 .. Len(e) : At(p + (k - 1)) = e[k]
       /\ EntryPos("metadata", j) <= flx.off["metadata"] + Len(SectionBytes(compiled, "metadata"))
    BY <1>1, <1>2, <1>3, <1>4, EntryAt
<1>17. PICK l \in Nat : l = Len(e) /\ l = (4 + x) + y BY <1>9
<1>11. /\ 1 \in 1 .. Len(e) /\ 2 \in 1 .. Len(e) /\ 3 + x \in 1 .. Len(e) /\ 4 + x \in 1 .. Len(e)
       /\ p + (1 - 1) = p /\ p + (2 - 1) = p + 1
       /\ p + ((3 + x) - 1) = (p + 2) + x /\ p + ((4 + x) - 1) = ((p + 2) + x) + 1
       /\ p + (4 + x) = ((p + 2) + x) + 2 /\ p + Len(e) = (((p + 2) + x) + 2) + y
    <2>1. p \in Nat BY <1>10
    <2>2. /\ 1 \in 1 .. l /\ 2 \in 1 .. l /\ 3 + x \in 1 .. l /\ 4 + x \in 1 .. l
          /\ p + (1 - 1) = p /\ p + (2 - 1) = p + 1
          /\ p + ((3 + x) - 1) = (p + 2) + x /\ p + ((4 + x) - 1) = ((p + 2) + x) + 1
          /\ p + (4 + x) = ((p + 2) + x) + 2 /\ p + l = (((p + 2) + x) + 2) + y
        <3>1. l = (4 + x) + y BY <1>17
        <3>2. QED BY ONLY <2>1, <3>1
    <2>3. QED BY ONLY <1>17, <2>2
<1>12. At(p) = e[1] /\ At(p + 1) = e[2] /\ At((p + 2) + x) = e[3 + x]
       /\ At(((p + 2) + x) + 1) = e[4 + x]
    <2>1. /\ At(p + (1 - 1)) = e[1] /\ At(p + (2 - 1)) = e[2]
          /\ At(p + ((3 + x) - 1)) = e[3 + x] /\ At(p + ((4 + x) - 1)) = e[4 + x]
        BY ONLY <1>10, <1>11
    <2>2. QED BY ONLY <1>11, <2>1
<1>13. U16(p) = x /\ U16((p + 2) + x) = y BY <1>9, <1>12 DEF U16
<1>14. Bytes(p + 2, x) = key
    <2>1. 2 + x <= Len(e) BY <1>9
    <2>2. Bytes(EntryPos("metadata", j - 1) + 2, Len(key)) = key
        <3>1. 2 + Len(key) <= Len(EntryBytes(compiled, "metadata")[j])
              /\ \A k \in 1 .. Len(key) : EntryBytes(compiled, "metadata")[j][2 + k] = key[k]
            BY ONLY <1>4, <1>8, <1>9, <2>1
        <3>2. j \in 1 .. Len(EntryBytes(compiled, "metadata")) BY <1>2, <1>3
        <3>3. QED BY <1>1, <3>1, <3>2, BytesAt
    <2>3. QED BY <1>8, <2>2
<1>15. Bytes(((p + 2) + x) + 2, y) = val
    <2>1. (4 + x) + y <= Len(e) /\ 4 + x \in Nat BY <1>9
    <2>2. Bytes(EntryPos("metadata", j - 1) + (4 + x), Len(val)) = val
        <3>1. (4 + x) + Len(val) <= Len(EntryBytes(compiled, "metadata")[j])
              /\ \A k \in 1 .. Len(val) : EntryBytes(compiled, "metadata")[j][(4 + x) + k] = val[k]
            BY ONLY <1>4, <1>8, <1>9, <2>1
        <3>2. j \in 1 .. Len(EntryBytes(compiled, "metadata")) BY <1>2, <1>3
        <3>3. QED BY <1>1, <2>1, <3>1, <3>2, BytesAt
    <2>3. QED BY <1>8, <1>11, <2>2
<1>16. QED BY <1>4, <1>7, <1>10, <1>11, <1>13, <1>14, <1>15

\* A function with one more value, or another one.
WithPair(m, key, val) == [k \in DOMAIN m \cup {key} |-> IF k = key THEN val ELSE m[k]]

\* One more pair, later than those before.
LEMMA OnePair ==
    ASSUME NEW d, NEW m, NEW j \in Nat \ {0}, MetaOf(d, m, j - 1), NEW key, NEW val,
           key = d.meta[j].key, val = d.meta[j].val
    PROVE  MetaOf(d, WithPair(m, key, val), j)
<1> DEFINE x == WithPair(m, key, val)
<1>1. x = [k \in DOMAIN m \cup {key} |-> IF k = key THEN val ELSE m[k]] BY DEF WithPair
<1> HIDE DEF x
<1>2. j \in Nat /\ \A i \in 1 .. j : i = j \/ i \in 1 .. (j - 1) OBVIOUS
<1>3. \A i \in 1 .. (j - 1) : i \in 1 .. j /\ j \in (i + 1) .. j
    /\ \A k \in (i + 1) .. (j - 1) : k \in (i + 1) .. j
    OBVIOUS
<1>4. DOMAIN x = {d.meta[i].key : i \in 1 .. j}
    <2>1. DOMAIN x = DOMAIN m \cup {key} BY <1>1
    <2>2. DOMAIN m = {d.meta[i].key : i \in 1 .. (j - 1)} BY DEF MetaOf
    <2>3. j \in 1 .. j OBVIOUS
    <2>4. QED BY <1>2, <1>3, <2>1, <2>2, <2>3
<1>5. ASSUME NEW i \in 1 .. j, \A k \in (i + 1) .. j : d.meta[k].key # d.meta[i].key
      PROVE  x[d.meta[i].key] = d.meta[i].val
    <2>1. CASE i = j BY <1>1, <2>1
    <2>2. CASE i \in 1 .. (j - 1)
        <3>1. d.meta[i].key # key BY <1>3, <1>5, <2>2
        <3>2. m[d.meta[i].key] = d.meta[i].val /\ d.meta[i].key \in DOMAIN m
            BY <1>3, <1>5, <2>2 DEF MetaOf
        <3>3. QED BY <1>1, <3>1, <3>2
    <2>3. QED BY <1>2, <2>1, <2>2
<1>6. QED BY <1>4, <1>5 DEF MetaOf, x

\* What the reader finds where a constant begins.
LEMMA ConstantRead ==
    ASSUME FlxInput, NEW j \in 1 .. Len(compiled.pool), NEW p, p = EntryPos("pool", j - 1)
    PROVE  \E y \in Nat :
             /\ p \in Nat /\ At(p) = compiled.pool[j].tag /\ y = Len(compiled.pool[j].val)
             /\ EntryPos("pool", j) <= flx.off["pool"] + Len(SectionBytes(compiled, "pool"))
             /\ IsString(compiled.pool[j]) =>
                  /\ U32(p + 1) = y /\ Bytes(p + 5, y) = compiled.pool[j].val
                  /\ EntryPos("pool", j) = (p + 5) + y
             /\ ~IsString(compiled.pool[j]) =>
                  /\ Bytes(p + 1, y) = compiled.pool[j].val
                  /\ EntryPos("pool", j) = (p + 1) + y
                  /\ y > 0 => At(p + 1) = compiled.pool[j].val[1]
<1>1. WellCompiled(compiled) /\ "pool" \in Sections BY FlxFields DEF Sections
<1>2. PICK n \in Nat : n = Len(compiled.pool) /\ n = Len(EntryBytes(compiled, "pool"))
    BY <1>1, EntriesOf
<1>3. j \in 1 .. n BY <1>2
<1>4. PICK c, e : c = compiled.pool[j] /\ e = EntryBytes(compiled, "pool")[j] OBVIOUS
<1>5. IsConstant(c)
    <2>1. compiled.pool \in Seq(Constants) BY <1>1 DEF WellCompiled
    <2>2. j \in DOMAIN compiled.pool
        <3>1. DOMAIN compiled.pool = 1 .. Len(compiled.pool) BY <2>1
        <3>2. QED BY <1>2, <1>3, <3>1
    <2>3. QED BY <1>1, <1>4, <2>2 DEF WellCompiled
<1>6. ConstantLayout(c, e)
    <2>1. e = ConstantBytes(c) BY <1>1, <1>2, <1>3, <1>4, EntriesOf
    <2>2. QED BY <1>5, <2>1, ConstantAt
<1>7. PICK val \in Seq(Nat) : val = c.val BY <1>5 DEF IsConstant, Constants
<1>8. PICK y \in Nat : y = Len(val) OBVIOUS
<1>9. p \in Nat /\ EntryPos("pool", j) = p + Len(e)
       /\ \A k \in 1 .. Len(e) : At(p + (k - 1)) = e[k]
       /\ EntryPos("pool", j) <= flx.off["pool"] + Len(SectionBytes(compiled, "pool"))
    BY <1>1, <1>2, <1>3, <1>4, EntryAt
<1>10. e[1] = c.tag /\ Len(e) \in Nat /\ Len(e) >= 1
    <2>1. IsString(c) => Len(e) = 5 + y BY <1>6, <1>7, <1>8 DEF ConstantLayout
    <2>2. ~IsString(c) => Len(e) = 1 + y BY <1>6, <1>7, <1>8 DEF ConstantLayout
    <2>3. QED BY <1>6, <2>1, <2>2 DEF ConstantLayout
<1>11. At(p) = c.tag
    <2>1. 1 \in 1 .. Len(e) /\ p + (1 - 1) = p BY <1>9, <1>10
    <2>2. QED BY <1>9, <1>10, <2>1
<1>12. ASSUME IsString(c)
       PROVE  U32(p + 1) = y /\ Bytes(p + 5, y) = val /\ EntryPos("pool", j) = (p + 5) + y
    <2>1. /\ Len(e) = 5 + y /\ (e[2] + 256 * e[3]) + 65536 * (e[4] + 256 * e[5]) = y
          /\ \A k \in 1 .. y : e[5 + k] = val[k]
        <3>1. /\ Len(e) = 5 + Len(c.val)
              /\ (e[2] + 256 * e[3]) + 65536 * (e[4] + 256 * e[5]) = Len(c.val)
              /\ \A k \in 1 .. Len(c.val) : e[5 + k] = c.val[k]
            BY <1>6, <1>12 DEF ConstantLayout
        <3>2. QED BY ONLY <1>7, <1>8, <3>1
    <2>2. /\ 2 \in 1 .. Len(e) /\ 3 \in 1 .. Len(e) /\ 4 \in 1 .. Len(e) /\ 5 \in 1 .. Len(e)
          /\ p + (2 - 1) = p + 1 /\ p + (3 - 1) = (p + 1) + 1
          /\ p + (4 - 1) = (p + 1) + 2 /\ p + (5 - 1) = ((p + 1) + 2) + 1
          /\ p + Len(e) = (p + 5) + y
        <3>1. PICK l \in Nat : l = Len(e) BY <1>10
        <3>2. l = 5 + y BY ONLY <2>1, <3>1
        <3>3. p \in Nat BY <1>9
        <3>4. 2 \in 1 .. l /\ 3 \in 1 .. l /\ 4 \in 1 .. l /\ 5 \in 1 .. l BY ONLY <3>2
        <3>5. /\ p + (2 - 1) = p + 1 /\ p + (3 - 1) = (p + 1) + 1
              /\ p + (4 - 1) = (p + 1) + 2 /\ p + (5 - 1) = ((p + 1) + 2) + 1
              /\ p + l = (p + 5) + y
            BY ONLY <3>2, <3>3
        <3>6. QED BY ONLY <3>1, <3>4, <3>5
    <2>3. /\ At(p + 1) = e[2] /\ At((p + 1) + 1) = e[3]
          /\ At((p + 1) + 2) = e[4] /\ At(((p + 1) + 2) + 1) = e[5]
        <3>1. /\ At(p + (2 - 1)) = e[2] /\ At(p + (3 - 1)) = e[3]
              /\ At(p + (4 - 1)) = e[4] /\ At(p + (5 - 1)) = e[5]
            BY ONLY <1>9, <2>2
        <3>2. QED BY ONLY <2>2, <3>1
    <2>4. U32(p + 1) = y BY <2>1, <2>3 DEF U32, U16
    <2>5. Bytes(p + 5, y) = val
        <3>1. 5 + y <= Len(e) BY <2>1
        <3>2. Bytes(EntryPos("pool", j - 1) + 5, Len(val)) = val
            <4>1. 5 + Len(val) <= Len(EntryBytes(compiled, "pool")[j])
                  /\ \A k \in 1 .. Len(val) : EntryBytes(compiled, "pool")[j][5 + k] = val[k]
                BY ONLY <1>4, <1>8, <2>1, <3>1
            <4>2. j \in 1 .. Len(EntryBytes(compiled, "pool")) BY <1>2, <1>3
            <4>3. QED BY <1>1, <4>1, <4>2, BytesAt
        <3>3. QED BY <1>8, <3>2
    <2>6. QED BY <1>9, <2>2, <2>4, <2>5
<1>13. ASSUME ~IsString(c)
       PROVE  /\ Bytes(p + 1, y) = val /\ EntryPos("pool", j) = (p + 1) + y
              /\ y > 0 => At(p + 1) = val[1]
    <2>1. Len(e) = 1 + y /\ \A k \in 1 .. y : e[1 + k] = val[k]
        BY <1>6, <1>7, <1>8, <1>13 DEF ConstantLayout
    <2>2. p + Len(e) = (p + 1) + y BY <1>9, <2>1
    <2>3. Bytes(p + 1, y) = val
        <3>1. 1 + y <= Len(e) BY <2>1
        <3>2. Bytes(EntryPos("pool", j - 1) + 1, Len(val)) = val
            <4>1. 1 + Len(val) <= Len(EntryBytes(compiled, "pool")[j])
                  /\ \A k \in 1 .. Len(val) : EntryBytes(compiled, "pool")[j][1 + k] = val[k]
                BY ONLY <1>4, <1>8, <2>1, <3>1
            <4>2. j \in 1 .. Len(EntryBytes(compiled, "pool")) BY <1>2, <1>3
            <4>3. QED BY <1>1, <4>1, <4>2, BytesAt
        <3>3. QED BY <1>8, <3>2
    <2>4. ASSUME y > 0 PROVE At(p + 1) = val[1]
        <3>1. 1 \in 1 .. y /\ 2 \in 1 .. Len(e) /\ p + (2 - 1) = p + 1 /\ 1 + 1 = 2
            BY <1>9, <2>1, <2>4
        <3>2. At(p + (2 - 1)) = e[2] /\ e[1 + 1] = val[1] BY ONLY <1>9, <2>1, <3>1
        <3>3. QED BY ONLY <3>1, <3>2
    <2>5. QED BY <1>9, <2>2, <2>3, <2>4
<1>14. c.tag = compiled.pool[j].tag /\ c.val = compiled.pool[j].val BY <1>4
<1>15. IsString(compiled.pool[j]) <=> IsString(c) BY <1>4
<1>16. WITNESS y \in Nat
<1>17. QED BY <1>7, <1>8, <1>9, <1>11, <1>12, <1>13, <1>14, <1>15

-----------------------------------------------------------------------------
(* FLX: the steps.                                                         *)

\* With its last entry a section is there entirely.
LEMMA LastEntry ==
    ASSUME FlxInput, NEW s \in Sections, EntryPos(s, Len(EntryBytes(compiled, s))) <= flx.len
    PROVE  SectionIn(s)
<1>1. SectionBytes(compiled, s) = Joins(EntryBytes(compiled, s))[Len(EntryBytes(compiled, s))]
    BY FlxFields, SectionIsBytes
<1>2. QED BY <1>1 DEF SectionIn, EntryPos

\* A file in which an entry ends too late is not whole.
LEMMA TooShort ==
    ASSUME FlxInput, NEW s \in Sections, NEW p \in Nat, ~(p <= flx.len),
           p <= flx.off[s] + Len(SectionBytes(compiled, s))
    PROVE  ~Whole
<1>1. PICK o \in Nat, l \in Nat : o = flx.off[s] /\ l = Len(SectionBytes(compiled, s)) BY SectionAt
<1>2. o + l <= End(compiled) BY <1>1, SectionAt
<1>3. flx.len \in Int /\ flx.len <= End(compiled) BY FlxFields
<1>4. PICK z \in Int : z = End(compiled)
    <2>1. WellCompiled(compiled) BY FlxFields
    <2>2. Body(compiled)[3] \in Seq(Nat) BY <2>1, BodySteps
    <2>3. Len(Body(compiled)[3]) \in Nat BY <2>2
    <2>4. QED BY <2>3, FlxFields
<1>5. ~(flx.len >= z) BY <1>1, <1>2, <1>3, <1>4
<1>6. QED BY <1>4, <1>5 DEF Whole

\* The header.
LEMMA ReadFlxHeaderInv ==
    ASSUME FlxInv, ReadFlxHeader
    PROVE  FlxInv'
<1>1. FlxInput /\ UNCHANGED input BY DEF FlxInv, ReadFlxHeader
<1>2. /\ meta' = meta /\ pool' = pool /\ code' = code /\ instructions' = instructions
      /\ MetaOf(compiled, meta', 0) /\ PoolOf(compiled, pool', 0)
      /\ CodeOf(compiled, instructions', 0)
    BY DEF FlxInv, Stage, ReadFlxHeader
<1>3. Stage(flxPc', flxPos', left', flxRes', meta', pool', code', instructions')
    <2>1. CASE flx.len < HeaderSize \/ ~flx.magic
        <3>1. FlxFail BY <2>1 DEF ReadFlxHeader
        <3>2. ~Whole
            <4>1. CASE ~flx.magic BY <1>1, <4>1, FlxFields DEF Whole, Decodable
            <4>2. CASE flx.len < HeaderSize
                <5>1. WellCompiled(compiled) BY <1>1, FlxFields
                <5>2. Body(compiled)[3] \in Seq(Nat) BY <5>1, BodySteps
                <5>3. PICK x \in Nat : x = Len(Body(compiled)[3]) BY <5>2
                <5>4. End(compiled) = HeaderSize + x /\ HeaderSize \in Nat /\ flx.len \in Int
                    BY <1>1, <5>3, FlxFields
                <5>5. QED BY <4>2, <5>4 DEF Whole
            <4>3. QED BY <2>1, <4>1, <4>2
        <3>3. QED BY <3>1, <3>2, FailStage
    <2>2. CASE ~(flx.len < HeaderSize \/ ~flx.magic)
        <3>1. EnterMetadata BY <2>2 DEF ReadFlxHeader
        <3>2. HeaderIn BY <1>1, <2>2, FlxFields DEF HeaderIn
        <3>3. QED BY <1>1, <1>2, <3>1, <3>2, EnterMetadataStage
    <2>3. QED BY <2>1, <2>2
<1>4. QED BY <1>1, <1>3, Carry

\* A key and its value.
LEMMA ReadMetadataInv ==
    ASSUME FlxInv, ReadMetadata
    PROVE  FlxInv'
<1>1. FlxInput /\ UNCHANGED input BY DEF FlxInv, ReadMetadata
<1>2. /\ pool' = pool /\ code' = code /\ instructions' = instructions
      /\ HeaderIn /\ PoolOf(compiled, pool', 0) /\ CodeOf(compiled, instructions', 0)
    BY DEF FlxInv, Stage, ReadMetadata
<1>3. PICK n \in Nat : n = Len(compiled.meta) /\ n = Len(EntryBytes(compiled, "metadata"))
    BY <1>1, FlxFields, EntriesOf
<1>4. PICK j \in 1 .. n :
        MetaOf(compiled, meta, j - 1) /\ flxPos = EntryPos("metadata", j - 1) /\ left = n - j + 1
    BY <1>3 DEF FlxInv, Stage, ReadMetadata
<1>5. PICK x \in Nat, y \in Nat :
        /\ flxPos \in Nat /\ U16(flxPos) = x /\ Bytes(flxPos + 2, x) = compiled.meta[j].key
        /\ U16((flxPos + 2) + x) = y /\ Bytes(((flxPos + 2) + x) + 2, y) = compiled.meta[j].val
        /\ EntryPos("metadata", j) = (((flxPos + 2) + x) + 2) + y
        /\ EntryPos("metadata", j) <= flx.off["metadata"] + Len(SectionBytes(compiled, "metadata"))
    BY <1>1, <1>3, <1>4, PairRead
<1>6. PICK v \in Nat, q \in Nat : v = (flxPos + 2) + x /\ q = (v + 2) + y BY <1>5
<1>7. PICK key, val : key = compiled.meta[j].key /\ val = compiled.meta[j].val OBVIOUS
<1>8. IF Has(flxPos, 2) /\ Has(flxPos + 2, x) /\ Has(v, 2) /\ Has(v + 2, y)
      THEN /\ meta' = [k \in DOMAIN meta \cup {key} |-> IF k = key THEN val ELSE meta[k]]
           /\ IF left = 1 THEN EnterPool ELSE Advance(q)
      ELSE FlxFail /\ UNCHANGED meta
    BY <1>5, <1>6, <1>7 DEF ReadMetadata
<1>9. flx.len \in Int BY <1>1, FlxFields
<1>10. q = EntryPos("metadata", j) BY <1>5, <1>6
<1>11. (Has(flxPos, 2) /\ Has(flxPos + 2, x) /\ Has(v, 2) /\ Has(v + 2, y)) <=> q <= flx.len
    <2>1. flxPos \in Nat BY <1>5
    <2>2. QED BY <1>6, <1>9, <2>1 DEF Has
<1>12. Stage(flxPc', flxPos', left', flxRes', meta', pool', code', instructions')
    <2>1. CASE ~(q <= flx.len)
        <3>1. FlxFail BY <1>8, <1>11, <2>1
        <3>2. "metadata" \in Sections BY DEF Sections
        <3>3. q <= flx.off["metadata"] + Len(SectionBytes(compiled, "metadata")) BY <1>5, <1>10
        <3>4. ~Whole BY <1>1, <2>1, <3>2, <3>3, TooShort
        <3>5. QED BY <3>1, <3>4, FailStage
    <2>2. CASE q <= flx.len
        <3>1. meta' = WithPair(meta, key, val) BY <1>8, <1>11, <2>2 DEF WithPair
        <3>2. j \in Nat \ {0} BY <1>4
        <3>3. MetaOf(compiled, meta', j) BY <1>4, <1>7, <3>1, <3>2, OnePair
        <3>4. CASE left = 1
            <4>1. j = n BY <1>4, <3>4
            <4>2. SectionIn("metadata")
                <5>1. "metadata" \in Sections BY DEF Sections
                <5>2. EntryPos("metadata", Len(EntryBytes(compiled, "metadata"))) <= flx.len
                    BY <1>3, <1>10, <2>2, <4>1
                <5>3. QED BY <1>1, <5>1, <5>2, LastEntry
            <4>3. MetaDone(meta') BY <1>3, <3>3, <4>1, <4>2 DEF MetaDone
            <4>4. EnterPool BY <1>8, <1>11, <2>2, <3>4
            <4>5. QED BY <1>1, <1>2, <4>3, <4>4, EnterPoolStage
        <3>5. CASE left # 1
            <4>1. j + 1 \in 1 .. n /\ (j + 1) - 1 = j /\ left - 1 = n - (j + 1) + 1 BY <1>4, <3>5
            <4>2. flxPc' = "metadata" /\ flxPos' = q /\ left' = left - 1
                BY <1>8, <1>11, <2>2, <3>5 DEF Advance, ReadMetadata
            <4>3. flxPos' = EntryPos("metadata", (j + 1) - 1) /\ left' = n - (j + 1) + 1
                  /\ MetaOf(compiled, meta', (j + 1) - 1)
                BY <1>10, <3>3, <4>1, <4>2
            <4>4. QED BY <1>2, <1>3, <4>1, <4>2, <4>3 DEF Stage
        <3>6. QED BY <3>4, <3>5
    <2>3. QED BY <2>1, <2>2
<1>13. QED BY <1>1, <1>12, Carry

\* One more element.
LEMMA OneMore ==
    ASSUME NEW j \in Nat \ {0}, NEW g, NEW s, s = [i \in 1 .. (j - 1) |-> g[i]], NEW e, e = g[j]
    PROVE  Append(s, e) = [i \in 1 .. j |-> g[i]]
<1> DEFINE A == {g[i] : i \in 1 .. j}
           t == [i \in 1 .. j |-> g[i]]
<1>1. /\ j \in Nat /\ j - 1 \in Nat /\ (j - 1) + 1 = j /\ j \in 1 .. j
      /\ \A i \in 1 .. (j - 1) : i \in 1 .. j
      /\ \A i \in 1 .. j : i \in 1 .. (j - 1) \/ i = j
    OBVIOUS
<1>2. PICK n \in Nat : n = j - 1 BY <1>1
<1>3. s \in Seq(A) /\ Len(s) = n /\ e \in A
    <2>1. s \in [1 .. n -> A] BY <1>1, <1>2
    <2>2. e \in A BY <1>1
    <2> HIDE DEF A
    <2>3. s \in Seq(A) /\ Len(s) = n BY ONLY <2>1
    <2>4. QED BY <2>2, <2>3
<1>4. t \in Seq(A) /\ Len(t) = j
    <2>1. t \in [1 .. j -> A] BY <1>1
    <2> HIDE DEF A, t
    <2>2. QED BY ONLY <1>1, <2>1
<1>5. PICK u : u = Append(s, e) OBVIOUS
<1> HIDE DEF A
<1>6. /\ u \in Seq(A) /\ Len(u) = n + 1 /\ \A i \in 1 .. n : u[i] = s[i]
      /\ u[n + 1] = e
    BY <1>3, <1>5, AppendProperties
<1>7. \A i \in 1 .. j : u[i] = t[i] BY <1>1, <1>2, <1>6
<1> HIDE DEF t
<1>8. Len(u) = Len(t) /\ \A i \in 1 .. Len(u) : u[i] = t[i] BY <1>1, <1>2, <1>4, <1>6, <1>7
<1>9. u = t BY <1>4, <1>6, <1>8, SeqEqual
<1>10. QED BY <1>5, <1>9 DEF t

\* A constant as the reader keeps it.
LEMMA TruthOf ==
    ASSUME NEW c \in Constants
    PROVE  Truth(c) = [tag |-> c.tag,
                       val |-> IF c.tag = TagBool THEN <<IF c.val = <<0>> THEN 0 ELSE 1>> ELSE c.val]
BY DEF Truth, Constants

\* One byte is false or true.
LEMMA OneByte ==
    ASSUME NEW val \in Seq(Nat), Len(val) = 1
    PROVE  val = <<0>> <=> val[1] = 0
<1>1. <<0>> \in Seq(Nat) /\ Len(<<0>>) = 1 /\ <<0>>[1] = 0 OBVIOUS
<1>2. PICK z : z = <<0>> OBVIOUS
<1>3. z \in Seq(Nat) /\ Len(z) = 1 /\ z[1] = 0 BY <1>1, <1>2
<1>4. ASSUME val[1] = 0 PROVE val = z
    <2>1. \A i \in 1 .. 1 : i = 1 OBVIOUS
    <2>2. Len(val) = Len(z) /\ \A i \in 1 .. Len(val) : val[i] = z[i] BY <1>3, <1>4, <2>1
    <2>3. QED BY <1>3, <2>2, SeqEqual
<1>5. ASSUME val = z PROVE val[1] = 0 BY <1>3, <1>5
<1>6. QED BY <1>2, <1>4, <1>5

\* A constant.
LEMMA DecodeConstantInv ==
    ASSUME FlxInv, DecodeConstant
    PROVE  FlxInv'
<1>1. FlxInput /\ UNCHANGED input BY DEF FlxInv, DecodeConstant
<1>2. /\ meta' = meta /\ code' = code /\ instructions' = instructions
      /\ HeaderIn /\ MetaDone(meta') /\ CodeOf(compiled, instructions', 0)
    BY DEF FlxInv, Stage, DecodeConstant
<1>3. WellCompiled(compiled) /\ "pool" \in Sections BY <1>1, FlxFields DEF Sections
<1>4. PICK n \in Nat : n = Len(compiled.pool) /\ n = Len(EntryBytes(compiled, "pool"))
    BY <1>3, EntriesOf
<1>5. PICK j \in 1 .. n :
        PoolOf(compiled, pool, j - 1) /\ flxPos = EntryPos("pool", j - 1) /\ left = n - j + 1
    BY <1>4 DEF FlxInv, Stage, DecodeConstant
<1>6. PICK c : c = compiled.pool[j] OBVIOUS
<1>7. IsConstant(c) /\ j \in DOMAIN compiled.pool
    <2>1. compiled.pool \in Seq(Constants) BY <1>3 DEF WellCompiled
    <2>2. DOMAIN compiled.pool = 1 .. Len(compiled.pool) BY <2>1
    <2>3. j \in DOMAIN compiled.pool BY <1>4, <2>2
    <2>4. QED BY <1>3, <1>6, <2>3 DEF WellCompiled
<1>8. PICK t \in Nat, val \in Seq(Nat) : t = c.tag /\ val = c.val BY <1>7 DEF IsConstant, Constants
<1>9. PICK y \in Nat :
        /\ flxPos \in Nat /\ At(flxPos) = t /\ y = Len(val)
        /\ EntryPos("pool", j) <= flx.off["pool"] + Len(SectionBytes(compiled, "pool"))
        /\ IsString(c) => /\ U32(flxPos + 1) = y /\ Bytes(flxPos + 5, y) = val
                          /\ EntryPos("pool", j) = (flxPos + 5) + y
        /\ ~IsString(c) => /\ Bytes(flxPos + 1, y) = val
                           /\ EntryPos("pool", j) = (flxPos + 1) + y
                           /\ y > 0 => At(flxPos + 1) = val[1]
    BY <1>1, <1>4, <1>5, <1>6, <1>8, ConstantRead
<1>10. IsString(c) <=> t \in {TagString, TagSymbol} BY <1>8 DEF IsString
<1>16. PICK start : start = IF t \in {TagString, TagSymbol} THEN flxPos + 5 ELSE flxPos + 1
    OBVIOUS
<1>17. PICK extent : extent = CASE t \in {TagInt, TagFloat} -> 8
                            [] t = TagBool -> 1
                            [] t \in {TagString, TagSymbol} -> U32(flxPos + 1)
                            [] OTHER -> 0
    OBVIOUS
<1>11. PICK value :
         value = IF t = TagBool THEN <<IF At(start) # 0 THEN 1 ELSE 0>> ELSE Bytes(start, extent)
    OBVIOUS
<1>12. IF Has(flxPos, 1) /\ t \in TagNull .. TagBool /\ Has(flxPos, start - flxPos) /\ Has(start, extent)
       THEN /\ pool' = Append(pool, [tag |-> t, val |-> value])
            /\ IF left = 1 THEN EnterBytecode ELSE Advance(start + extent)
       ELSE FlxFail /\ UNCHANGED pool
    BY <1>9, <1>11, <1>16, <1>17 DEF DecodeConstant
<1>13. ASSUME ~(t \in TagNull .. TagBool)
       PROVE  Stage(flxPc', flxPos', left', flxRes', meta', pool', code', instructions')
    <2>1. FlxFail BY <1>12, <1>13
    <2>2. ~Whole BY <1>6, <1>7, <1>8, <1>13 DEF Whole, Decodable
    <2>3. QED BY <2>1, <2>2, FailStage
<1>14. ASSUME t \in TagNull .. TagBool
       PROVE  Stage(flxPc', flxPos', left', flxRes', meta', pool', code', instructions')
    <2>1. t = TagNull \/ t = TagInt \/ t = TagFloat \/ t = TagString \/ t = TagSymbol \/ t = TagBool
        BY <1>14 DEF TagNull, TagInt, TagFloat, TagString, TagSymbol, TagBool
    <2>2. extent = y /\ (IsString(c) => start = flxPos + 5) /\ (~IsString(c) => start = flxPos + 1)
        <3>1. t \in {TagInt, TagFloat} => y = 8 BY <1>7, <1>8, <1>9 DEF IsConstant
        <3>2. t = TagBool => y = 1 BY <1>7, <1>8, <1>9 DEF IsConstant
        <3>3. t = TagNull => y = 0
            <4>1. t = TagNull => val = <<>> BY <1>7, <1>8 DEF IsConstant
            <4>2. QED BY <1>9, <4>1
        <3>4. t \in {TagString, TagSymbol} => U32(flxPos + 1) = y BY <1>9, <1>10
        <3>5. QED BY <1>10, <1>16, <1>17, <2>1, <3>1, <3>2, <3>3, <3>4
                  DEF TagNull, TagInt, TagFloat, TagString, TagSymbol, TagBool
    <2>3. /\ start \in Nat /\ extent \in Nat /\ start >= flxPos + 1 /\ start + extent = EntryPos("pool", j)
        BY <1>9, <2>2
    <2>4. PICK q \in Nat : q = start + extent /\ q = EntryPos("pool", j) BY <2>3
    <2>5. (Has(flxPos, 1) /\ Has(flxPos, start - flxPos) /\ Has(start, extent)) <=> q <= flx.len
        <3>1. flx.len \in Int BY <1>1, FlxFields
        <3>2. QED BY <1>9, <2>3, <2>4, <3>1 DEF Has
    <2>6. [tag |-> t, val |-> value] = Truth(c)
        <3>1. CASE t = TagBool
            <4>1. y = 1 /\ ~IsString(c)
                BY <1>7, <1>8, <1>9, <1>10, <3>1 DEF IsConstant, TagBool, TagString, TagSymbol
            <4>2. At(start) = val[1] BY <1>9, <2>2, <4>1
            <4>3. value = <<IF val[1] # 0 THEN 1 ELSE 0>> BY <1>11, <3>1, <4>2
            <4>4. val = <<0>> <=> val[1] = 0 BY <1>9, <4>1, OneByte
            <4>5. Truth(c) = [tag |-> t, val |-> <<IF val = <<0>> THEN 0 ELSE 1>>]
                BY <1>7, <1>8, <3>1, TruthOf DEF IsConstant
            <4>6. QED BY <4>3, <4>4, <4>5
        <3>2. CASE t # TagBool
            <4>1. value = val BY <1>9, <1>11, <2>2, <3>2
            <4>2. Truth(c) = [tag |-> t, val |-> val] BY <1>7, <1>8, <3>2, TruthOf DEF IsConstant
            <4>3. QED BY <4>1, <4>2
        <3>3. QED BY <3>1, <3>2
    <2>7. CASE ~(q <= flx.len)
        <3>1. FlxFail BY <1>12, <2>5, <2>7
        <3>2. q <= flx.off["pool"] + Len(SectionBytes(compiled, "pool")) BY <1>9, <2>4
        <3>3. ~Whole BY <1>1, <1>3, <2>7, <3>2, TooShort
        <3>4. QED BY <3>1, <3>3, FailStage
    <2>8. CASE q <= flx.len
        <3>1. pool' = Append(pool, Truth(c)) BY <1>12, <1>14, <2>5, <2>6, <2>8
        <3>2. PoolOf(compiled, pool', j)
            <4> DEFINE g == [i \in 1 .. j |-> Truth(compiled.pool[i])]
            <4>1. /\ j \in Nat \ {0} /\ j \in 1 .. j /\ \A i \in 1 .. (j - 1) : i \in 1 .. j
                  /\ \A i \in 1 .. j : i \in 1 .. (j - 1) \/ i = j
                OBVIOUS
            <4>2. pool = [i \in 1 .. (j - 1) |-> g[i]]
                <5>1. pool = [i \in 1 .. (j - 1) |-> Truth(compiled.pool[i])] BY <1>5 DEF PoolOf
                <5>2. QED BY <4>1, <5>1
            <4>3. Truth(c) = g[j] BY <1>6, <4>1
            <4>4. g = [i \in 1 .. j |-> g[i]] OBVIOUS
            <4>5. Append(pool, Truth(c)) = g
                <5> HIDE DEF g
                <5>1. Append(pool, Truth(c)) = [i \in 1 .. j |-> g[i]] BY <4>1, <4>2, <4>3, OneMore
                <5>2. QED BY <4>4, <5>1
            <4>6. \A i \in 1 .. j : compiled.pool[i].tag \in TagNull .. TagBool
                BY <1>5, <1>6, <1>8, <1>14, <4>1 DEF PoolOf
            <4>7. QED BY <3>1, <4>5, <4>6 DEF PoolOf
        <3>3. CASE left = 1
            <4>1. j = n BY <1>5, <3>3
            <4>2. SectionIn("pool")
                <5>1. EntryPos("pool", Len(EntryBytes(compiled, "pool"))) <= flx.len
                    BY <1>4, <2>4, <2>8, <4>1
                <5>2. QED BY <1>1, <1>3, <5>1, LastEntry
            <4>3. PoolDone(pool') BY <1>4, <3>2, <4>1, <4>2 DEF PoolDone
            <4>4. EnterBytecode BY <1>12, <1>14, <2>5, <2>8, <3>3
            <4>5. QED BY <1>1, <1>2, <4>3, <4>4, EnterBytecodeStage
        <3>4. CASE left # 1
            <4>1. j + 1 \in 1 .. n /\ (j + 1) - 1 = j /\ left - 1 = n - (j + 1) + 1 BY <1>5, <3>4
            <4>2. flxPc' = "pool" /\ flxPos' = q /\ left' = left - 1
                BY <1>12, <1>14, <2>4, <2>5, <2>8, <3>4 DEF Advance, DecodeConstant
            <4>3. flxPos' = EntryPos("pool", (j + 1) - 1) /\ left' = n - (j + 1) + 1
                  /\ PoolOf(compiled, pool', (j + 1) - 1)
                BY <2>4, <3>2, <4>1, <4>2
            <4>4. QED BY <1>2, <1>4, <4>1, <4>2, <4>3 DEF Stage
        <3>5. QED BY <3>3, <3>4
    <2>9. QED BY <2>7, <2>8
<1>15. QED BY <1>1, <1>13, <1>14, Carry

\* The bytecode, all of it at once.
LEMMA ReadBytecodeInv ==
    ASSUME FlxInv, ReadBytecode
    PROVE  FlxInv'
<1>1. FlxInput /\ UNCHANGED input BY DEF FlxInv, ReadBytecode
<1>2. /\ meta' = meta /\ pool' = pool /\ instructions' = instructions
      /\ HeaderIn /\ MetaDone(meta') /\ PoolDone(pool') /\ CodeOf(compiled, instructions', 0)
      /\ flxPos = flx.off["bytecode"] /\ left = Len(SectionBytes(compiled, "bytecode"))
    BY DEF FlxInv, Stage, ReadBytecode
<1>3. WellCompiled(compiled) /\ "bytecode" \in Sections BY <1>1, FlxFields DEF Sections
<1>4. PICK sb \in Seq(Nat) : sb = SectionBytes(compiled, "bytecode") BY <1>3, SectionIsBytes
<1>5. PICK l \in Nat, o \in Nat : l = Len(sb) /\ o = flx.off["bytecode"] BY <1>1, <1>3, <1>4, SectionAt
<1>6. Stage(flxPc', flxPos', left', flxRes', meta', pool', code', instructions')
    <2>1. CASE ~Has(flxPos, left)
        <3>1. FlxFail BY <2>1 DEF ReadBytecode
        <3>2. ~(o + l <= flx.len) BY <1>2, <1>4, <1>5, <2>1 DEF Has
        <3>3. o + l <= flx.off["bytecode"] + Len(SectionBytes(compiled, "bytecode")) /\ o + l \in Nat
            BY <1>4, <1>5
        <3>4. ~Whole BY <1>1, <1>3, <3>2, <3>3, TooShort
        <3>5. QED BY <3>1, <3>4, FailStage
    <2>2. CASE Has(flxPos, left)
        <3>1. flxPc' = "disassemble" /\ flxPos' = 0 /\ code' = Bytes(o, l)
            BY <1>2, <1>4, <1>5, <2>2 DEF ReadBytecode
        <3>2. SectionIn("bytecode") BY <1>2, <2>2 DEF SectionIn, Has
        <3>3. Bytes(o, l) = sb
            <4>1. PICK h \in Nat, q \in Nat : h = HeaderSize /\ q = o - HeaderSize
                BY <1>1, <1>3, <1>5, SectionAt, FlxFields
            <4>2. PICK b \in Seq(Nat) : b = flx.body BY <1>1, <1>3, SectionAt
            <4>3. PICK z \in Nat : z = Len(b) OBVIOUS
            <4>4. q + l <= z BY <1>1, <1>3, <1>4, <1>5, <4>1, <4>2, <4>3, SectionAt
            <4>5. \A i \in 1 .. l : b[q + i] = sb[i]
                <5> SUFFICES ASSUME NEW i \in 1 .. l PROVE b[q + i] = sb[i] OBVIOUS
                <5>1. At(o + (i - 1)) = sb[i] BY <1>1, <1>3, <1>4, <1>5, SectionAt
                <5>2. (o + (i - 1)) - h + 1 = q + i
                    <6>1. q = o - h BY <4>1
                    <6>2. QED BY ONLY <6>1
                <5>3. At(o + (i - 1)) = b[q + i] BY <4>1, <4>2, <5>2 DEF At
                <5>4. QED BY <5>1, <5>3
            <4>6. PICK w : w = SubSeq(b, q + 1, q + l) OBVIOUS
            <4>7. w \in Seq(Nat) /\ Len(w) = l /\ \A i \in 1 .. Len(w) : w[i] = b[(q + 1) + i - 1]
                <5>1. /\ q + 1 \in 1 .. (Len(b) + 1) /\ q + l \in (q + 1) - 1 .. Len(b)
                      /\ q + 1 <= (q + l) + 1 /\ (q + l) - (q + 1) + 1 = l
                    BY ONLY <4>3, <4>4
                <5>2. QED BY <4>6, <5>1, SubSeqProperties
            <4>8. \A i \in 1 .. l : (q + 1) + i - 1 = q + i OBVIOUS
            <4>9. Len(w) = Len(sb) /\ \A i \in 1 .. Len(w) : w[i] = sb[i]
                BY ONLY <1>5, <4>5, <4>7, <4>8
            <4>10. w = sb BY <4>7, <4>9, SeqEqual
            <4>11. (o - h + 1 = q + 1) /\ (o - h + l = q + l) BY ONLY <1>5, <4>1
            <4>12. Bytes(o, l) = SubSeq(b, q + 1, q + l) BY <4>1, <4>2, <4>11 DEF Bytes
            <4>13. QED BY <4>6, <4>10, <4>12
        <3>4. Len(Joins(EntryBytes(compiled, "bytecode"))[0]) = 0
            <4>1. Joins(EntryBytes(compiled, "bytecode"))[0] = <<>> BY <1>3, SectionIsBytes
            <4>2. QED BY <4>1
        <3>5. 0 \in 0 .. Len(compiled.code) BY <1>3, EntriesOf
        <3>6. QED BY <1>2, <1>4, <3>1, <3>2, <3>3, <3>4, <3>5 DEF Stage
    <2>3. QED BY <2>1, <2>2
<1>7. QED BY <1>1, <1>6, Carry

-----------------------------------------------------------------------------
(* FLX: the disassembler.                                                  *)

\* The opcodes of the table, by the kind of operand.
LEMMA OpcodeClasses ==
    ASSUME NEW op
    PROVE  /\ op \in PoolOps => op \in Nat /\ op >= 1 /\ op <= 3
           /\ op \in JumpOps => op \in Nat /\ op >= 48 /\ op <= 51
           /\ op \in ArgcOps => op = 64
           /\ op \in PlainOps => /\ op \in Nat /\ op # 64
                                 /\ op < 1 \/ op > 3
                                 /\ op < 48 \/ op > 51
BY DEF PoolOps, JumpOps, ArgcOps, PlainOps

\* An instruction that is not cut short has the size of its opcode; one that is has not.
LEMMA SizeOf ==
    ASSUME NEW it, NEW isLast \in BOOLEAN, IsInstruction(it, isLast)
    PROVE  /\ it.kind # "truncated" => InstructionSize(it.op) = 1 + it.width
           /\ it.kind = "truncated" => isLast /\ 1 + it.width < InstructionSize(it.op)
           /\ InstructionSize(it.op) \in {1, 2, 3}
<1>1. InstructionSize(it.op) \in {1, 2, 3} BY DEF InstructionSize
<1>2. ASSUME it.kind = "truncated" PROVE isLast /\ 1 + it.width < InstructionSize(it.op)
    BY <1>2 DEF IsInstruction
<1>3. ASSUME it.kind # "truncated" PROVE InstructionSize(it.op) = 1 + it.width
    <2>1. CASE it.op \in PoolOps /\ it.width = 2 BY <2>1 DEF InstructionSize
    <2>2. CASE it.op \in JumpOps /\ it.width = 2 BY <2>2 DEF InstructionSize
    <2>3. CASE it.op \in ArgcOps /\ it.width = 1
        <3>1. it.op \notin PoolOps /\ it.op \notin JumpOps BY <2>3, OpcodeClasses
        <3>2. QED BY <2>3, <3>1 DEF InstructionSize
    <2>4. CASE it.op \in PlainOps /\ it.width = 0
        <3>1. it.op \notin PoolOps /\ it.op \notin JumpOps /\ it.op \notin ArgcOps
            BY <2>4, OpcodeClasses
        <3>2. QED BY <2>4, <3>1 DEF InstructionSize
    <2>5. CASE it.op \notin PoolOps \cup JumpOps \cup ArgcOps \cup PlainOps /\ it.width = 0
        BY <2>5 DEF InstructionSize
    <2>6. QED BY <1>3, <2>1, <2>2, <2>3, <2>4, <2>5 DEF IsInstruction
<1>4. QED BY <1>1, <1>2, <1>3

\* The operand as the disassembler reads it is shown as what it stands for.
LEMMA AnnotationRight ==
    ASSUME NEW it, NEW isLast \in BOOLEAN, IsInstruction(it, isLast), it.kind # "truncated",
           NEW v, NEW p \in Nat,
           it.width = 2 => v = ByteOf(it.arg, 1) + 256 * ByteOf(it.arg, 2),
           it.width = 1 => v = ByteOf(it.arg, 1),
           PoolOf(compiled, pool, Len(compiled.pool)), Len(compiled.pool) \in Nat
    PROVE  Annotation(it.op, v, p) = Meaning(compiled, it, p)
<1>1. PICK op \in Nat, arg \in Int : op = it.op /\ arg = it.arg BY DEF IsInstruction, Instructions
<1>2. PICK n \in Nat : n = Len(compiled.pool) OBVIOUS
<1>3. Len(pool) = n /\ \A i \in 1 .. n : pool[i] = Truth(compiled.pool[i])
    <2>1. pool = [i \in 1 .. n |-> Truth(compiled.pool[i])] BY <1>2 DEF PoolOf
    <2>2. QED BY <2>1
<1>4. CASE it.kind = "constant" /\ op \in PoolOps /\ it.width = 2 /\ 0 <= arg /\ arg < 65536
    <2>1. v = arg BY <1>1, <1>4, TwoBytes
    <2>6. op \notin JumpOps /\ op \notin ArgcOps /\ op \notin PlainOps BY <1>4, OpcodeClasses
    <2>2. Annotation(op, v, p) = Format(arg) BY <1>4, <2>1, <2>6 DEF Annotation
    <2>3. CASE arg < n
        <3>1. arg + 1 \in 1 .. n BY <1>4, <2>3
        <3>2. Format(arg) = <<"constant", Truth(compiled.pool[arg + 1])>>
            BY <1>3, <2>3, <3>1 DEF Format
        <3>3. Meaning(compiled, it, p) = <<"constant", Truth(compiled.pool[arg + 1])>>
            BY <1>1, <1>2, <1>4, <2>3 DEF Meaning
        <3>4. QED BY <1>1, <2>2, <3>2, <3>3
    <2>4. CASE ~(arg < n)
        <3>1. Format(arg) = <<"invalid", arg>> BY <1>3, <2>4 DEF Format
        <3>2. Meaning(compiled, it, p) = <<"invalid", arg>>
            BY <1>1, <1>2, <1>4, <2>4 DEF Meaning
        <3>3. QED BY <1>1, <2>2, <3>1, <3>2
    <2>5. QED BY <2>3, <2>4
<1>5. CASE it.kind = "jump" /\ op \in JumpOps /\ it.width = 2 /\ -32768 <= arg /\ arg < 32768
    <2>1. op \notin PoolOps /\ op \notin ArgcOps /\ op \notin PlainOps BY <1>5, OpcodeClasses
    <2>2. Int16(v) = arg
        <3>1. CASE 0 <= arg
            <4>1. v = arg BY <1>1, <1>5, <3>1, TwoBytes
            <4>2. QED BY <1>5, <4>1 DEF Int16
        <3>2. CASE arg < 0
            <4>1. v = arg + 65536 BY <1>1, <1>5, <3>2, TwoBytes
            <4>2. QED BY <1>5, <4>1 DEF Int16
        <3>3. QED BY <3>1, <3>2
    <2>3. Annotation(op, v, p) = <<"target", p + 3 + arg>> BY <1>5, <2>1, <2>2 DEF Annotation
    <2>4. Meaning(compiled, it, p) = <<"target", p + 3 + arg>> BY <1>1, <1>5 DEF Meaning
    <2>5. QED BY <1>1, <2>3, <2>4
<1>6. CASE it.kind = "argc" /\ op \in ArgcOps /\ it.width = 1 /\ 0 <= arg /\ arg < 256
    <2>1. op \notin PoolOps /\ op \notin JumpOps /\ op \notin PlainOps BY <1>6, OpcodeClasses
    <2>2. v = arg BY <1>1, <1>6, TwoBytes
    <2>3. Annotation(op, v, p) = <<"argc", arg>> BY <1>6, <2>1, <2>2 DEF Annotation
    <2>4. Meaning(compiled, it, p) = <<"argc", arg>> BY <1>1, <1>6 DEF Meaning
    <2>5. QED BY <1>1, <2>3, <2>4
<1>7. CASE it.kind = "none" /\ op \in PlainOps
    <2>1. op \notin PoolOps /\ op \notin JumpOps /\ op \notin ArgcOps BY <1>7, OpcodeClasses
    <2>2. Annotation(op, v, p) = <<"none">> BY <1>7, <2>1 DEF Annotation
    <2>3. Meaning(compiled, it, p) = <<"none">> BY <1>7 DEF Meaning
    <2>4. QED BY <1>1, <2>2, <2>3
<1>8. CASE it.kind = "unknown" /\ op \notin PoolOps \cup JumpOps \cup ArgcOps \cup PlainOps
    <2>1. Annotation(op, v, p) = <<"unknown">> BY <1>8 DEF Annotation
    <2>2. Meaning(compiled, it, p) = <<"unknown">> BY <1>8 DEF Meaning
    <2>3. QED BY <1>1, <2>1, <2>2
<1>9. QED BY <1>1, <1>4, <1>5, <1>6, <1>7, <1>8 DEF IsInstruction

\* Instruction it lies in c from p on and ends at q.
InstructionLies(it, c, p, q) ==
    /\ it.width \in 0 .. 2 /\ p \in Nat /\ c \in Seq(Nat)
    /\ q = p + (1 + it.width) /\ p + (1 + it.width) <= Len(c)
    /\ c[p + 1] = it.op /\ \A i \in 1 .. it.width : c[p + (1 + i)] = ByteOf(it.arg, i)
    /\ SubSeq(c, p + 1, p + (1 + it.width)) = InstructionBytes(it)

\* Where an instruction begins the bytecode goes on with its bytes.
LEMMA InstructionRead ==
    ASSUME FlxInput, NEW j \in 1 .. Len(compiled.code), NEW c,
           c = SectionBytes(compiled, "bytecode"), NEW p,
           p = Len(Joins(EntryBytes(compiled, "bytecode"))[j - 1])
    PROVE  /\ IsInstruction(compiled.code[j], j = Len(compiled.code))
           /\ InstructionLies(compiled.code[j], c, p,
                              Len(Joins(EntryBytes(compiled, "bytecode"))[j]))
<1>1. WellCompiled(compiled) /\ "bytecode" \in Sections BY FlxFields DEF Sections
<1>2. PICK n \in Nat : n = Len(compiled.code) /\ n = Len(EntryBytes(compiled, "bytecode"))
    BY <1>1, EntriesOf
<1>3. j \in 1 .. n BY <1>2
<1>4. PICK it, e : it = compiled.code[j] /\ e = InstructionBytes(it) OBVIOUS
<1>5. IsInstruction(it, j = n) /\ it \in Instructions
    <2>1. compiled.code \in Seq(Instructions) BY <1>1 DEF WellCompiled
    <2>2. DOMAIN compiled.code = 1 .. n
        <3>1. DOMAIN compiled.code = 1 .. Len(compiled.code) BY <2>1
        <3>2. QED BY <1>2, <3>1
    <2>3. QED BY <1>1, <1>2, <1>3, <1>4, <2>1, <2>2, ElementOfSeq DEF WellCompiled
<1>6. PICK w \in 0 .. 2 : w = it.width BY <1>5 DEF Instructions
<1>7. InstructionLayout(it, e) BY <1>4, <1>5, InstructionAt
<1>8. /\ e \in Seq(Nat) /\ Len(e) = 1 + w /\ e[1] = it.op
      /\ \A i \in 1 .. w : e[1 + i] = ByteOf(it.arg, i)
    BY <1>6, <1>7 DEF InstructionLayout
<1>9. EntryLies(EntryBytes(compiled, "bytecode"), c, j) BY <1>1, <1>2, <1>3, EntryInSection
<1>10. EntryBytes(compiled, "bytecode")[j] = e BY <1>1, <1>2, <1>3, <1>4, EntriesOf
<1>11. /\ p \in Nat /\ Len(Joins(EntryBytes(compiled, "bytecode"))[j]) = p + (1 + w)
       /\ p + (1 + w) <= Len(c) /\ \A k \in 1 .. (1 + w) : c[p + k] = e[k]
    BY <1>8, <1>9, <1>10 DEF EntryLies
<1>12. c \in Seq(Nat) BY <1>1, SectionIsBytes
<1>13. c[p + 1] = it.op /\ \A i \in 1 .. w : c[p + (1 + i)] = ByteOf(it.arg, i)
    <2>1. 1 \in 1 .. (1 + w) /\ \A i \in 1 .. w : 1 + i \in 1 .. (1 + w) OBVIOUS
    <2>2. QED BY ONLY <1>8, <1>11, <2>1
<1>14. SubSeq(c, p + 1, p + (1 + w)) = e
    <2>1. PICK x, b : x = SubSeq(c, p + 1, p + (1 + w)) /\ b = c OBVIOUS
    <2>2. PICK l \in Nat : l = Len(b) BY <1>12, <2>1
    <2>3. b \in Seq(Nat) /\ p \in Nat /\ p + (1 + w) <= l /\ \A k \in 1 .. (1 + w) : b[p + k] = e[k]
        BY <1>11, <1>12, <2>1, <2>2
    <2>4. x \in Seq(Nat) /\ Len(x) = 1 + w /\ \A k \in 1 .. Len(x) : x[k] = b[(p + 1) + k - 1]
        <3>0. p \in Nat /\ w \in Nat /\ b \in Seq(Nat) BY <2>3
        <3>1. PICK lo \in Nat, hi \in Nat : lo = p + 1 /\ hi = p + (1 + w) BY ONLY <3>0
        <3>2. /\ lo \in 1 .. (l + 1) /\ hi \in lo - 1 .. l /\ lo <= hi + 1 /\ hi - lo + 1 = 1 + w
            BY ONLY <2>3, <3>1
        <3>3. x = SubSeq(b, lo, hi) BY <2>1, <3>1
        <3>4. lo \in 1 .. (Len(b) + 1) /\ hi \in lo - 1 .. Len(b) BY <2>2, <3>2
        <3>5. x \in Seq(Nat) /\ Len(x) = hi - lo + 1 /\ \A k \in 1 .. Len(x) : x[k] = b[lo + k - 1]
            BY ONLY <3>0, <3>2, <3>3, <3>4, SubSeqProperties
        <3>6. QED BY <3>1, <3>2, <3>5
    <2>5. \A k \in 1 .. (1 + w) : (p + 1) + k - 1 = p + k BY <2>3
    <2>6. Len(x) = Len(e) /\ \A k \in 1 .. Len(x) : x[k] = e[k] BY ONLY <1>8, <2>3, <2>4, <2>5
    <2>7. x = e BY <1>8, <2>4, <2>6, SeqEqual
    <2>8. QED BY <2>1, <2>7
<1>15. QED BY <1>2, <1>4, <1>5, <1>6, <1>11, <1>12, <1>13, <1>14 DEF InstructionLies

\* One instruction, or the end.
LEMMA DisassembleInv ==
    ASSUME FlxInv, Disassemble
    PROVE  FlxInv'
<1>1. FlxInput /\ UNCHANGED input BY DEF FlxInv, Disassemble
<1>2. /\ meta' = meta /\ pool' = pool /\ code' = code
      /\ HeaderIn /\ MetaDone(meta') /\ PoolDone(pool') /\ PoolDone(pool) /\ SectionIn("bytecode")
      /\ code = SectionBytes(compiled, "bytecode") /\ code' = SectionBytes(compiled, "bytecode")
    BY DEF FlxInv, Stage, Disassemble
<1>3. WellCompiled(compiled) /\ "bytecode" \in Sections BY <1>1, FlxFields DEF Sections
<1>4. PICK n \in Nat : n = Len(compiled.code) /\ n = Len(EntryBytes(compiled, "bytecode"))
    BY <1>3, EntriesOf
<1>5. PICK j \in 0 .. n :
        /\ CodeOf(compiled, instructions, j)
        /\ flxPos = Len(Joins(EntryBytes(compiled, "bytecode"))[j])
    BY <1>4 DEF FlxInv, Stage, Disassemble
<1>6. Stage(flxPc', flxPos', left', flxRes', meta', pool', code', instructions')
    <2>1. CASE j = n
        <3>1. flxPos = Len(code) BY <1>2, <1>3, <1>4, <1>5, <2>1, SectionIsBytes
        <3>2. flxPc' = "done" /\ flxRes' = "ok" /\ instructions' = instructions
            BY <3>1 DEF Disassemble, FlxStop
        <3>3. CodeOf(compiled, instructions', Len(compiled.code)) BY <1>4, <1>5, <2>1, <3>2
        <3>4. Whole /\ Parsed(meta', pool', instructions') BY <1>1, <1>2, <3>3, Finished
        <3>5. QED BY <3>2, <3>4 DEF Stage
    <2>2. CASE j # n
        <3>1. PICK i \in 1 .. n : i = j + 1 /\ i - 1 = j BY <2>2
        <3>2. PICK it : it = compiled.code[i] OBVIOUS
        <3>3. /\ IsInstruction(it, i = n) /\ it.width \in 0 .. 2
              /\ flxPos \in Nat /\ code \in Seq(Nat)
              /\ Len(Joins(EntryBytes(compiled, "bytecode"))[i]) = flxPos + (1 + it.width)
              /\ flxPos + (1 + it.width) <= Len(code)
              /\ code[flxPos + 1] = it.op
              /\ \A k \in 1 .. it.width : code[flxPos + (1 + k)] = ByteOf(it.arg, k)
              /\ SubSeq(code, flxPos + 1, flxPos + (1 + it.width)) = InstructionBytes(it)
            <4>1. i \in 1 .. Len(compiled.code)
                  /\ flxPos = Len(Joins(EntryBytes(compiled, "bytecode"))[i - 1])
                BY <1>4, <1>5, <3>1
            <4>2. /\ IsInstruction(compiled.code[i], i = Len(compiled.code))
                  /\ InstructionLies(compiled.code[i], code, flxPos,
                                     Len(Joins(EntryBytes(compiled, "bytecode"))[i]))
                BY <1>1, <1>2, <4>1, InstructionRead
            <4>3. QED BY <1>4, <3>2, <4>2 DEF InstructionLies
        <3>4. PICK w \in 0 .. 2, l \in Nat : w = it.width /\ l = Len(code)
            <4>1. Len(code) \in Nat BY <3>3
            <4>2. QED BY <3>3, <4>1
        <3>5. PICK extent \in {1, 2, 3} : extent = InstructionSize(it.op) BY <3>3, SizeOf
        <3>6. flxPos < l /\ flxPos # l BY <3>3, <3>4
        <3>7. CASE it.kind = "truncated"
            <4>1. i = n /\ 1 + w < extent BY <3>3, <3>4, <3>5, <3>7, SizeOf
            <4>2. flxPos + (1 + w) = l
                <5>1. code = Joins(EntryBytes(compiled, "bytecode"))[n]
                    BY <1>2, <1>3, <1>4, SectionIsBytes
                <5>2. Len(Joins(EntryBytes(compiled, "bytecode"))[i]) = flxPos + (1 + it.width)
                    BY <3>3
                <5>3. QED BY ONLY <3>4, <4>1, <5>1, <5>2
            <4>3. flxPos + extent > l BY <3>3, <4>1, <4>2
            <4>4. FlxFail BY <3>3, <3>4, <3>5, <3>6, <4>3 DEF Disassemble
            <4>5. ~Whole
                <5>1. DOMAIN compiled.code = 1 .. n
                    <6>1. compiled.code \in Seq(Instructions) BY <1>3 DEF WellCompiled
                    <6>2. DOMAIN compiled.code = 1 .. Len(compiled.code) BY <6>1
                    <6>3. QED BY <1>4, <6>2
                <5>2. QED BY <3>2, <3>7, <5>1 DEF Whole, Decodable
            <4>6. QED BY <4>4, <4>5, FailStage
        <3>8. CASE it.kind # "truncated"
            <4>1. extent = 1 + w BY <3>3, <3>4, <3>5, <3>8, SizeOf
            <4>2. flxPos + extent <= l BY <3>3, <3>4, <4>1
            <4>3. PICK v : v = CASE extent = 3 -> code[flxPos + 2] + 256 * code[flxPos + 3]
                                 [] extent = 2 -> code[flxPos + 2]
                                 [] OTHER    -> 0
                OBVIOUS
            <4>4. /\ instructions' = Append(instructions,
                       [offset |-> flxPos, raw |-> SubSeq(code, flxPos + 1, flxPos + extent),
                        annotation |-> Annotation(it.op, v, flxPos)])
                  /\ flxPos' = flxPos + extent /\ flxPc' = "disassemble"
                <5>1. ~(flxPos = Len(code)) /\ ~(flxPos < Len(code) /\ flxPos + extent > Len(code))
                    BY <3>3, <3>4, <3>6, <4>2
                <5>2. QED BY <3>3, <3>5, <4>3, <5>1 DEF Disassemble
            <4>5. Annotation(it.op, v, flxPos) = Meaning(compiled, it, flxPos)
                <5>1. w = 2 => v = ByteOf(it.arg, 1) + 256 * ByteOf(it.arg, 2)
                    <6> SUFFICES ASSUME w = 2 PROVE v = ByteOf(it.arg, 1) + 256 * ByteOf(it.arg, 2)
                        OBVIOUS
                    <6>1. v = code[flxPos + 2] + 256 * code[flxPos + 3] BY <4>1, <4>3
                    <6>2. 1 \in 1 .. w /\ 2 \in 1 .. w /\ 1 + 1 = 2 /\ 1 + 2 = 3 OBVIOUS
                    <6>3. code[flxPos + (1 + 1)] = ByteOf(it.arg, 1)
                          /\ code[flxPos + (1 + 2)] = ByteOf(it.arg, 2)
                        BY <3>3, <3>4, <6>2
                    <6>4. QED BY <6>1, <6>2, <6>3
                <5>2. w = 1 => v = ByteOf(it.arg, 1)
                    <6> SUFFICES ASSUME w = 1 PROVE v = ByteOf(it.arg, 1) OBVIOUS
                    <6>1. v = code[flxPos + 2] BY <4>1, <4>3
                    <6>2. 1 \in 1 .. w /\ 1 + 1 = 2 OBVIOUS
                    <6>3. code[flxPos + (1 + 1)] = ByteOf(it.arg, 1) BY <3>3, <3>4, <6>2
                    <6>4. QED BY <6>1, <6>2, <6>3
                <5>3. PoolOf(compiled, pool, Len(compiled.pool)) BY <1>2 DEF PoolDone
                <5>4. Len(compiled.pool) \in Nat BY <1>3, EntriesOf
                <5>5. QED BY <3>3, <3>4, <3>8, <5>1, <5>2, <5>3, <5>4, AnnotationRight
            <4>6. instructions' = Append(instructions, Expected(compiled, i))
                <5>1. SubSeq(code, flxPos + 1, flxPos + extent) = InstructionBytes(it)
                    BY <3>3, <3>4, <4>1
                <5>2. Expected(compiled, i) =
                        [offset |-> flxPos, raw |-> InstructionBytes(it),
                         annotation |-> Meaning(compiled, it, flxPos)]
                    BY <1>5, <3>1, <3>2 DEF Expected
                <5>3. QED BY <4>4, <4>5, <5>1, <5>2
            <4>7. CodeOf(compiled, instructions', i)
                <5> DEFINE g == [k \in 1 .. i |-> Expected(compiled, k)]
                <5>1. /\ i \in Nat \ {0} /\ i \in 1 .. i /\ \A k \in 1 .. (i - 1) : k \in 1 .. i
                      /\ \A k \in 1 .. i : k \in 1 .. (i - 1) \/ k = i
                    OBVIOUS
                <5>2. instructions = [k \in 1 .. (i - 1) |-> g[k]]
                    <6>1. instructions = [k \in 1 .. (i - 1) |-> Expected(compiled, k)]
                        BY <1>5, <3>1 DEF CodeOf
                    <6>2. QED BY <5>1, <6>1
                <5>3. Expected(compiled, i) = g[i] BY <5>1
                <5>4. g = [k \in 1 .. i |-> g[k]] OBVIOUS
                <5>5. Append(instructions, Expected(compiled, i)) = g
                    <6> HIDE DEF g
                    <6>1. Append(instructions, Expected(compiled, i)) = [k \in 1 .. i |-> g[k]]
                        BY <5>1, <5>2, <5>3, OneMore
                    <6>2. QED BY <5>4, <6>1
                <5>6. \A k \in 1 .. i : compiled.code[k].kind # "truncated"
                    BY <1>5, <3>1, <3>2, <3>8, <5>1 DEF CodeOf
                <5>7. QED BY <4>6, <5>5, <5>6 DEF CodeOf
            <4>8. flxPos' = Len(Joins(EntryBytes(compiled, "bytecode"))[i])
                BY <3>3, <3>4, <4>1, <4>4
            <4>9. i \in 0 .. Len(compiled.code) BY <1>4
            <4>10. QED BY <1>2, <4>4, <4>7, <4>8, <4>9 DEF Stage
        <3>9. QED BY <3>7, <3>8
    <2>3. QED BY <2>1, <2>2
<1>7. QED BY <1>1, <1>6, Carry

\* Nothing has been read at the start.
LEMMA FlxInitInv == FlxInit => FlxInv
<1> SUFFICES ASSUME FlxInit PROVE FlxInv OBVIOUS
<1>1. FlxInput BY DEF FlxInit, FlxInput
<1>2. 1 .. 0 = {} OBVIOUS
<1>3. MetaOf(compiled, meta, 0)
    <2>1. DOMAIN meta = {} BY DEF FlxInit
    <2>2. QED BY <1>2, <2>1 DEF MetaOf
<1>4. PoolOf(compiled, pool, 0)
    <2>1. pool = <<>> BY DEF FlxInit
    <2>2. [i \in 1 .. 0 |-> Truth(compiled.pool[i])] = <<>> BY <1>2
    <2>3. QED BY <1>2, <2>1, <2>2 DEF PoolOf
<1>5. CodeOf(compiled, instructions, 0)
    <2>1. instructions = <<>> BY DEF FlxInit
    <2>2. [i \in 1 .. 0 |-> Expected(compiled, i)] = <<>> BY <1>2
    <2>3. QED BY <1>2, <2>1, <2>2 DEF CodeOf
<1>6. flxPc = "header" BY DEF FlxInit
<1>7. QED BY <1>1, <1>3, <1>4, <1>5, <1>6 DEF FlxInv, Stage

\* The reader is always where the entries read so far end, and holds what they say.
THEOREM FlxInvariance == FlxSpec => []FlxInv
<1>1. FlxInit => FlxInv BY FlxInitInv
<1>2. FlxInv /\ [FlxNext]_flxVars => FlxInv'
    <2> SUFFICES ASSUME FlxInv, [FlxNext]_flxVars PROVE FlxInv' OBVIOUS
    <2>1. CASE ReadFlxHeader BY <2>1, ReadFlxHeaderInv
    <2>2. CASE ReadMetadata BY <2>2, ReadMetadataInv
    <2>3. CASE DecodeConstant BY <2>3, DecodeConstantInv
    <2>4. CASE ReadBytecode BY <2>4, ReadBytecodeInv
    <2>5. CASE Disassemble BY <2>5, DisassembleInv
    <2>6. CASE UNCHANGED flxVars
        <3>1. FlxInput /\ UNCHANGED input BY <2>6 DEF FlxInv, flxVars, input
        <3>2. Stage(flxPc', flxPos', left', flxRes', meta', pool', code', instructions')
            BY <2>6 DEF FlxInv, flxVars
        <3>3. QED BY <3>1, <3>2, Carry
    <2>7. QED BY <2>1, <2>2, <2>3, <2>4, <2>5, <2>6 DEF FlxNext
<1>3. QED BY <1>1, <1>2, PTL DEF FlxSpec

\* Whatever a container holds and in whatever order, the parser returns exactly what was
\* written into it, or an error for a file that is cut short or cannot be decoded.
THEOREM FlxParsed == FlxSpec => []ParsesWhatWasWritten
<1>1. FlxInv => ParsesWhatWasWritten
    BY DEF FlxInv, Stage, Whole, Parsed, ParsesWhatWasWritten
<1>2. QED BY <1>1, FlxInvariance, PTL
=============================================================================
