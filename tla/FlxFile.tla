------------------------------ MODULE FlxFile ------------------------------
(***************************************************************************)
(* binary/flx: the container (container.go), its constant pool (pool.go)   *)
(* and the disassembler (disasm.go).  The parser seeks to each section in  *)
(* turn and reads it entry by entry; one step reads one entry.  The input  *)
(* is a description d, written out as bytes in the layout of the headers'  *)
(* comments and possibly cut short.  The fields of the header are a record.*)
(***************************************************************************)
EXTENDS Integers, Sequences

CONSTANTS Containers,   \* what the files contain, see below
          FlxCuts,      \* numbers of bytes missing at the end
          HeaderSize    \* 36, the sum of the sizes of the fields

Sections == {"metadata", "pool", "bytecode"}

\* OpcodeTable by the kind of operand; 16-bit operands that are neither an index nor
\* a jump (OperandU16) are decoded but no opcode has one.
PoolOps == 1..3
JumpOps == 48..51
ArgcOps == {64}
PlainOps == {0} \cup 4..6 \cup 16..25 \cup 32..37 \cup 65..67 \cup {254, 255}
InstructionSize(op) == IF op \in PoolOps \cup JumpOps THEN 3 ELSE IF op \in ArgcOps THEN 2 ELSE 1

TagNull == 0
TagInt == 1
TagFloat == 2
TagString == 3
TagSymbol == 4
TagBool == 5
IsString(c) == c.tag \in {TagString, TagSymbol}

-----------------------------------------------------------------------------
(* Reference: the bytes a compiler writes for a description [magic, order of the    *)
(* sections, meta, pool, code].                                                     *)

Weight == <<1, 256, 65536, 16777216>>
LE(n, width) == [i \in 1..width |-> (n \div Weight[i]) % 256]
\* What the first 0, 1, ... of a sequence of sequences give when joined.
Joins(ss) == LET join[i \in 0..Len(ss)] == IF i = 0 THEN <<>> ELSE join[i - 1] \o ss[i] IN join
Joined(ss) == Joins(ss)[Len(ss)]
PairBytes(m) == LE(Len(m.key), 2) \o m.key \o LE(Len(m.val), 2) \o m.val
ConstantBytes(c) == <<c.tag>> \o (IF IsString(c) THEN LE(Len(c.val), 4) ELSE <<>>) \o c.val
InstructionBytes(it) == <<it.op>> \o LE(it.arg, it.width)
EntryBytes(d, s) ==
  CASE s = "metadata" -> [i \in DOMAIN d.meta |-> PairBytes(d.meta[i])]
    [] s = "pool"     -> [i \in DOMAIN d.pool |-> ConstantBytes(d.pool[i])]
    [] s = "bytecode" -> [i \in DOMAIN d.code |-> InstructionBytes(d.code[i])]
SectionBytes(d, s) == Joined(EntryBytes(d, s))
\* The sections in their order: what the first 0, 1, ... of them give.
Body(d) == Joins([k \in DOMAIN d.order |-> SectionBytes(d, d.order[k])])
Place(d, s) == CHOOSE k \in DOMAIN d.order : d.order[k] = s
End(d) == HeaderSize + Len(Body(d)[Len(d.order)])
FlxBytes(d, missing) ==
  [len |-> End(d) - missing, magic |-> d.magic, body |-> Body(d)[Len(d.order)],
   off |-> [s \in Sections |-> HeaderSize + Len(Body(d)[Place(d, s) - 1])],
   count |-> [s \in Sections |-> CASE s = "metadata" -> Len(d.meta) [] s = "pool" -> Len(d.pool)
                                   [] s = "bytecode" -> Len(SectionBytes(d, s))]]

Pairs == [key : Seq(Nat), val : Seq(Nat)]
Constants == [tag : Nat, val : Seq(Nat)]
Instructions == [op : Nat, width : 0..2, arg : Int, kind : STRING]
Fits32(n) == n \div 16777216 < 256
IsConstant(c) ==
  /\ c \in Constants
  /\ IsString(c) => Fits32(Len(c.val))
  /\ c.tag \in {TagInt, TagFloat} => Len(c.val) = 8
  /\ c.tag = TagBool => Len(c.val) = 1
  /\ c.tag = TagNull => c.val = <<>>
IsInstruction(it, isLast) ==
  /\ it \in Instructions
  /\ \/ it.kind = "constant" /\ it.op \in PoolOps /\ it.width = 2 /\ 0 <= it.arg /\ it.arg < 65536
     \/ it.kind = "jump" /\ it.op \in JumpOps /\ it.width = 2 /\ -32768 <= it.arg /\ it.arg < 32768
     \/ it.kind = "argc" /\ it.op \in ArgcOps /\ it.width = 1 /\ 0 <= it.arg /\ it.arg < 256
     \/ it.kind = "none" /\ it.op \in PlainOps /\ it.width = 0
     \/ it.kind = "unknown" /\ it.op \notin PoolOps \cup JumpOps \cup ArgcOps \cup PlainOps /\ it.width = 0
     \/ it.kind = "truncated" /\ isLast /\ 1 + it.width < InstructionSize(it.op)
\* What a compiler is given: lengths that fit their fields, operands as the opcodes have them.
\* The last instruction may be cut short, tags may be unknown.
WellCompiled(d) ==
  /\ DOMAIN d.order = 1..3 /\ Len(d.order) = 3 /\ {d.order[k] : k \in 1..3} = Sections
  /\ d.meta \in Seq(Pairs) /\ d.pool \in Seq(Constants) /\ d.code \in Seq(Instructions)
  /\ \A i \in DOMAIN d.meta : Len(d.meta[i].key) < 65536 /\ Len(d.meta[i].val) < 65536
  /\ \A i \in DOMAIN d.pool : IsConstant(d.pool[i])
  /\ \A i \in DOMAIN d.code : IsInstruction(d.code[i], i = Len(d.code))
ASSUME FlxAssumption ==
  HeaderSize \in Nat \ {0} /\ FlxCuts \subseteq Nat /\ \A d \in Containers : WellCompiled(d)

-----------------------------------------------------------------------------

VARIABLES compiled, flx,         \* the input
          flxPc, flxPos, left,   \* section being read, position of the reader, entries to come
          meta, pool, code, instructions, flxRes
flxVars == <<compiled, flx, flxPc, flxPos, left, meta, pool, code, instructions, flxRes>>
input == <<compiled, flx>>

FlxInit ==
  /\ compiled \in Containers
  /\ \E missing \in FlxCuts : flx = FlxBytes(compiled, missing)
  /\ flxPc = "header" /\ flxPos = 0 /\ left = 0
  /\ meta = <<>> /\ pool = <<>> /\ code = <<>> /\ instructions = <<>> /\ flxRes = "none"

\* io.ReadFull of n bytes at p succeeds; the bytes, when it does; little-endian integers.
Has(p, n) == p + n <= flx.len
Bytes(p, n) == SubSeq(flx.body, p - HeaderSize + 1, p - HeaderSize + n)
At(p) == flx.body[p - HeaderSize + 1]
U16(p) == At(p) + 256 * At(p + 1)
U32(p) == U16(p) + 65536 * U16(p + 2)

FlxStop(result) == flxPc' = "done" /\ flxRes' = result /\ UNCHANGED <<flxPos, left>>
FlxFail == FlxStop("error")

\* Go on with the next section that is present, if any.
Present(s) == flx.off[s] > 0 /\ flx.count[s] > 0
Seek(s) == flxPc' = s /\ flxPos' = flx.off[s] /\ left' = flx.count[s] /\ UNCHANGED flxRes
EnterBytecode == IF Present("bytecode") THEN Seek("bytecode") ELSE FlxStop("ok")
EnterPool == IF Present("pool") THEN Seek("pool") ELSE EnterBytecode
EnterMetadata == IF Present("metadata") THEN Seek("metadata") ELSE EnterPool
\* An entry ending at p has been read, and there is another one.
Advance(p) == flxPos' = p /\ left' = left - 1 /\ UNCHANGED <<flxPc, flxRes>>

ReadFlxHeader ==
  /\ flxPc = "header"
  /\ IF flx.len < HeaderSize \/ ~flx.magic THEN FlxFail ELSE EnterMetadata
  /\ UNCHANGED <<input, meta, pool, code, instructions>>

\* One key and one value; a key met again gets the later value.
ReadMetadata ==
  LET key   == Bytes(flxPos + 2, U16(flxPos))
      v     == flxPos + 2 + U16(flxPos)
      value == Bytes(v + 2, U16(v))
  IN /\ flxPc = "metadata"
     /\ IF Has(flxPos, 2) /\ Has(flxPos + 2, U16(flxPos)) /\ Has(v, 2) /\ Has(v + 2, U16(v))
        THEN /\ meta' = [k \in DOMAIN meta \cup {key} |-> IF k = key THEN value ELSE meta[k]]
             /\ IF left = 1 THEN EnterPool ELSE Advance(v + 2 + U16(v))
        ELSE FlxFail /\ UNCHANGED meta
     /\ UNCHANGED <<input, pool, code, instructions>>

\* DecodePool: one constant; a Boolean is normalised.
DecodeConstant ==
  LET tag   == At(flxPos)
      start == IF tag \in {TagString, TagSymbol} THEN flxPos + 5 ELSE flxPos + 1
      size  == CASE tag \in {TagInt, TagFloat} -> 8
                 [] tag = TagBool -> 1
                 [] tag \in {TagString, TagSymbol} -> U32(flxPos + 1)
                 [] OTHER -> 0
      value == IF tag = TagBool THEN <<IF At(start) # 0 THEN 1 ELSE 0>> ELSE Bytes(start, size)
  IN /\ flxPc = "pool"
     /\ IF Has(flxPos, 1) /\ tag \in TagNull..TagBool /\ Has(flxPos, start - flxPos) /\ Has(start, size)
        THEN /\ pool' = Append(pool, [tag |-> tag, val |-> value])
             /\ IF left = 1 THEN EnterBytecode ELSE Advance(start + size)
        ELSE FlxFail /\ UNCHANGED pool
     /\ UNCHANGED <<input, meta, code, instructions>>

ReadBytecode ==
  /\ flxPc = "bytecode"
  /\ IF Has(flxPos, left)
     THEN /\ code' = Bytes(flxPos, left)
          /\ flxPc' = "disassemble" /\ flxPos' = 0 /\ left' = 0 /\ UNCHANGED flxRes
     ELSE FlxFail /\ UNCHANGED code
  /\ UNCHANGED <<input, meta, pool, instructions>>

-----------------------------------------------------------------------------
(* disassembler *)

\* Mutant: the displacement is not sign-extended.
Int16Unsigned(v) == v

\* Conversion of 16 bits to a signed integer.
Int16(v) == IF v >= 32768 THEN v - 65536 ELSE v

\* What pool.Format shows of an index: the constant or a note that there is none.
Format(idx) == IF idx < Len(pool) THEN <<"constant", pool[idx + 1]>> ELSE <<"invalid", idx>>

\* The annotation of the instruction with opcode op and operand v at offset p.
Annotation(op, v, p) ==
  CASE op \in PoolOps  -> Format(v)
    [] op \in JumpOps  -> <<"target", p + 3 + Int16(v)>>
    [] op \in ArgcOps  -> <<"argc", v>>
    [] op \in PlainOps -> <<"none">>
    [] OTHER           -> <<"unknown">>

\* One instruction, or the end of the bytecode.
Disassemble ==
  LET op   == code[flxPos + 1]
      size == InstructionSize(op)
      v    == CASE size = 3 -> code[flxPos + 2] + 256 * code[flxPos + 3]
                [] size = 2 -> code[flxPos + 2]
                [] OTHER    -> 0
  IN /\ flxPc = "disassemble"
     /\ CASE flxPos = Len(code) -> FlxStop("ok") /\ UNCHANGED instructions
          [] flxPos < Len(code) /\ flxPos + size > Len(code) -> FlxFail /\ UNCHANGED instructions
          [] OTHER ->
               /\ instructions' = Append(instructions,
                    [offset |-> flxPos, raw |-> SubSeq(code, flxPos + 1, flxPos + size),
                     annotation |-> Annotation(op, v, flxPos)])
               /\ flxPos' = flxPos + size /\ UNCHANGED <<flxPc, left, flxRes>>
     /\ UNCHANGED <<input, meta, pool, code>>

FlxNext == ReadFlxHeader \/ ReadMetadata \/ DecodeConstant \/ ReadBytecode \/ Disassemble
FlxSpec == FlxInit /\ [][FlxNext]_flxVars

-----------------------------------------------------------------------------
(* Properties *)

Decodable(d) ==
  /\ d.magic
  /\ \A i \in DOMAIN d.pool : d.pool[i].tag \in TagNull..TagBool
  /\ \A i \in DOMAIN d.code : d.code[i].kind # "truncated"
LastWith(d, key) == CHOOSE i \in DOMAIN d.meta :
  d.meta[i].key = key /\ \A j \in DOMAIN d.meta : j > i => d.meta[j].key # key
Truth(c) == IF c.tag = TagBool THEN [c EXCEPT !.val = <<IF @ = <<0>> THEN 0 ELSE 1>>] ELSE c
\* What the operand of instruction it of d at offset p stands for.
Meaning(d, it, p) ==
  CASE it.kind = "jump" -> <<"target", p + 3 + it.arg>>
    [] it.kind = "constant" /\ it.arg < Len(d.pool) -> <<"constant", Truth(d.pool[it.arg + 1])>>
    [] it.kind = "constant" /\ it.arg >= Len(d.pool) -> <<"invalid", it.arg>>
    [] it.kind = "argc" -> <<"argc", it.arg>>
    [] OTHER -> <<it.kind>>
Expected(d, i) ==
  LET before == Len(Joins(EntryBytes(d, "bytecode"))[i - 1])
  IN [offset |-> before, raw |-> InstructionBytes(d.code[i]),
      annotation |-> Meaning(d, d.code[i], before)]

\* In whatever order the sections lie, the parser returns exactly the metadata, the
\* constants and the instructions that were written: the instructions tile the
\* bytecode, jumps forwards and backwards point where they were meant to, constants
\* resolve.  A file that misses bytes, has an unknown tag or ends within an
\* instruction gives an error, never a part.
ParsesWhatWasWritten ==
  flxPc = "done" =>
    /\ flxRes = "ok" <=> Decodable(compiled) /\ flx.len >= End(compiled)
    /\ flxRes = "ok" =>
         /\ DOMAIN meta = {compiled.meta[i].key : i \in DOMAIN compiled.meta}
         /\ \A key \in DOMAIN meta : meta[key] = compiled.meta[LastWith(compiled, key)].val
         /\ pool = [i \in DOMAIN compiled.pool |-> Truth(compiled.pool[i])]
         /\ instructions = [i \in DOMAIN compiled.code |-> Expected(compiled, i)]
=============================================================================
