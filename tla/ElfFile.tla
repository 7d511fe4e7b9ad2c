------------------------------ MODULE ElfFile ------------------------------
(***************************************************************************)
(* binary/elf.go, elf_segments.go, elf_symbols.go: the parser seeks to the *)
(* program headers, the section headers, the section names and each symbol *)
(* table with its string table.  One step reads one of them.  The fields   *)
(* within an entry, and the byte order they are in, are left out: a table  *)
(* is a sequence of records, EntrySize bytes each, at an offset.  String   *)
(* tables are sequences of characters, 0 is NUL.                           *)
(***************************************************************************)
EXTENDS Integers, Sequences

CONSTANTS LinkedFiles, ElfCuts  \* what the files contain, bytes missing at the end

Class32 == 1
Class64 == 2
SYMTAB == 2
STRTAB == 3
DYNSYM == 11
UNDEF == 0
ABS == 65521
COMMON == 65522
HeaderBytes == 64  \* what is read, for both classes
PhdrSize(class) == IF class = Class64 THEN 56 ELSE 32
ShdrSize(class) == IF class = Class64 THEN 64 ELSE 40
SymSize(class)  == IF class = Class64 THEN 24 ELSE 16

-----------------------------------------------------------------------------
(* Reference: the file a linker writes for a description with fields magic, class,    *)
(* data, segs, secs (name, type, link, body), shstr and headersFirst.                 *)

EhdrSize(class) == IF class = Class64 THEN 64 ELSE 52
\* The name and its NUL lie at offset o of the table, perhaps as the end of another name.
LiesAt(table, name, o) ==
  o + Len(name) + 1 <= Len(table) /\ SubSeq(table, o + 1, o + Len(name) + 1) = Append(name, 0)
NameOff(table, name) == CHOOSE o \in 0..Len(table) : LiesAt(table, name, o)
IsSymbolTable(sec) == sec.type \in {SYMTAB, DYNSYM}
BodySize(d, i) == Len(d.secs[i].body) * (IF IsSymbolTable(d.secs[i]) THEN SymSize(d.class) ELSE 1)
PhdrEnd(d) == EhdrSize(d.class) + Len(d.segs) * PhdrSize(d.class)
ShdrsSize(d) == Len(d.secs) * ShdrSize(d.class)
\* Where the bodies of sections 1..i end; they lie one after the other.
BodyEnd(d) ==
  LET end[i \in 0..Len(d.secs)] ==
        IF i = 0 THEN PhdrEnd(d) + (IF d.headersFirst THEN ShdrsSize(d) ELSE 0)
        ELSE end[i - 1] + BodySize(d, i)
  IN end
\* The offset of a name in the string table with index t (0, 1, ...), if there is one.
Named(d, t, name) == IF t = 0 THEN 0 ELSE NameOff(d.secs[t + 1].body, name)
SectionHeader(d, i) ==
  [type |-> d.secs[i].type, link |-> d.secs[i].link, offset |-> BodyEnd(d)[i - 1],
   size |-> BodySize(d, i), nameOff |-> Named(d, d.shstr, d.secs[i].name)]
SymbolEntry(d, i, s) ==
  [nameOff |-> Named(d, d.secs[i].link, s.name), info |-> 16 * s.bind + s.type,
   other |-> 4 + s.vis, shndx |-> s.shndx]
LinkedBody(d, i) ==
  IF IsSymbolTable(d.secs[i])
  THEN [n \in DOMAIN d.secs[i].body |-> SymbolEntry(d, i, d.secs[i].body[n])]
  ELSE d.secs[i].body
ElfBytes(d, missing) ==
  LET end == BodyEnd(d)[Len(d.secs)]
  IN [len |-> (IF d.headersFirst THEN end ELSE end + ShdrsSize(d)) - missing,
      magic |-> d.magic, class |-> d.class, data |-> d.data,
      phOff |-> EhdrSize(d.class), phNum |-> Len(d.segs), segs |-> d.segs,
      shOff |-> IF d.headersFirst THEN PhdrEnd(d) ELSE end,
      shNum |-> Len(d.secs), shStrIdx |-> d.shstr,
      secs |-> [i \in DOMAIN d.secs |-> SectionHeader(d, i)],
      bodies |-> [i \in DOMAIN d.secs |-> LinkedBody(d, i)]]

\* A string table with index t that has all the names, unless t is 0.
HasNames(d, t, names) ==
  t # 0 => /\ t < Len(d.secs) /\ d.secs[t + 1].type = STRTAB
           /\ \A name \in names : \E o \in 0..Len(d.secs[t + 1].body) :
                LiesAt(d.secs[t + 1].body, name, o)
Char == Nat \ {0}
Symbol == [name : Seq(Char), bind : 0..15, type : 0..15, vis : 0..3, shndx : Nat]
Section(Entry) == [name : Seq(Char), type : Nat, link : Nat, body : Seq(Entry)]
\* What a linker is given: names without NUL, and the string tables that they are in.
WellLinked(d) ==
  /\ d.segs \in Seq(STRING) /\ Len(d.secs) \in Nat /\ DOMAIN d.secs = 1..Len(d.secs)
  /\ \A i \in DOMAIN d.secs :
       d.secs[i] \in IF IsSymbolTable(d.secs[i]) THEN Section(Symbol) ELSE Section(Nat)
  /\ \A i \in DOMAIN d.secs : IsSymbolTable(d.secs[i]) =>
       HasNames(d, d.secs[i].link, {d.secs[i].body[n].name : n \in DOMAIN d.secs[i].body})
  /\ d.shstr \in Nat /\ HasNames(d, d.shstr, {d.secs[i].name : i \in DOMAIN d.secs})
ASSUME ElfAssumption == ElfCuts \subseteq Nat /\ \A d \in LinkedFiles : WellLinked(d)

-----------------------------------------------------------------------------

VARIABLES linked, elf, elfPc,
          secIdx,                   \* section whose type is looked at
          segments, sections, symbols, dynSymbols, elfRes
elfVars == <<linked, elf, elfPc, secIdx, segments, sections, symbols, dynSymbols, elfRes>>

ElfInit ==
  /\ linked \in LinkedFiles
  /\ \E missing \in ElfCuts : elf = ElfBytes(linked, missing) /\ elf.len >= 0
  /\ elfPc = "header" /\ secIdx = 0
  /\ segments = <<>> /\ sections = <<>> /\ symbols = <<>> /\ dynSymbols = <<>> /\ elfRes = "none"

\* io.ReadFull of n bytes at offset o succeeds.
Fits(o, n) == o + n <= elf.len
ElfFail == elfPc' = "done" /\ elfRes' = "error"

\* The characters from offset o to the next NUL or the end of the table.
ExtractNullString(table, o) ==
  IF o >= Len(table) THEN <<>>
  ELSE LET end == CHOOSE e \in (o + 1)..(Len(table) + 1) :
                    /\ e = Len(table) + 1 \/ table[e] = 0
                    /\ \A k \in (o + 1)..(e - 1) : table[k] # 0
       IN SubSeq(table, o + 1, end - 1)

\* The body of section s (0, 1, ...) as io.ReadFull leaves it in a fresh buffer: what the
\* file has of it, then zeros.
ReadBody(s) ==
  [k \in 1..sections[s + 1].size |->
     IF Fits(sections[s + 1].offset, k) THEN elf.bodies[s + 1][k] ELSE 0]

ReadElfHeader ==
  /\ elfPc = "header"
  /\ IF elf.len >= HeaderBytes /\ elf.magic /\ elf.class \in {Class32, Class64} /\ elf.data \in {1, 2}
     THEN elfPc' = "segments" /\ UNCHANGED elfRes ELSE ElfFail
  /\ UNCHANGED <<linked, elf, secIdx, segments, sections, symbols, dynSymbols>>

ParseSegments ==
  /\ elfPc = "segments"
  /\ IF elf.phOff # 0 /\ elf.phNum # 0
     THEN IF Fits(elf.phOff, elf.phNum * PhdrSize(elf.class))
          THEN segments' = elf.segs /\ elfPc' = "sections" /\ UNCHANGED elfRes
          ELSE ElfFail /\ UNCHANGED segments
     ELSE elfPc' = "sections" /\ UNCHANGED <<segments, elfRes>>
  /\ UNCHANGED <<linked, elf, secIdx, sections, symbols, dynSymbols>>

\* parseSections keeps these fields of an entry; the name is looked up later.
RawSection(h) ==
  [name |-> <<>>, type |-> h.type, link |-> h.link, offset |-> h.offset, size |-> h.size, nameOff |-> h.nameOff]

ParseSections ==
  /\ elfPc = "sections"
  /\ IF elf.shOff # 0 /\ elf.shNum # 0
     THEN IF Fits(elf.shOff, elf.shNum * ShdrSize(elf.class))
          THEN /\ sections' = [k \in DOMAIN elf.secs |-> RawSection(elf.secs[k])]
               /\ elfPc' = "names" /\ UNCHANGED elfRes
          ELSE ElfFail /\ UNCHANGED sections
     ELSE elfPc' = "done" /\ elfRes' = "ok" /\ UNCHANGED sections
  /\ UNCHANGED <<linked, elf, secIdx, segments, symbols, dynSymbols>>

\* Section names, when the table is there in full; otherwise they stay empty.
ResolveNames ==
  LET str == sections[elf.shStrIdx + 1]
  IN /\ elfPc = "names"
     /\ sections' =
          IF /\ elf.shStrIdx # 0 /\ elf.shStrIdx < Len(sections)
             /\ str.size > 0 /\ str.type = STRTAB /\ Fits(str.offset, str.size)
          THEN [k \in DOMAIN sections |->
                  [sections[k] EXCEPT !.name = ExtractNullString(ReadBody(elf.shStrIdx), sections[k].nameOff)]]
          ELSE sections
     /\ elfPc' = "symbols" /\ secIdx' = 1
     /\ UNCHANGED <<linked, elf, segments, symbols, dynSymbols, elfRes>>

ResolveSectionIndex(shndx) ==
  CASE shndx = UNDEF  -> "UNDEF"
    [] shndx = ABS    -> "ABS"
    [] shndx = COMMON -> "COMMON"
    [] shndx \notin {UNDEF, ABS, COMMON} /\ shndx < Len(sections) ->
         IF sections[shndx + 1].name # <<>> THEN sections[shndx + 1].name ELSE shndx
    [] OTHER -> shndx

\* Mutant: the names of symbols are taken from the table of the section names.
StringTableOfSections(sec) == ReadBody(elf.shStrIdx)

\* The string table a symbol table is linked to, or none.  A short read is not noticed.
StringTable(sec) ==
  IF /\ sec.link # 0 /\ sec.link < Len(sections)
     /\ sections[sec.link + 1].type = STRTAB /\ sections[sec.link + 1].size > 0
  THEN ReadBody(sec.link) ELSE <<>>

\* parseSymbolTable of the section with index k: [err, syms].
ParseSymbolTable(k) ==
  LET sec   == sections[k]
      count == sec.size \div SymSize(elf.class)
      table == StringTable(sec)
      symbol(s) == [name    |-> ExtractNullString(table, s.nameOff),
                    section |-> ResolveSectionIndex(s.shndx),
                    bind    |-> s.info \div 16, type |-> s.info % 16, vis |-> s.other % 4]
  IN CASE sec.size = 0 \/ sec.offset = 0 -> [err |-> FALSE, syms |-> <<>>]
       [] sec.size > 0 /\ sec.offset # 0 /\ ~Fits(sec.offset, count * SymSize(elf.class)) ->
            [err |-> TRUE, syms |-> <<>>]
       [] OTHER -> [err |-> FALSE, syms |-> [n \in 1..count |-> symbol(elf.bodies[k][n])]]

\* The loop over the sections: the last table of each kind stays, an error is passed over.
ParseSymbols ==
  LET t == ParseSymbolTable(secIdx)
  IN /\ elfPc = "symbols" /\ secIdx <= Len(sections) /\ secIdx' = secIdx + 1
     /\ symbols' = IF sections[secIdx].type = SYMTAB /\ ~t.err THEN t.syms ELSE symbols
     /\ dynSymbols' = IF sections[secIdx].type = DYNSYM /\ ~t.err THEN t.syms ELSE dynSymbols
     /\ UNCHANGED <<linked, elf, elfPc, segments, sections, elfRes>>

Finish ==
  /\ elfPc = "symbols" /\ secIdx > Len(sections) /\ elfPc' = "done" /\ elfRes' = "ok"
  /\ UNCHANGED <<linked, elf, secIdx, segments, sections, symbols, dynSymbols>>

ElfNext == ReadElfHeader \/ ParseSegments \/ ParseSections \/ ResolveNames \/ ParseSymbols \/ Finish
ElfSpec == ElfInit /\ [][ElfNext]_elfVars

-----------------------------------------------------------------------------
(* Properties *)

\* Section s (0, 1, ...) of the description lies in the file in full.
InFull(s) == Fits(elf.secs[s + 1].offset, elf.secs[s + 1].size)
Tables(d, type) == {k \in DOMAIN d.secs : d.secs[k].type = type}
SectionOf(shndx) ==
  CASE shndx = UNDEF -> "UNDEF" [] shndx = ABS -> "ABS" [] shndx = COMMON -> "COMMON"
    [] shndx \in (1..(Len(linked.secs) - 1)) \ {ABS, COMMON} ->
         IF linked.shstr # 0 /\ InFull(linked.shstr) /\ linked.secs[shndx + 1].name # <<>>
         THEN linked.secs[shndx + 1].name ELSE shndx
    [] OTHER -> shndx
Written(k) ==
  [n \in DOMAIN linked.secs[k].body |->
     LET s == linked.secs[k].body[n]
     IN [name |-> IF linked.secs[k].link = 0 THEN <<>> ELSE s.name, section |-> SectionOf(s.shndx),
         bind |-> s.bind, type |-> s.type, vis |-> s.vis]]
Reported(k) == IF linked.secs[k].type = SYMTAB THEN symbols ELSE dynSymbols

\* Whatever the class, the order of the tables and the length of the file: the parser
\* succeeds iff header, segment and section tables are there; segments and sections
\* are those written; a symbol table that is there with its string table is reported
\* with the names of its own string table and the names of the sections; one that is
\* not there is left out, never reported in part.
ReportsWhatWasLinked ==
  elfPc = "done" =>
    /\ elfRes = "ok" <=>
         /\ linked.magic /\ linked.class \in {Class32, Class64} /\ linked.data \in {1, 2}
         /\ elf.len >= HeaderBytes
         /\ elf.segs # <<>> => Fits(elf.phOff, Len(elf.segs) * PhdrSize(linked.class))
         /\ elf.secs # <<>> => Fits(elf.shOff, Len(elf.secs) * ShdrSize(linked.class))
    /\ elfRes = "ok" =>
         /\ segments = linked.segs /\ Len(sections) = Len(linked.secs)
         /\ \A k \in DOMAIN sections :
              sections[k].name = IF linked.shstr # 0 /\ InFull(linked.shstr) THEN linked.secs[k].name ELSE <<>>
         /\ \A type \in {SYMTAB, DYNSYM} : \A k \in Tables(linked, type) :
              Tables(linked, type) = {k} =>
                /\ InFull(k - 1) /\ (linked.secs[k].link # 0 => InFull(linked.secs[k].link)) =>
                      Reported(k) = Written(k)
                /\ ~InFull(k - 1) => Reported(k) = <<>>
=============================================================================
