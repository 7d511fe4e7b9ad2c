------------------------------ MODULE MCFiles ------------------------------
\* The components that write or read files: the PCAP and JSONL files, the run of a
\* command that records, and the parsers of ELF, FLX and mapped files.  They do not
\* share state: each behaviour of this module is one of PcapFile, of JsonlFile, of
\* ToolRun, of ElfFile, of FlxFile or of MappedFile.
EXTENDS Integers, Sequences, PcapFile, JsonlFile, ToolRun, MappedFile, ElfFile, FlxFile

\* Packets of different sizes, one empty, one serial frame, one without a timestamp.
FiveEvents ==
  << [network |-> TRUE, size |-> 2, sec |-> 5, ns |-> 25],
     [network |-> FALSE, size |-> 1, sec |-> 5, ns |-> 30],
     [network |-> TRUE, size |-> 1, sec |-> 0, ns |-> 0],
     [network |-> TRUE, size |-> 0, sec |-> 6, ns |-> 0],
     [network |-> TRUE, size |-> 3, sec |-> 6, ns |-> 19] >>
AllVariants == {"le_us", "le_ns", "be_us", "be_ns"}

\* Two workers; lines that fit the buffer and lines that do not.
TwoWorkers == {"w1", "w2"}
TwoLines == [w1 |-> <<1, 4>>, w2 |-> <<2, 1>>]

AllCommands == {"gocore live", "net-probe live", "gocore capture", "net-probe capture"}

\* ELF files of both classes: names that share their ends, two symbol tables with
\* string tables of their own, one of each missing.
SymTab == 2
StrTab == 3
DynSym == 11
a == 97
b == 98
Sec(name, type, link, body) == [name |-> name, type |-> type, link |-> link, body |-> body]
Sym(name, bind, type, vis, shndx) ==
  [name |-> name, bind |-> bind, type |-> type, vis |-> vis, shndx |-> shndx]

ShNames == <<0, a, b, 0, b, b, 0>>
Strings == <<0, b, a, b, a, 0, a, a, 0>>
Null == Sec(<<>>, 0, 0, <<>>)
Code == Sec(<<a, b>>, 1, 0, <<1, 2, 3>>)
Locals == << Sym(<<>>, 0, 0, 0, 0), Sym(<<b, a, b, a>>, 1, 2, 0, 1), Sym(<<a, a>>, 2, 1, 2, 65521),
             Sym(<<a>>, 0, 10, 3, 65522), Sym(<<b, a>>, 10, 3, 1, 40) >>
Exports == << Sym(<<a, b, a>>, 1, 2, 0, 1), Sym(<<>>, 0, 3, 0, 2) >>

SectionTables(l1, l2) == { <<>>, <<Null>>,
  << Null, Code, Sec(<<b>>, SymTab, l1, Locals), Sec(<<>>, StrTab, 0, Strings),
     Sec(<<b, b>>, StrTab, 0, ShNames), Sec(<<b>>, DynSym, l2, Exports) >>,
  << Null, Code, Sec(<<b>>, DynSym, l2, Exports), Sec(<<b, b>>, StrTab, 0, Strings),
     Sec(<<>>, StrTab, 0, ShNames), Sec(<<b>>, SymTab, l1, <<>>) >> }

SomeLinked == [magic : BOOLEAN, class : {1, 2, 3}, data : {0, 1, 2}, headersFirst : BOOLEAN,
           segs : {<<>>, <<"load", "note">>}, secs : {<<>>, <<Null>>}, shstr : {0}]
  \cup [magic : {TRUE}, class : {1, 2}, data : {1, 2}, headersFirst : BOOLEAN,
        segs : {<<>>, <<"load", "note">>},
        secs : UNION {SectionTables(l1, l2) : l1, l2 \in {0, 3}} \ {<<>>, <<Null>>}, shstr : {0, 4}]
ManyCuts == {n \in 0..200 : n <= 32 \/ n % 7 = 0}

\* FLX files: every order of the sections, every kind of constant and operand,
\* boundaries of the pool and of 16 bits.
Op(op, width, arg, kind) == [op |-> op, width |-> width, arg |-> arg, kind |-> kind]
Codes == { <<>>,
  <<Op(0, 0, 0, "none"), Op(1, 2, 0, "constant"), Op(48, 2, 4, "jump"), Op(255, 0, 0, "none")>>,
  <<Op(2, 2, 4, "constant"), Op(51, 2, -6, "jump"), Op(64, 1, 200, "argc"), Op(7, 0, 0, "unknown")>>,
  <<Op(3, 2, 5, "constant"), Op(50, 2, 32767, "jump"), Op(49, 2, -32768, "jump"), Op(37, 0, 0, "none")>>,
  <<Op(65, 0, 0, "none"), Op(48, 1, 1, "truncated")>>,
  <<Op(64, 0, 0, "truncated")>> }
Const(tag, val) == [tag |-> tag, val |-> val]
Pools == { <<>>,
  <<Const(0, <<>>), Const(5, <<7>>), Const(3, <<>>), Const(4, <<0, 1>>), Const(1, <<1, 2, 3, 4, 5, 6, 7, 8>>)>>,
  <<Const(5, <<0>>), Const(6, <<>>)>> }
Pair(key, val) == [key |-> key, val |-> val]
Metas == { <<>>, <<Pair(<<1>>, <<2, 3>>)>>, <<Pair(<<1>>, <<2>>), Pair(<<>>, <<>>), Pair(<<1>>, <<4>>)>> }
Orders == {o \in [1..3 -> {"metadata", "pool", "bytecode"}] : \A i, j \in 1..3 : i # j => o[i] # o[j]}

SomeContainers == [magic : {TRUE}, order : Orders, meta : Metas, pool : Pools, code : Codes]
  \cup [magic : {FALSE}, order : {<<"metadata", "pool", "bytecode">>}, meta : Metas, pool : {<<>>}, code : {<<>>}]
FewCuts == 0..8

VARIABLE part

\* A part that does not take part stays where it is.
AnElf == CHOOSE d \in LinkedFiles : d.secs = <<>> /\ d.segs = <<>>
AnFlx == CHOOSE d \in Containers : d.meta = <<>> /\ d.pool = <<>> /\ d.code = <<>>
Idle ==
  /\ part # "pcap" => variant = "le_us"
  /\ part # "tool" => command = "gocore live" /\ opts = {}
  /\ part # "mmap" => size = 0

Init ==
  /\ part \in {"pcap", "jsonl", "tool", "elf", "flx", "mmap"}
  /\ linked \in (IF part = "elf" THEN LinkedFiles ELSE {AnElf}) /\ ElfInit
  /\ part # "elf" => elf.len = ElfBytes(linked, 0).len
  /\ compiled \in (IF part = "flx" THEN Containers ELSE {AnFlx}) /\ FlxInit
  /\ part # "flx" => flx.len = End(compiled)
  /\ PcapInit /\ JsonlInit /\ ToolInit /\ MapInit /\ Idle
Next ==
  /\ UNCHANGED part
  /\ IF part = "pcap" THEN PcapNext ELSE UNCHANGED pcapVars
  /\ IF part = "jsonl" THEN JsonlNext ELSE UNCHANGED jsonlVars
  /\ IF part = "tool" THEN ToolNext ELSE UNCHANGED toolVars
  /\ IF part = "mmap" THEN MapNext ELSE UNCHANGED mapVars
  /\ IF part = "elf" THEN ElfNext ELSE UNCHANGED elfVars
  /\ IF part = "flx" THEN FlxNext ELSE UNCHANGED flxVars
Spec == Init /\ [][Next]_<<part, pcapVars, jsonlVars, toolVars, mapVars, elfVars, flxVars>>
=============================================================================
