------------------------------ MODULE MCOtool ------------------------------
(* Otool on images of up to three load commands, whole and cut off.         *)
EXTENDS Otool

MCU8 == 4
MCU32 == 4096
MCU64 == 4096
MCRank == [x \in {EmptyName, BadIndex, StartName, NoString} |-> 0]
MCPrefixed == [w \in {"__TEXT", "__text", "__DATA", "__data"} |->
                 IF w = "__text" THEN {"__text", "__text_cold"} ELSE {w}]
MCJobs == {<<"t">>, <<"d">>, <<"t", "d">>}

Sect(seg, name, addr, size, offset) ==
  [segname |-> seg, sectname |-> name, addr |-> addr, size |-> size, offset |-> offset]

Text  == Sect("__TEXT", "__text", 104, 20, 600)
Cold  == Sect("__TEXT", "__text_cold", 200, 6, 620)
Data  == Sect("__DATA", "__data", 308, 33, 626)
Const == Sect("__TEXT", "__const", 340, 4, 660)
Long  == Sect("__DATA", "__data", 400, 50, 670)   \* past the end of the file
Far   == Sect("__DATA", "__data", 400, 4, 730)    \* begins past the end

Command(c) ==
  [cmd |-> c, cmdsize |-> 8, sects |-> << >>, fileoff |-> 0, filesize |-> 0,
   symoff |-> 0, syms |-> << >>, stroff |-> 0, strsize |-> 0]

Segment(arch, sects) ==
  LET s == [Command(IF arch = 32 THEN "SEGMENT" ELSE "SEGMENT_64") EXCEPT !.sects = sects]
  IN  [s EXCEPT !.cmdsize = Len(sects) * SectionSize(s) + SegmentSize(s)]

Commands(arch) ==
  {Segment(arch, ss) : ss \in {<<Text>>, <<Const, Text>>, <<Data>>, <<Cold, Text>>,
                               <<Const>>, <<Long>>, <<Far>>, << >>}}
  \cup {[Segment(arch, <<Data>>) EXCEPT !.cmdsize = 200], Command("UUID"),
        [Command("SYMTAB") EXCEPT !.cmdsize = 24],
        [Command("UUID") EXCEPT !.cmdsize = 4090], Command("UNKNOWN")}

Sum(cs) == LET S[n \in 0..Len(cs)] == IF n = 0 THEN 0 ELSE S[n - 1] + cs[n].cmdsize
           IN  S[Len(cs)] % U32

Lists(arch) == UNION {[1..n -> Commands(arch)] : n \in 0..2}
  \cup {<<c, d, Segment(arch, <<Text>>)>> : c \in Commands(arch), d \in Commands(arch)}

Image(arch, fsize, cs) ==
  [arch |-> arch, fsize |-> fsize, wanted |-> TRUE, sizeofcmds |-> Sum(cs), cmds |-> cs]

\* A zero size keeps the walk at the same command for all of ncmds.
Stuck(arch) == [Segment(arch, <<Text>>) EXCEPT !.cmdsize = 0]

\* A command that claims less than its section headers take, the last of which
\* would stand behind the end of the file; the next command is read all the same.
Short(arch) == [Segment(arch, [n \in 1..10 |-> Const]) EXCEPT !.cmdsize = 8]

MCFiles == UNION {
  {Image(arch, 700, cs) : cs \in Lists(arch)} \cup
  {Image(arch, 290, cs) : cs \in [1..2 -> Commands(arch)]} \cup
  {Image(arch, 700, <<Stuck(arch), Stuck(arch)>>),
   Image(arch, 700, <<Short(arch), Segment(arch, <<Const, Text>>)>>),
   [Image(arch, 700, << >>) EXCEPT !.wanted = FALSE]}
  : arch \in {32, 64}}
  \* A slice may be shorter than the header of its image: only 28 bytes are
  \* looked for.
  \cup {Image(64, 30, <<c, Segment(64, <<Text>>)>>) : c \in Commands(64)}

MCOptions == {[flags |-> {}, segname |-> "", sectname |-> ""]}
=============================================================================
