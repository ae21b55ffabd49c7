------------------------------- MODULE MCWalk -------------------------------
(* MachO on images of up to three load commands, sound ones and each kind   *)
(* of unsound one, in a 1024-value uint32_t.                                *)
EXTENDS MachO

MCU8 == 4
MCU32 == 1024
MCU64 == 4096
MCRank == [x \in {EmptyName, BadIndex, StartName, NoString, "a"} |-> 0]

Text == [segname |-> "__TEXT", sectname |-> "__text", addr |-> 4, size |-> 8, offset |-> 700]
Data == [segname |-> "__DATA", sectname |-> "__data", addr |-> 12, size |-> 4, offset |-> 708]

Sym(type, sect, value) ==
  [strx |-> 1, name |-> "a", stab |-> FALSE, pext |-> FALSE, type |-> type,
   ext |-> TRUE, sect |-> sect, value |-> value, indr |-> "a"]

Command(c) ==
  [cmd |-> c, cmdsize |-> 8, sects |-> << >>, fileoff |-> 0, filesize |-> 0,
   symoff |-> 0, syms |-> << >>, stroff |-> 0, strsize |-> 0]

Segment(c, sects, end) ==
  LET s == [Command(c) EXCEPT !.sects = sects, !.fileoff = 700, !.filesize = end - 700]
  IN  [s EXCEPT !.cmdsize = Len(sects) * SectionSize(s) + SegmentSize(s)]

Symtab(syms, symoff, stroff, strsize) ==
  [Command("SYMTAB") EXCEPT !.cmdsize = 24, !.syms = syms, !.symoff = symoff,
                            !.stroff = stroff, !.strsize = strsize]

\* The load commands take up to 728 bytes behind the header; data follows.
FileSize == 800
Two == <<Sym("SECT", 1, 4), Sym("UNDF", 0, 0)>>

Commands == {
  Segment("SEGMENT", <<Text>>, 800),
  Segment("SEGMENT_64", <<Data, Text>>, 800),
  Segment("SEGMENT", <<Data>>, 801),                              \* past the end
  [Segment("SEGMENT_64", <<Data>>, 790) EXCEPT !.cmdsize = 160],     \* wrong size
  Symtab(Two, 740, 772, 28),      \* fills the file when entries take 16 bytes
  Symtab(<<Sym("ABS", 0, 3)>>, 760, 776, 10),
  Symtab(Two, 740, 766, 30),      \* overlaps the string table in a 64-bit file
  Symtab(Two, 772, 804, 0),      \* symbols fit a 32-bit file, strings do not
  Symtab(<< >>, 0, 780, 21),     \* string table past the end by one byte
  [Symtab(Two, 740, 772, 28) EXCEPT !.cmdsize = 28],
  Symtab(<< >>, 0, 1000, 40),   \* stroff + strsize = 1040 wraps to 16
  Command("UUID"),
  [Command("UUID") EXCEPT !.cmdsize = 1016],    \* wraps the running sum
  [Command("UUID") EXCEPT !.cmdsize = 0],
  Command("UNKNOWN")}

\* Pairs of any two commands, and triples without the variants of one fault.
Core == {
  Segment("SEGMENT", <<Text>>, 800), Segment("SEGMENT_64", <<Data, Text>>, 800),
  Segment("SEGMENT", <<Data>>, 801),
  Symtab(Two, 740, 772, 28), Symtab(<<Sym("ABS", 0, 3)>>, 760, 776, 10),
  Symtab(<< >>, 0, 1000, 40), Command("UUID"), Command("UNKNOWN")}

\* Behind a command of size zero the walk meets that command again.
Realizable(cs) == \A n \in 1..(Len(cs) - 1) : cs[n].cmdsize = 0 => cs[n + 1] = cs[n]

CommandLists ==
  {cs \in UNION {[1..n -> Commands] : n \in 0..2} \cup [1..3 -> Core] : Realizable(cs)}

Sum(cs) == LET S[n \in 0..Len(cs)] == IF n = 0 THEN 0 ELSE S[n - 1] + cs[n].cmdsize
           IN  S[Len(cs)] % U32

MCFiles == {[arch |-> a, fsize |-> FileSize, wanted |-> w,
             sizeofcmds |-> (Sum(cs) + d) % U32, cmds |-> cs]
            : a \in {32, 64}, w \in {TRUE}, d \in {0, 8}, cs \in CommandLists}
           \cup {[arch |-> 32, fsize |-> FileSize, wanted |-> FALSE,
                  sizeofcmds |-> 8, cmds |-> <<c>>] : c \in Commands}
           \cup {[arch |-> 64, fsize |-> FileSize, wanted |-> TRUE, sizeofcmds |-> 16,
                  cmds |-> <<Command(c), Command("UUID")>>] : c \in Cmds}

MCOptions == {[flags |-> {"U"}, segname |-> "", sectname |-> ""]}
=============================================================================
