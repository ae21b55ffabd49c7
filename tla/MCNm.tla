-------------------------------- MODULE MCNm --------------------------------
(* Nm on images that differ in their symbols, under the options that select *)
(* and order symbols.  Every section number of these images fits the uint8_t *)
(* of n_sect, as it does in every image a linker writes.                    *)
EXTENDS Nm

MCU8 == 5
MCU32 == 1024
MCU64 == 4096
\* strcmp order of the names that occur
MCRank == [x \in {EmptyName, BadIndex, StartName, NoString, "_a", "_b"} |->
            CASE x = EmptyName -> 0 [] x = StartName -> 1 [] x = NoString -> 2
              [] x = "_a" -> 3 [] x = "_b" -> 4 [] x = BadIndex -> 5]

Text  == [segname |-> "__TEXT", sectname |-> "__text", addr |-> 4, size |-> 8, offset |-> 540]
Data  == [segname |-> "__DATA", sectname |-> "__data", addr |-> 6, size |-> 8, offset |-> 540]
Bss   == [segname |-> "__DATA", sectname |-> "__bss", addr |-> 8, size |-> 0, offset |-> 540]
Data2 == [segname |-> "__DATA", sectname |-> "__data", addr |-> 9, size |-> 8, offset |-> 540]

Entry(name, type, ext, sect, value) ==
  [strx |-> 1, name |-> name, stab |-> FALSE, pext |-> FALSE, type |-> type,
   ext |-> ext, sect |-> sect, value |-> value, indr |-> "_b"]

Entries == {
  Entry("_a", "SECT", TRUE, 1, 4),                               \* start of text
  Entry("_b", "SECT", FALSE, 2, 6),
  Entry("_a", "SECT", TRUE, 2, 7),
  [Entry("_b", "SECT", FALSE, 2, 6) EXCEPT !.stab = TRUE],       \* debug entry
  Entry("_b", "SECT", FALSE, 3, 8),
  Entry("_a", "UNDF", TRUE, 0, 0),
  [Entry("_b", "UNDF", TRUE, 0, 0) EXCEPT !.pext = TRUE],
  [Entry("_a", "UNDF", TRUE, 0, 5) EXCEPT !.strx = 30],          \* common, bad index
  [Entry("_a", "INDR", TRUE, 0, 7) EXCEPT !.strx = 0],
  Entry("_b", "PBUD", TRUE, 0, 0)}

Command(c) ==
  [cmd |-> c, cmdsize |-> 8, sects |-> << >>, fileoff |-> 0, filesize |-> 0,
   symoff |-> 0, syms |-> << >>, stroff |-> 0, strsize |-> 0]

Segment(sects) ==
  LET s == [Command("SEGMENT_64") EXCEPT !.sects = sects]
  IN  [s EXCEPT !.cmdsize = Len(sects) * SectionSize(s) + SegmentSize(s)]

Symtab(syms) ==
  [Command("SYMTAB") EXCEPT !.cmdsize = 24, !.syms = syms, !.symoff = 520,
                            !.stroff = 560, !.strsize = 20]

Image(cs) ==
  LET S[n \in 0..Len(cs)] == IF n = 0 THEN 0 ELSE S[n - 1] + cs[n].cmdsize
  IN  [arch |-> 64, fsize |-> 600, wanted |-> TRUE,
       sizeofcmds |-> S[Len(cs)], cmds |-> cs]

Tables == UNION {[1..n -> Entries] : n \in 0..2}

MCFiles ==
  {Image(<<Segment(<<Text, Data>>), Symtab(t), Command("UUID")>>) : t \in Tables}
  \cup {Image(<<Segment(<<Text>>), Symtab(<<e>>), Segment(<<Data, Bss>>), Symtab(<<d>>)>>)
        : e \in Entries, d \in Entries}
  \cup {Image(<<Segment(<<Text, Data, Bss, Data2>>), Symtab(<<e>>)>>) : e \in Entries}
  \cup {Image(<<Segment(<<Text, Data>>), Segment(<<Data2>>), Symtab(<<e>>)>>) : e \in Entries}
  \cup {Image(<<Segment(<<Text, Data>>)>>),
        Image(<<Segment(<<Data>>), Command("UNKNOWN")>>),
        [Image(<<Segment(<<Text>>), Symtab(<< >>)>>) EXCEPT !.wanted = FALSE],
        [Image(<<Symtab(<< >>)>>) EXCEPT !.sizeofcmds = 8]}

MCOptions ==
  {[flags |-> f, segname |-> "__DATA", sectname |-> "__data"] :
     f \in {{}, {"a"}, {"g"}, {"a", "g"}, {"u"}, {"U"}, {"p"}, {"n"}, {"r"},
            {"n", "r"}, {"s"}, {"l", "s"}, {"l", "s", "a"}, {"l", "s", "g"},
            {"l", "s", "a", "p"}, {"l", "U"}}}
=============================================================================
