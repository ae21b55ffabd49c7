------------------------------- MODULE Otool -------------------------------
(***************************************************************************)
(* otool on one Mach-O image: the handle pass of MachO fills the section   *)
(* table, then print_otool walks the load commands a second time to find   *)
(* __TEXT,__text and __DATA,__data.  That walk counts the sections it      *)
(* passes and prints from the table entry with that number.                *)
(***************************************************************************)
EXTENDS MachO, FiniteSets

CONSTANTS
  Prefixed,  \* for each wanted name, the names that begin with it
  Jobs       \* the sequences of "t" and "d" the command line asks for

VARIABLES
  jobs,      \* sections still to look for
  unit,      \* bytes per printed group: 1, 2 or 4, by the cputype
  j,         \* commands the second walk has passed
  ttSize,    \* tt_size
  secid,     \* sections the second walk has passed
  dump,      \* print_memory's arguments: [sect, offset, addr, size]
  rows,      \* the rows printed of the current section: [addr, offset, n]
  found      \* for each letter looked for so far: the section, or << >>

ovars == <<vars, jobs, unit, j, ttSize, secid, dump, rows, found>>
walk  == <<j, ttSize, secid>>

ASSUME PrefixedAssumption ==
  DOMAIN Prefixed = {"__TEXT", "__text", "__DATA", "__data"}
  /\ \A w \in DOMAIN Prefixed : w \in Prefixed[w]
ASSUME JobsAssumption == Jobs \subseteq {<<"t">>, <<"d">>, <<"t", "d">>}

Wanted == [t |-> <<"__TEXT", "__text">>, d |-> <<"__DATA", "__data">>]

\* strncmp over the length of the wanted name.
Matches(sect, letter) == /\ sect.segname \in Prefixed[Wanted[letter][1]]
                         /\ sect.sectname \in Prefixed[Wanted[letter][2]]

HeaderSize == IF file.arch = 32 THEN 28 ELSE 32

\* The comparison in front takes an address for an offset and always holds, so
\* the header's sizeofcmds gives way to what is left of the file, in a uint32_t:
\* of a file shorter than its header nearly 2^32 bytes are left.
sizeofcmds == (file.fsize - HeaderSize) % U32

\* Offset[n]: where command n + 1 stands.
Offset ==
  LET o[n \in 0..ncmds] == IF n = 0 THEN HeaderSize ELSE o[n - 1] + file.cmds[n].cmdsize
  IN  o

NoDump == [sect |-> << >>, offset |-> 0, addr |-> 0, size |-> 0]

-----------------------------------------------------------------------------
OInit ==
  /\ Init
  /\ jobs \in Jobs /\ unit \in {1, 2, 4}
  /\ j = 0 /\ ttSize = 0 /\ secid = 0
  /\ dump = NoDump /\ rows = << >> /\ found = << >>

WalkStep == Walk /\ UNCHANGED <<jobs, unit, walk, dump, rows, found>>

tablesDone == <<input, i, finalSize, tables, unit>>

Seeking == pc = "print" /\ jobs # << >>
Letter  == Head(jobs)

\* print_otool_section returns: the next one starts its walk anew.
NextJob(result) ==
  /\ jobs' = Tail(jobs)
  /\ found' = [l \in DOMAIN found \cup {Letter} |-> IF l = Letter THEN result ELSE found[l]]
  /\ j' = 0 /\ ttSize' = 0 /\ secid' = 0

-----------------------------------------------------------------------------
(* check_otool_seg, check_otool_seg_64 *)

\* The section headers of a command that end inside the load commands as
\* sizeofcmds counts them: the loop leaves at the first that does not.
Readable(c, at) ==
  {q \in 1..Len(c.sects) : at + SegmentSize(c) + q * SectionSize(c) <= HeaderSize + sizeofcmds}

Hits(c, at) == IF c.cmd \in SegmentCmds
                 THEN {q \in Readable(c, at) : Matches(c.sects[q], Letter)} ELSE {}

\* print_section: what is printed of a section that extends past the end of the
\* file depends on the width of the image.
DumpSize(s) ==
  IF s.offset > file.fsize THEN 0
  ELSE IF s.size > file.fsize \/ s.offset + s.size > file.fsize
    THEN IF file.arch = 32 THEN file.fsize - s.offset ELSE 0
  ELSE s.size

\* Mutants: the loop does not move on to the next command; the index of the
\* table is not counted on from command to command.
SkipCommand_Stays ==
  /\ Seeking /\ j < ncmds /\ ttSize < sizeofcmds
  /\ file.cmds[j + 1].cmdsize # 0 /\ Hits(file.cmds[j + 1], Offset[j]) = {}
  /\ UNCHANGED <<tablesDone, pc, jobs, walk, dump, rows, found>>

SkipCommand_NoCount ==
  /\ Seeking /\ j < ncmds /\ ttSize < sizeofcmds
  /\ file.cmds[j + 1].cmdsize # 0 /\ Hits(file.cmds[j + 1], Offset[j]) = {}
  /\ j' = j + 1 /\ ttSize' = (ttSize + file.cmds[j + 1].cmdsize) % U32
  /\ UNCHANGED <<tablesDone, pc, jobs, secid, dump, rows, found>>

\* The loop of print_otool_section turns once without a hit.
SkipCommand ==
  /\ Seeking /\ j < ncmds /\ ttSize < sizeofcmds
  /\ LET c == file.cmds[j + 1] IN
     /\ c.cmdsize # 0 /\ Hits(c, Offset[j]) = {}
     /\ j' = j + 1 /\ ttSize' = (ttSize + c.cmdsize) % U32
     /\ secid' = IF c.cmd \in SegmentCmds
                   THEN secid + Cardinality(Readable(c, Offset[j])) ELSE secid
  /\ UNCHANGED <<tablesDone, pc, jobs, dump, rows, found>>

\* A hit: print_section takes the table's entry number secid.  An entry past
\* the end of the table is no section at all.
HitSection ==
  /\ Seeking /\ j < ncmds /\ ttSize < sizeofcmds
  /\ LET c   == file.cmds[j + 1]
         hit == CHOOSE q \in Hits(c, Offset[j]) : \A p \in Hits(c, Offset[j]) : q <= p
         nr  == secid + hit
     IN /\ c.cmdsize # 0 /\ Hits(c, Offset[j]) # {}
        /\ secid' = nr
        /\ IF nr <= Len(sectab)
             THEN /\ dump' = [sect |-> sectab[nr], offset |-> sectab[nr].offset,
                              addr |-> sectab[nr].addr, size |-> DumpSize(sectab[nr])]
                  /\ pc' = "dump"
             ELSE /\ dump' = NoDump
                  /\ pc' = "lost"
  /\ rows' = << >>
  /\ UNCHANGED <<tablesDone, jobs, j, ttSize, found>>

\* The loop ends without a hit; for -t a line is printed all the same.
NotFound ==
  /\ Seeking
  /\ j < ncmds /\ ttSize < sizeofcmds => file.cmds[j + 1].cmdsize = 0
  /\ NextJob(<< >>)
  /\ UNCHANGED <<tablesDone, pc, dump, rows>>

-----------------------------------------------------------------------------
(* print_memory *)

Groups_Whole(offset, size) ==
  Cardinality({g \in 0..15 : /\ g % unit = 0 /\ g + unit <= size
                             /\ offset + g < file.fsize})

\* Groups in the row at the given offset: the row, the section and the file
\* each bound where a group may begin.
Groups(offset, size) ==
  Cardinality({g \in 0..15 : /\ g % unit = 0 /\ g < size
                             /\ offset + g < file.fsize})

PrintRow ==
  /\ pc = "dump" /\ dump.size > 0 /\ dump.offset < file.fsize
  /\ rows' = Append(rows, [addr |-> dump.addr, offset |-> dump.offset,
                           n |-> Groups(dump.offset, dump.size)])
  /\ dump' = [dump EXCEPT !.offset = @ + 16, !.addr = @ + 16, !.size = @ - 16]
  /\ UNCHANGED <<tablesDone, pc, jobs, walk, found>>

\* Mutant: the walk for the next section goes on where this one ended.
EndDump_NoRestart ==
  /\ pc = "dump" /\ ~(dump.size > 0 /\ dump.offset < file.fsize)
  /\ pc' = "print"
  /\ jobs' = Tail(jobs)
  /\ found' = [l \in DOMAIN found \cup {Letter} |-> IF l = Letter THEN dump.sect ELSE found[l]]
  /\ UNCHANGED <<tablesDone, walk, dump, rows>>

EndDump ==
  /\ pc = "dump" /\ ~(dump.size > 0 /\ dump.offset < file.fsize)
  /\ pc' = "print" /\ NextJob(dump.sect)
  /\ UNCHANGED <<tablesDone, dump, rows>>

Printing == SkipCommand \/ HitSection \/ NotFound \/ PrintRow \/ EndDump

OStopped == pc \in {"rejected", "lost"} \/ (pc = "print" /\ jobs = << >>)

ONext == WalkStep \/ Printing \/ (OStopped /\ UNCHANGED ovars)

OSpec == OInit /\ [][ONext]_ovars /\ WF_ovars(WalkStep \/ Printing)

-----------------------------------------------------------------------------
(* Properties *)

\* No command in front of which the handle pass gave up.
AllKnown == \A n \in 1..ncmds : file.cmds[n].cmd # "UNKNOWN"

\* Every segment command claims at least the bytes of its section headers.
HeadersFit ==
  \A n \in 1..ncmds : LET c == file.cmds[n] IN
    c.cmd \in SegmentCmds => c.cmdsize >= SegmentSize(c) + Len(c.sects) * SectionSize(c)

AllSections == SectionsOf(file)[ncmds]

\* The two walks agree on the numbers of the sections: the one printed is a
\* section of the wanted name.  Needed: every command is one the first walk
\* knows, since it stops at another and the second does not; and no command
\* begins among the section headers of another, since the second walk does not
\* count the headers that do not lie in the file.
RightSection ==
  AllKnown /\ HeadersFit => /\ pc # "lost"
                            /\ pc = "dump" => Matches(dump.sect, Letter)

\* Of a well-formed image with its headers in the file, otool prints the first
\* section of the wanted name, for each that was asked for, in any order.
\* Needed: a file whose size fits 32 bits, since sizeofcmds drops the others.
FirstOfItsName ==
  LET first(l) ==
        LET hits == {n \in 1..Len(AllSections) : Matches(AllSections[n], l)}
        IN  IF hits = {} THEN << >>
            ELSE AllSections[CHOOSE n \in hits : \A m \in hits : n <= m]
  IN  AllKnown /\ WellFormed(file) /\ Offset[ncmds] <= file.fsize /\ file.fsize < U32
      => \A l \in DOMAIN found : found[l] = first(l)

\* The bytes print_memory reads and prints of a section: none in front of it,
\* and behind its end or the end of the file no more than the rest of the last
\* group, which begins inside both (groups of two and four bytes are read whole,
\* main.c:23 and 28); every row has the address the section gives its bytes; and
\* of a section that lies inside the file every byte is printed.
RowsExact ==
  LET s       == dump.sect
      printed == UNION {{rows[r].offset + g : g \in 0..(rows[r].n * unit - 1)}
                          : r \in 1..Len(rows)}
  IN  pc = "dump" =>
        /\ \A r \in 1..Len(rows) : rows[r].addr - rows[r].offset = s.addr - s.offset
        /\ printed \subseteq s.offset..(s.offset + s.size + unit - 2)
        /\ printed \subseteq 0..(file.fsize + unit - 2)
        /\ ~(dump.size > 0 /\ dump.offset < file.fsize) /\ s.offset + s.size <= file.fsize
           => s.offset..(s.offset + s.size - 1) \subseteq printed

\* otool comes to an end on every image.
OtoolEnds == <>OStopped
=============================================================================
