---------------------------- MODULE OtoolProofs ----------------------------
(***************************************************************************)
(* Proofs about the second walk of otool, for every image: it finds the    *)
(* section the first walk stored, the first of its name, and print_memory  *)
(* prints all of it and at most the rest of a group more.                  *)
(***************************************************************************)
EXTENDS Otool, MachOProofs, FiniteSetTheorems

-----------------------------------------------------------------------------
(* Where the second walk stands *)

Headers(c) == SegmentSize(c) + Len(c.sects) * SectionSize(c)

\* The command behind the first n stands behind their sizes.
LEMMA OffsetIs ==
  ASSUME file \in File
  PROVE  \A n \in 0..ncmds : Offset[n] = HeaderSize + SizesOf(file)[n]
<1> DEFINE Is(g) == g = [n \in 0..ncmds |-> IF n = 0 THEN HeaderSize
                                            ELSE g[n - 1] + file.cmds[n].cmdsize]
           h == [n \in 0..ncmds |-> HeaderSize + SizesOf(file)[n]]
<1>1. ncmds \in Nat /\ HeaderSize \in Nat /\ \A n \in 1..ncmds : file.cmds[n].cmdsize \in Nat
  BY CommandsOf DEF ncmds, HeaderSize
<1>2. /\ SizesOf(file)[0] = 0
      /\ \A n \in 1..ncmds : SizesOf(file)[n] = SizesOf(file)[n - 1] + file.cmds[n].cmdsize
      /\ \A n \in 0..ncmds : SizesOf(file)[n] \in Nat
  BY SizesOfIs DEF ncmds
<1>3. \A n \in 0..ncmds : n # 0 => n \in 1..ncmds /\ n - 1 \in 0..ncmds
  BY <1>1
<1>4. Is(h)
  <2>1. \A n \in 0..ncmds : HeaderSize + SizesOf(file)[n] =
          IF n = 0 THEN HeaderSize ELSE h[n - 1] + file.cmds[n].cmdsize
    <3> SUFFICES ASSUME NEW n \in 0..ncmds
                 PROVE  HeaderSize + SizesOf(file)[n] =
                          IF n = 0 THEN HeaderSize ELSE h[n - 1] + file.cmds[n].cmdsize
      OBVIOUS
    <3>1. CASE n = 0
      BY <1>1, <1>2, <3>1
    <3>2. CASE n # 0
      <4>1. n \in 1..ncmds /\ n - 1 \in 0..ncmds
        BY <1>3, <3>2
      <4>2. h[n - 1] = HeaderSize + SizesOf(file)[n - 1]
        BY <4>1
      <4>3. SizesOf(file)[n] = SizesOf(file)[n - 1] + file.cmds[n].cmdsize
        BY <1>2, <4>1
      <4>4. SizesOf(file)[n - 1] \in Nat /\ file.cmds[n].cmdsize \in Nat
        BY <1>1, <1>2, <4>1
      <4> QED BY <1>1, <3>2, <4>2, <4>3, <4>4
    <3> QED BY <3>1, <3>2
  <2> QED BY <2>1
<1>5. Offset = CHOOSE g : Is(g)
  BY DEF Offset
<1>6. Is(Offset)
  BY <1>4, <1>5, Zenon
<1>7. \A n \in 0..ncmds : Offset[n] = IF n = 0 THEN HeaderSize
                                      ELSE Offset[n - 1] + file.cmds[n].cmdsize
  BY <1>6, Zenon
<1> DEFINE P == {n \in 0..ncmds : Offset[n] = HeaderSize + SizesOf(file)[n]}
<1> HIDE DEF Is, h
<1>8. 0 \in P
  BY <1>1, <1>2, <1>7
<1>9. ASSUME NEW n \in 1..ncmds, n - 1 \in P PROVE n \in P
  <2>1. n \in 0..ncmds /\ n # 0
    BY <1>1
  <2>2. Offset[n] = Offset[n - 1] + file.cmds[n].cmdsize
    BY <1>7, <2>1, Zenon
  <2>3. Offset[n - 1] = HeaderSize + SizesOf(file)[n - 1]
    BY <1>9
  <2>4. /\ SizesOf(file)[n] = SizesOf(file)[n - 1] + file.cmds[n].cmdsize
        /\ SizesOf(file)[n - 1] \in Nat /\ file.cmds[n].cmdsize \in Nat
    <3>1. n - 1 \in 0..ncmds
      BY <1>9
    <3> QED BY <1>1, <1>2, <3>1
  <2>5. Offset[n] = HeaderSize + SizesOf(file)[n]
    BY <1>1, <2>2, <2>3, <2>4
  <2> QED BY <2>1, <2>5
<1>10. 0..ncmds \subseteq P
  <2> HIDE DEF P
  <2> QED BY <1>1, <1>8, <1>9, InductionUpTo
<1> QED BY <1>10

\* What changes with one more command.
LEMMA OneMoreCommand ==
  ASSUME file \in File, j \in 0..ncmds, j < ncmds
  PROVE  LET c == file.cmds[j + 1] IN
         /\ ncmds \in Nat /\ j + 1 \in 0..ncmds /\ j + 1 \in 1..ncmds
         /\ c.cmdsize \in Nat /\ c.sects \in Seq(Section) /\ Len(c.sects) \in Nat
         /\ Offset[j] \in Nat /\ Offset[j + 1] = Offset[j] + c.cmdsize
         /\ SectionsOf(file)[j] \in Seq(Section)
         /\ SectionsOf(file)[j + 1] = SectionsOf(file)[j] \o Added(c)
<1>1. /\ ncmds \in Nat /\ ncmds = Len(file.cmds)
      /\ j + 1 \in 0..ncmds /\ j + 1 \in 1..ncmds /\ j + 1 - 1 = j
  BY CommandsOf DEF ncmds
<1>2. /\ file.cmds[j + 1].cmdsize \in Nat /\ file.cmds[j + 1].sects \in Seq(Section)
  BY <1>1, CommandsOf
<1>3. /\ SizesOf(file)[j + 1] = SizesOf(file)[j] + file.cmds[j + 1].cmdsize
      /\ SizesOf(file)[j] \in Nat
  <2>1. PICK n \in 1..ncmds : n = j + 1 /\ n - 1 = j
    BY <1>1
  <2> QED BY <1>1, <2>1, SizesOfIs
<1>4. /\ Offset[j] = HeaderSize + SizesOf(file)[j]
      /\ Offset[j + 1] = HeaderSize + SizesOf(file)[j + 1]
  BY <1>1, OffsetIs
<1>5. HeaderSize \in Nat
  BY DEF HeaderSize
<1>6. SectionsOf(file)[j + 1] = SectionsOf(file)[j] \o Added(file.cmds[j + 1])
      /\ SectionsOf(file)[j] \in Seq(Section)
  <2>1. PICK n \in 1..ncmds : n = j + 1 /\ n - 1 = j
    BY <1>1
  <2> QED BY <1>1, <2>1, SectionsOfIs
<1>7. Offset[j] \in Nat /\ Offset[j + 1] = Offset[j] + file.cmds[j + 1].cmdsize
  BY <1>2, <1>3, <1>4, <1>5
<1> QED BY <1>1, <1>2, <1>6, <1>7

\* Where the load commands end as sizeofcmds counts them.
Bound == HeaderSize + sizeofcmds

\* That is the end of the file, if the file holds the header and its size fits
\* a uint32_t.
LEMMA BoundIs ==
  ASSUME file \in File
  PROVE  /\ HeaderSize \in Nat /\ sizeofcmds \in Nat /\ Bound \in Nat
         /\ HeaderSize <= file.fsize /\ file.fsize < U32 =>
              sizeofcmds = file.fsize - HeaderSize /\ Bound = file.fsize
<1>1. HeaderSize \in Nat /\ file.fsize \in Nat /\ U32 \in Nat \ {0}
  BY WordAssumption DEF HeaderSize, File
<1> DEFINE left == file.fsize - HeaderSize
<1>2. left \in Int
  BY <1>1
<1>3. \A x \in Int : \A u \in Nat \ {0} : x % u \in Nat
  OBVIOUS
<1>4. \A x \in Nat : \A u \in Nat \ {0} : x < u => x % u = x
  OBVIOUS
<1>5. sizeofcmds = left % U32
  BY DEF sizeofcmds
<1>6. HeaderSize <= file.fsize /\ file.fsize < U32 => left \in Nat /\ left < U32
  BY <1>1
<1> HIDE DEF left
<1>7. sizeofcmds \in Nat /\ (HeaderSize <= file.fsize /\ file.fsize < U32 => sizeofcmds = left)
  BY <1>1, <1>2, <1>3, <1>4, <1>5, <1>6
<1> USE DEF left
<1> QED BY <1>1, <1>7 DEF Bound

\* Headers that lie within the bound are all read, those behind it are not.
LEMMA ReadableIs ==
  ASSUME file \in File, NEW c, Len(c.sects) \in Nat, NEW at \in Int
  PROVE  /\ Readable(c, at) \subseteq 1..Len(c.sects)
         /\ at + Headers(c) <= Bound => Readable(c, at) = 1..Len(c.sects)
         /\ Readable(c, at) # {} => at < Bound
         /\ Headers(c) \in Nat \ {0}
<1>1. Bound \in Nat
  BY BoundIs
<1>2. Readable(c, at) =
        {q \in 1..Len(c.sects) : at + SegmentSize(c) + q * SectionSize(c) <= Bound}
  BY DEF Readable, Bound
<1>3. CASE c.cmd = "SEGMENT"
  BY <1>1, <1>2, <1>3 DEF Headers, SegmentSize, SectionSize
<1>4. CASE c.cmd # "SEGMENT"
  BY <1>1, <1>2, <1>4 DEF Headers, SegmentSize, SectionSize
<1> QED BY <1>3, <1>4

LEMMA ReadableCount ==
  ASSUME file \in File, NEW c, Len(c.sects) \in Nat, NEW at \in Int
  PROVE  /\ Cardinality(Readable(c, at)) \in Nat
         /\ at + Headers(c) <= Bound => Cardinality(Readable(c, at)) = Len(c.sects)
         /\ Readable(c, at) = {} => Cardinality(Readable(c, at)) = 0
<1>1. PICK m \in Nat : m = Len(c.sects)
  OBVIOUS
<1>2. IsFiniteSet(1..m) /\ Cardinality(1..m) = m
  BY <1>1, FS_Interval
<1>3. /\ Readable(c, at) \subseteq 1..m
      /\ at + Headers(c) <= Bound => Readable(c, at) = 1..m
  BY <1>1, ReadableIs
<1>4. IsFiniteSet(Readable(c, at))
  BY <1>2, <1>3, FS_Subset
<1>5. Cardinality(Readable(c, at)) \in Nat
  BY <1>4, FS_CardinalityType
<1> QED BY <1>1, <1>2, <1>3, <1>5, FS_EmptySet

-----------------------------------------------------------------------------
(* The state behind the first walk *)

OBase ==
  /\ file \in File /\ i \in 0..ncmds /\ j \in 0..ncmds
  /\ secid \in Nat /\ ttSize \in Nat
  /\ pc \in {"check", "handle", "symbols", "print", "rejected", "dump", "lost"}
  /\ pc \in {"check", "handle", "symbols"} => TypeOK /\ Position /\ InOrder /\ j = 0
                                              /\ secid = 0 /\ ttSize = 0
  /\ pc \in {"print", "dump", "lost"} => /\ sectab = SectionsOf(file)[i]
                                         /\ i < ncmds => cmd.cmd = "UNKNOWN"
  /\ unit \in {1, 2, 4}

LEMMA OBaseInit == OInit => OBase
<1> SUFFICES ASSUME OInit PROVE OBase
  OBVIOUS
<1>1. TypeOK /\ Position /\ InOrder
  BY TypeInit, InOrderInit DEF OInit
<1>2. ncmds \in Nat /\ 0 \in 0..ncmds
  BY <1>1, CommandsOf DEF TypeOK, ncmds
<1> QED BY <1>1, <1>2 DEF OInit, Init, OBase, TypeOK

\* Every step either walks in front of "print" or leaves the tables alone.
LEMMA OMoves ==
  ASSUME OBase, [ONext]_ovars
  PROVE  /\ file' = file
         /\ \/ /\ WalkStep /\ pc \in {"check", "handle", "symbols"}
               /\ TypeOK' /\ Position' /\ InOrder'
            \/ Printing /\ pc \in {"print", "dump"} /\ UNCHANGED tablesDone
            \/ UNCHANGED ovars
<1>1. CASE WalkStep
  <2>1. Walk /\ pc \in {"check", "handle", "symbols"} /\ file' = file
    BY <1>1 DEF WalkStep, Walk, Skip, SkipCheck, CheckCommand, EndCheck, input,
         HandleSegment, HandleSymtab, HandleSymbol, EndSymtab, HandleOther, EndHandle
  <2>2. TypeOK /\ Position /\ InOrder /\ [Next]_vars
    BY <2>1 DEF OBase, Next
  <2> QED BY <1>1, <2>1, <2>2, TypeStep, InOrderStep
<1>2. CASE Printing
  BY <1>2 DEF Printing, SkipCommand, HitSection, NotFound, PrintRow, EndDump, Seeking,
       tablesDone, input
<1>3. CASE UNCHANGED ovars
  BY <1>3 DEF ovars, vars
<1> QED BY <1>1, <1>2, <1>3 DEF ONext

LEMMA OBaseStep == OBase /\ [ONext]_ovars => OBase'
<1> SUFFICES ASSUME OBase, [ONext]_ovars PROVE OBase'
  OBVIOUS
<1>0. file' = file /\ ncmds' = ncmds
  BY OMoves DEF ncmds
<1>1. CASE WalkStep /\ pc \in {"check", "handle", "symbols"} /\ TypeOK' /\ Position' /\ InOrder'
  BY <1>0, <1>1 DEF WalkStep, walk, OBase, TypeOK, InOrder, SectionsInOrder, cmd
<1>2. CASE Printing /\ pc \in {"print", "dump"} /\ UNCHANGED tablesDone
  <2>1. i' = i /\ sectab' = sectab /\ cmd' = cmd /\ unit' = unit
    BY <1>0, <1>2 DEF tablesDone, input, tables, cmd
  <2>2. pc' \in {"print", "dump", "lost"}
    BY <1>2 DEF Printing, SkipCommand, HitSection, NotFound, PrintRow, EndDump, Seeking
  <2>3. j' \in 0..ncmds /\ secid' \in Nat /\ ttSize' \in Nat
    <3>0. ncmds \in Nat
      BY CommandsOf DEF OBase, ncmds
    <3>1. CASE SkipCommand
      <4>1. LET c == file.cmds[j + 1] IN
            /\ j < ncmds /\ j' = j + 1 /\ ttSize' = (ttSize + c.cmdsize) % U32
            /\ secid' = secid \/ secid' = secid + Cardinality(Readable(c, Offset[j]))
        BY <3>1 DEF SkipCommand
      <4>2. file.cmds[j + 1].cmdsize \in Nat /\ j + 1 \in 0..ncmds /\ Offset[j] \in Nat
            /\ Len(file.cmds[j + 1].sects) \in Nat
        BY <4>1, OneMoreCommand DEF OBase
      <4>3. \A x \in Nat : x % U32 \in Nat
        BY WordAssumption
      <4> DEFINE c == file.cmds[j + 1]
                 at == Offset[j]
                 passed == Cardinality(Readable(c, at))
      <4>4. passed \in Nat
        <5>1. Len(c.sects) \in Nat /\ at \in Int /\ file \in File
          BY <4>2 DEF OBase
        <5> HIDE DEF c, at
        <5> QED BY <5>1, ReadableCount
      <4>5. j' \in 0..ncmds /\ ttSize' \in Nat
        <5>1. j' = j + 1 /\ ttSize' = (ttSize + c.cmdsize) % U32
          BY <4>1
        <5>2. ttSize + c.cmdsize \in Nat
          BY <4>2 DEF OBase
        <5> QED BY <4>2, <4>3, <5>1, <5>2
      <4>6. secid' = secid \/ secid' = secid + passed
        BY <4>1
      <4> HIDE DEF passed
      <4> QED BY <4>4, <4>5, <4>6 DEF OBase
    <3>2. CASE HitSection
      <4> DEFINE c == file.cmds[j + 1]
                 H == Hits(c, Offset[j])
                 hit == CHOOSE q \in H : \A p \in H : q <= p
      <4>1. j < ncmds /\ H # {} /\ secid' = secid + hit /\ UNCHANGED <<j, ttSize>>
        BY <3>2 DEF HitSection
      <4>2. H \subseteq Nat
        <5>1. Offset[j] \in Nat /\ Len(c.sects) \in Nat
          BY <4>1, OneMoreCommand DEF OBase
        <5>2. Readable(c, Offset[j]) \subseteq 1..Len(c.sects)
          BY <5>1, ReadableIs DEF OBase
        <5> QED BY <5>1, <5>2 DEF Hits
      <4>3. hit \in H
        <5> HIDE DEF H
        <5>0. H \in SUBSET Nat
          BY <4>2
        <5>1. \E q \in H : \A p \in H : q <= p
          BY <4>1, <5>0, LeastNumber
        <5> QED BY <5>1, Zenon
      <4> HIDE DEF H, hit
      <4> QED BY <4>1, <4>2, <4>3 DEF OBase
    <3>3. CASE NotFound \/ EndDump
      BY <3>0, <3>3 DEF NotFound, EndDump, NextJob
    <3>4. CASE PrintRow
      BY <3>4 DEF PrintRow, walk, OBase
    <3> QED BY <1>2, <3>1, <3>2, <3>3, <3>4 DEF Printing
  <2> QED BY <1>0, <1>2, <2>1, <2>2, <2>3 DEF OBase
<1>3. CASE UNCHANGED ovars
  BY <1>3 DEF ovars, vars, walk, OBase, TypeOK, Position, InOrder, SectionsInOrder, ncmds, cmd
<1> QED BY <1>1, <1>2, <1>3, OMoves

-----------------------------------------------------------------------------
(* The table entry a hit leads to *)

Here      == file.cmds[j + 1]
HitNumber == CHOOSE q \in Hits(Here, Offset[j]) :
               \A p \in Hits(Here, Offset[j]) : q <= p

\* What a hit is: the first section of the command, among those whose headers
\* lie within the bound, that has the wanted name.
LEMMA HitIs ==
  ASSUME OBase, j < ncmds, Hits(Here, Offset[j]) # {}
  PROVE  /\ HitNumber \in Hits(Here, Offset[j])
         /\ \A p \in Hits(Here, Offset[j]) : HitNumber <= p
         /\ HitNumber \in 1..Len(Here.sects)
         /\ Matches(Here.sects[HitNumber], Letter)
         /\ Here.cmd \in SegmentCmds /\ Added(Here) = Here.sects
         /\ Offset[j] < Bound
<1> DEFINE H == Hits(Here, Offset[j])
<1>1. Len(Here.sects) \in Nat /\ Offset[j] \in Int /\ file \in File
  <2>1. file \in File /\ j \in 0..ncmds
    BY DEF OBase
  <2> QED BY <2>1, OneMoreCommand DEF Here
<1>2. Readable(Here, Offset[j]) \subseteq 1..Len(Here.sects)
      /\ (Readable(Here, Offset[j]) # {} => Offset[j] < Bound)
  BY <1>1, ReadableIs
<1>3. /\ Here.cmd \in SegmentCmds
      /\ H = {q \in Readable(Here, Offset[j]) : Matches(Here.sects[q], Letter)}
  BY DEF Hits
<1>4. H \in SUBSET Nat /\ H # {}
  BY <1>1, <1>2, <1>3
<1>5. HitNumber \in H /\ \A p \in H : HitNumber <= p
  <2> HIDE DEF H
  <2>1. \E q \in H : \A p \in H : q <= p
    BY <1>4, LeastNumber
  <2>2. HitNumber = CHOOSE q \in H : \A p \in H : q <= p
    BY DEF HitNumber, H
  <2> QED BY <2>1, <2>2, Zenon
<1>6. Added(Here) = Here.sects
  BY <1>3 DEF Added
<1> QED BY <1>2, <1>3, <1>5, <1>6

\* The entry of the complete table behind those of the commands passed.
LEMMA EntryIs ==
  ASSUME OBase, j < ncmds, Here.cmd \in SegmentCmds,
         NEW q \in 1..Len(Here.sects)
  PROVE  LET n == Len(SectionsOf(file)[j]) + q
         IN  n \in 1..Len(AllSections) /\ AllSections[n] = Here.sects[q]
<1> DEFINE S == SectionsOf(file)
<1>1. file \in File /\ j \in 0..ncmds /\ ncmds = Len(file.cmds)
  BY DEF OBase, ncmds
<1>2. /\ Here.sects \in Seq(Section) /\ S[j] \in Seq(Section) /\ j + 1 \in 0..ncmds
      /\ S[j + 1] = S[j] \o Here.sects
  BY <1>1, OneMoreCommand DEF Here, Added
<1>3. PICK m \in 0..Len(file.cmds) : m = j + 1
  BY <1>1, <1>2
<1>4. /\ Len(S[j + 1]) <= Len(AllSections)
      /\ \A p \in 1..Len(S[j + 1]) : AllSections[p] = S[j + 1][p]
  BY <1>1, <1>3, SectionsGrow DEF AllSections
<1>5. AllSections \in Seq(Section)
  <2>1. PICK n \in 0..Len(file.cmds) : n = ncmds
    BY <1>1, <1>2
  <2> QED BY <1>1, <2>1, SectionsOfIs DEF AllSections
<1> DEFINE a == S[j]
           n == Len(a) + q
<1>6. n \in 1..Len(a \o Here.sects) /\ (a \o Here.sects)[n] = Here.sects[q]
  <2> HIDE DEF a
  <2>1. a \in Seq(Section)
    BY <1>2 DEF a
  <2> QED BY <1>2, <2>1
<1>7. n \in 1..Len(S[j + 1]) /\ S[j + 1][n] = Here.sects[q]
  BY <1>2, <1>6
<1> HIDE DEF n, S
<1>8. n \in 1..Len(AllSections) /\ AllSections[n] = Here.sects[q]
  BY <1>4, <1>5, <1>7
<1> QED BY <1>8 DEF n, S

DumpType == /\ DOMAIN dump = {"sect", "offset", "addr", "size"}
            /\ dump.sect \in Section \cup {<< >>}
            /\ dump.offset \in Nat /\ dump.addr \in Nat /\ dump.size \in Int

\* What ties the count of the second walk to the table of the first.
Counted ==
  AllKnown /\ HeadersFit =>
    /\ pc # "lost"
    /\ pc = "print" => secid = Len(SectionsOf(file)[j]) \/ Offset[j] > Bound
    /\ pc = "dump"  => Matches(dump.sect, Letter)

\* A hit of an image with known commands and fitting headers is printed from
\* the entry of the table the hit stands for.
LEMMA HitPrints ==
  ASSUME OBase, AllKnown, HitSection, secid = Len(SectionsOf(file)[j])
  PROVE  /\ pc' = "dump" /\ secid' = secid + HitNumber
         /\ secid' \in 1..Len(AllSections)
         /\ dump'.sect = AllSections[secid'] /\ dump'.sect = Here.sects[HitNumber]
<1>1. j < ncmds /\ Hits(Here, Offset[j]) # {} /\ pc = "print"
  BY DEF HitSection, Here, Seeking
<1>2. HitNumber \in 1..Len(Here.sects) /\ Here.cmd \in SegmentCmds
  BY <1>1, HitIs
<1> DEFINE nr == secid + HitNumber
<1>3. nr \in 1..Len(AllSections) /\ AllSections[nr] = Here.sects[HitNumber]
  BY <1>1, <1>2, EntryIs
<1>4. sectab = AllSections
  <2>1. i = ncmds
    <3>1. i \in 0..ncmds /\ ncmds \in Nat
      BY CommandsOf DEF OBase, ncmds
    <3>2. ASSUME i < ncmds PROVE FALSE
      <4>1. cmd.cmd = "UNKNOWN" /\ i + 1 \in 1..ncmds
        BY <1>1, <3>1, <3>2 DEF OBase
      <4> QED BY <4>1 DEF AllKnown, cmd
    <3> QED BY <3>1, <3>2
  <2> QED BY <1>1, <2>1 DEF OBase, AllSections
<1>5. /\ secid' = nr
      /\ IF nr <= Len(sectab)
           THEN /\ dump' = [sect |-> sectab[nr], offset |-> sectab[nr].offset,
                            addr |-> sectab[nr].addr, size |-> DumpSize(sectab[nr])]
                /\ pc' = "dump"
           ELSE dump' = NoDump /\ pc' = "lost"
  BY DEF HitSection, Here, HitNumber
<1> HIDE DEF nr
<1>6. nr <= Len(sectab)
  BY <1>3, <1>4
<1> QED BY <1>3, <1>4, <1>5, <1>6 DEF nr

\* DumpSize with the image as an argument.
Extent(s, f) ==
  IF s.offset > f.fsize THEN 0
  ELSE IF s.size > f.fsize \/ s.offset + s.size > f.fsize
    THEN IF f.arch = 32 THEN f.fsize - s.offset ELSE 0
  ELSE s.size

\* What is printed begins as the entry of the section says.
LEMMA HitStarts ==
  ASSUME OBase, HitSection, pc' = "dump"
  PROVE  \E s \in Section :
           dump' = [sect |-> s, offset |-> s.offset, addr |-> s.addr,
                    size |-> Extent(s, file)]
<1>1. j < ncmds /\ Hits(Here, Offset[j]) # {} /\ pc = "print"
  BY DEF HitSection, Here, Seeking
<1>2. HitNumber \in Nat \ {0} /\ secid \in Nat
  <2>1. HitNumber \in 1..Len(Here.sects)
    BY <1>1, HitIs
  <2> QED BY <2>1 DEF OBase
<1>3. sectab \in Seq(Section)
  <2>1. sectab = SectionsOf(file)[i] /\ i \in 0..Len(file.cmds) /\ file \in File
    BY <1>1 DEF OBase, ncmds
  <2> QED BY <2>1, SectionsOfIs
<1>4. /\ secid + HitNumber <= Len(sectab)
      /\ LET s == sectab[secid + HitNumber]
         IN  dump' = [sect |-> s, offset |-> s.offset, addr |-> s.addr, size |-> DumpSize(s)]
  BY DEF HitSection, Here, HitNumber
<1>5. PICK s \in Section : s = sectab[secid + HitNumber]
  BY <1>2, <1>3, <1>4
<1>6. DumpSize(s) = Extent(s, file)
  BY DEF DumpSize, Extent
<1> QED BY <1>4, <1>5, <1>6

LEMMA DumpTypeStep == OBase /\ DumpType /\ [ONext]_ovars => DumpType'
<1> SUFFICES ASSUME OBase, DumpType, [ONext]_ovars PROVE DumpType'
  OBVIOUS
<1>1. CASE HitSection
  <2>1. CASE pc' = "dump"
    <3>1. PICK s \in Section : dump' = [sect |-> s, offset |-> s.offset, addr |-> s.addr,
                                        size |-> Extent(s, file)]
      BY <1>1, <2>1, HitStarts
    <3>2. s.offset \in Nat /\ s.addr \in Nat /\ s.size \in Nat
      BY DEF Section
    <3>3. Extent(s, file) \in Int
      BY <3>2 DEF Extent, OBase, File
    <3> QED BY <3>1, <3>2, <3>3 DEF DumpType
  <2>2. CASE pc' # "dump"
    <3>1. dump' = NoDump
      BY <1>1, <2>2 DEF HitSection
    <3> QED BY <3>1 DEF NoDump, DumpType
  <2> QED BY <2>1, <2>2
<1>2. CASE PrintRow
  <2>1. dump' = [dump EXCEPT !.offset = @ + 16, !.addr = @ + 16, !.size = @ - 16]
    BY <1>2 DEF PrintRow
  <2>2. DOMAIN dump' = DOMAIN dump
    BY <2>1
  <2>3. /\ dump'.sect = dump.sect /\ dump'.offset = dump.offset + 16
        /\ dump'.addr = dump.addr + 16 /\ dump'.size = dump.size - 16
    BY <2>1 DEF DumpType
  <2> QED BY <2>2, <2>3 DEF DumpType
<1>3. CASE WalkStep \/ SkipCommand \/ NotFound \/ EndDump \/ UNCHANGED ovars
  BY <1>3 DEF DumpType, WalkStep, SkipCommand, NotFound, EndDump, ovars
<1> QED BY <1>1, <1>2, <1>3 DEF ONext, Printing

LEMMA CountedStep == OBase /\ DumpType /\ Counted /\ [ONext]_ovars => Counted'
<1> SUFFICES ASSUME OBase, DumpType, Counted, [ONext]_ovars PROVE Counted'
  OBVIOUS
<1> SUFFICES ASSUME AllKnown, HeadersFit
             PROVE  /\ pc' # "lost"
                    /\ pc' = "print" => \/ secid' = Len(SectionsOf(file)[j'])
                                        \/ Offset[j'] > Bound
                    /\ pc' = "dump"  => Matches(dump'.sect, Letter')
  <2>1. file' = file
    BY OMoves
  <2>2. AllKnown' = AllKnown /\ HeadersFit' = HeadersFit
    BY <2>1 DEF AllKnown, HeadersFit, ncmds
  <2>3. Offset' = Offset
    <3>1. ncmds' = ncmds /\ HeaderSize' = HeaderSize
      BY <2>1 DEF ncmds, HeaderSize
    <3> QED BY <2>1, <3>1, Zenon DEF Offset
  <2>4. Bound' = Bound
    BY <2>1 DEF Bound, sizeofcmds, HeaderSize
  <2> QED BY <2>1, <2>2, <2>3, <2>4 DEF Counted
<1>0. /\ SectionsOf(file)[0] = << >>
      /\ file \in File /\ j \in 0..ncmds /\ secid \in Nat
  BY SectionsOfIs DEF OBase
<1>1. CASE SkipCommand
  <2>1. /\ j < ncmds /\ j' = j + 1 /\ pc' = "print" /\ pc = "print"
        /\ secid' = IF Here.cmd \in SegmentCmds
                      THEN secid + Cardinality(Readable(Here, Offset[j])) ELSE secid
    BY <1>1 DEF SkipCommand, Seeking, Here
  <2>2. /\ Here.cmdsize \in Nat /\ Len(Here.sects) \in Nat /\ Here.sects \in Seq(Section)
        /\ Offset[j] \in Nat /\ Offset[j + 1] = Offset[j] + Here.cmdsize
        /\ SectionsOf(file)[j] \in Seq(Section) /\ j + 1 \in 1..ncmds
        /\ SectionsOf(file)[j + 1] = SectionsOf(file)[j] \o Added(Here)
    BY <1>0, <2>1, OneMoreCommand DEF Here
  <2>3. Bound \in Nat
    BY <1>0, BoundIs
  <2>4. CASE Offset[j] > Bound
    BY <2>1, <2>2, <2>3, <2>4
  <2>5. CASE Offset[j] <= Bound /\ Here.cmd \notin SegmentCmds
    <3>1. secid' = secid /\ secid = Len(SectionsOf(file)[j])
      BY <2>1, <2>2, <2>3, <2>5 DEF Counted
    <3>2. SectionsOf(file)[j + 1] = SectionsOf(file)[j]
      BY <2>2, <2>5 DEF Added
    <3> QED BY <2>1, <3>1, <3>2
  <2>6. CASE Offset[j] <= Bound /\ Here.cmd \in SegmentCmds
    <3>1. secid = Len(SectionsOf(file)[j])
      BY <2>1, <2>2, <2>3, <2>6 DEF Counted
    <3>2. Here.cmdsize >= Headers(Here)
      BY <2>2, <2>6 DEF HeadersFit, Here, Headers
    <3>3. Headers(Here) \in Nat
          /\ (Offset[j] + Headers(Here) <= Bound
                => Cardinality(Readable(Here, Offset[j])) = Len(Here.sects))
      <4>1. Offset[j] \in Int
        BY <2>2
      <4> QED BY <1>0, <2>2, <4>1, ReadableIs, ReadableCount
    <3>4. CASE Offset[j] + Headers(Here) > Bound
      BY <2>1, <2>2, <2>3, <3>2, <3>3, <3>4
    <3>5. CASE Offset[j] + Headers(Here) <= Bound
      <4>1. secid' = Len(SectionsOf(file)[j]) + Len(Here.sects)
        BY <2>1, <2>6, <3>1, <3>3, <3>5
      <4>2. Len(SectionsOf(file)[j + 1]) = Len(SectionsOf(file)[j]) + Len(Here.sects)
        <5>1. Added(Here) = Here.sects
          BY <2>6 DEF Added
        <5> DEFINE a == SectionsOf(file)[j]
        <5>2. a \in Seq(Section) /\ SectionsOf(file)[j + 1] = a \o Here.sects
          BY <2>2, <5>1
        <5> HIDE DEF a
        <5>3. Len(SectionsOf(file)[j + 1]) = Len(a) + Len(Here.sects)
          BY <2>2, <5>2
        <5> QED BY <5>3 DEF a
      <4> QED BY <2>1, <4>1, <4>2
    <3> QED BY <2>2, <2>3, <3>3, <3>4, <3>5
  <2> QED BY <2>2, <2>3, <2>4, <2>5, <2>6
<1>2. CASE HitSection
  <2>1. pc = "print" /\ j < ncmds /\ Hits(Here, Offset[j]) # {} /\ jobs' = jobs
    BY <1>2 DEF HitSection, Seeking, Here
  <2>2. Offset[j] < Bound /\ Matches(Here.sects[HitNumber], Letter)
    BY <2>1, HitIs
  <2>3. secid = Len(SectionsOf(file)[j])
    <3>1. Offset[j] \in Nat /\ Bound \in Nat
      BY <1>0, <2>1, OneMoreCommand, BoundIs
    <3> QED BY <2>1, <2>2, <3>1 DEF Counted
  <2>4. pc' = "dump" /\ dump'.sect = Here.sects[HitNumber]
    BY <1>2, <2>3, HitPrints
  <2> QED BY <2>1, <2>2, <2>4 DEF Letter
<1>3. CASE NotFound \/ EndDump
  <2>1. pc' = "print" /\ secid' = 0 /\ j' = 0
    BY <1>3 DEF NotFound, EndDump, NextJob, Seeking
  <2> QED BY <1>0, <2>1
<1>4. CASE PrintRow
  <2>1. /\ pc = "dump" /\ pc' = "dump" /\ jobs' = jobs
        /\ dump' = [dump EXCEPT !.offset = @ + 16, !.addr = @ + 16, !.size = @ - 16]
    BY <1>4 DEF PrintRow
  <2>2. dump'.sect = dump.sect
    BY <2>1 DEF DumpType
  <2> QED BY <2>1, <2>2 DEF Counted, Letter
<1>5. CASE WalkStep
  <2>1. pc' \in {"check", "handle", "symbols", "print", "rejected"} /\ secid' = secid
        /\ j' = j /\ pc \in {"check", "handle", "symbols"}
    BY <1>5 DEF WalkStep, walk, Walk, Skip, SkipCheck, CheckCommand, EndCheck,
         HandleSegment, HandleSymtab, HandleSymbol, EndSymtab, HandleOther, EndHandle
  <2>2. secid = 0 /\ j = 0
    BY <2>1 DEF OBase
  <2> QED BY <1>0, <2>1, <2>2
<1>6. CASE UNCHANGED ovars
  BY <1>6 DEF ovars, vars, walk, Counted, Letter
<1> QED BY <1>1, <1>2, <1>3, <1>4, <1>5, <1>6 DEF ONext, Printing

LEMMA CountedInit == OInit => DumpType /\ Counted
  BY DEF OInit, Init, NoDump, DumpType, Counted

\* The two walks number the sections alike: what print_otool prints is the
\* section of the table it found by name in the load commands, for every image
\* whose commands are known and hold their section headers.
THEOREM RightSectionAlways == OSpec => []RightSection
<1>1. OInit => OBase /\ DumpType /\ Counted
  BY OBaseInit, CountedInit
<1>2. OBase /\ DumpType /\ Counted /\ [ONext]_ovars => (OBase /\ DumpType /\ Counted)'
  BY OBaseStep, DumpTypeStep, CountedStep
<1>3. Counted => RightSection
  BY DEF Counted, RightSection
<1> QED BY <1>1, <1>2, <1>3, PTL DEF OSpec

-----------------------------------------------------------------------------
(* A well-formed image with its headers in the file *)

Fine == /\ AllKnown /\ WellFormed(file)
        /\ Offset[ncmds] <= file.fsize /\ file.fsize < U32

LEMMA FineFits == file \in File /\ WellFormed(file) => HeadersFit
<1> SUFFICES ASSUME file \in File, WellFormed(file), NEW n \in 1..ncmds,
                    file.cmds[n].cmd \in SegmentCmds
             PROVE  file.cmds[n].cmdsize >= Headers(file.cmds[n])
  BY DEF HeadersFit, Headers
<1>1. file.cmds[n].cmdsize \in Nat
  BY CommandsOf DEF ncmds
<1>2. file.cmds[n].cmdsize = Headers(file.cmds[n])
  BY DEF WellFormed, WellFormedCommand, SegmentCmds, ncmds, Headers
<1> QED BY <1>1, <1>2

\* The walk over such an image stops at no command before the last, its sum
\* does not wrap, and it reads every section header.
LEMMA FineIs ==
  ASSUME OBase, Fine, j < ncmds
  PROVE  /\ Here.cmdsize # 0
         /\ SizesOf(file)[j] \in Nat /\ SizesOf(file)[j + 1] < U32
         /\ SizesOf(file)[j + 1] = SizesOf(file)[j] + Here.cmdsize
         /\ SizesOf(file)[j] < sizeofcmds
         /\ Offset[j] < file.fsize
         /\ Here.cmd \in SegmentCmds => Readable(Here, Offset[j]) = 1..Len(Here.sects)
<1>1. /\ file \in File /\ j \in 0..ncmds /\ ncmds = Len(file.cmds)
      /\ file.fsize \in Nat /\ file.sizeofcmds \in 0..(U32 - 1) /\ U32 \in Nat
  BY WordAssumption DEF OBase, ncmds, File
<1>2. /\ ncmds \in Nat /\ j + 1 \in 0..ncmds /\ j + 1 \in 1..ncmds
      /\ Here.cmdsize \in Nat /\ Len(Here.sects) \in Nat
      /\ Offset[j] \in Nat /\ Offset[j + 1] = Offset[j] + Here.cmdsize
  BY <1>1, OneMoreCommand DEF Here
<1>3. /\ SizesOf(file)[j] \in Nat /\ SizesOf(file)[j + 1] \in Nat
      /\ SizesOf(file)[j + 1] <= SizesOf(file)[ncmds]
      /\ SizesOf(file)[ncmds] = TotalSize(file)
  BY <1>1, <1>2, SizesOfIs DEF TotalSize
<1>4. /\ Offset[j] = HeaderSize + SizesOf(file)[j]
      /\ Offset[j + 1] = HeaderSize + SizesOf(file)[j + 1]
      /\ Offset[ncmds] = HeaderSize + SizesOf(file)[ncmds]
  <2>1. file \in File /\ j \in 0..ncmds /\ j + 1 \in 0..ncmds
    BY <1>1, <1>2
  <2>2. ncmds \in 0..ncmds
    BY <1>2
  <2> QED BY <2>1, <2>2, OffsetIs, Zenon
<1>5. WellFormedCommand(Here, file) /\ TotalSize(file) = file.sizeofcmds
  <2>1. WellFormed(file)
    BY DEF Fine
  <2>2. PICK n \in 1..Len(file.cmds) : n = j + 1
    BY <1>1, <1>2
  <2>3. WellFormedCommand(file.cmds[n], file) /\ TotalSize(file) = file.sizeofcmds
    BY <2>1 DEF WellFormed
  <2> QED BY <2>2, <2>3 DEF Here
<1>6. /\ Here.cmdsize > 0
      /\ (Here.cmd \in SegmentCmds => Here.cmdsize = Headers(Here))
  <2>1. \/ Here.cmd \notin SegmentCmds \cup {"SYMTAB", "UNKNOWN"} /\ Here.cmdsize > 0
        \/ Here.cmd \in SegmentCmds /\ Here.cmdsize = Headers(Here)
        \/ Here.cmd = "SYMTAB" /\ Here.cmdsize = SymtabCommandSize
    BY <1>5 DEF WellFormedCommand, Headers
  <2>2. Headers(Here) \in Nat \ {0}
    <3>1. Offset[j] \in Int
      BY <1>2
    <3> QED BY <1>1, <1>2, <3>1, ReadableIs
  <2> QED BY <2>1, <2>2 DEF SymtabCommandSize, SegmentCmds
<1>7. HeaderSize \in Nat /\ sizeofcmds = file.fsize - HeaderSize /\ Bound = file.fsize
  <2>1. ncmds \in 0..Len(file.cmds) /\ Len(file.cmds) \in Nat
    BY <1>1, <1>2
  <2>2. SizesOf(file)[ncmds] \in Nat
    BY <1>1, <2>1, SizesOfIs
  <2>3. HeaderSize + SizesOf(file)[ncmds] <= file.fsize /\ file.fsize < U32
    BY <1>4 DEF Fine
  <2>4. HeaderSize \in Nat
    BY <1>1, BoundIs
  <2>5. HeaderSize <= file.fsize
    <3>1. PICK t \in Nat : t = SizesOf(file)[ncmds]
      BY <2>2
    <3> QED BY <1>1, <2>3, <2>4, <3>1
  <2> QED BY <1>1, <2>3, <2>4, <2>5, BoundIs
<1>8. SizesOf(file)[j + 1] = SizesOf(file)[j] + Here.cmdsize
  <2>1. PICK n \in 1..Len(file.cmds) : n = j + 1 /\ n - 1 = j
    BY <1>1, <1>2
  <2> QED BY <1>1, <2>1, SizesOfIs DEF Here
<1>9. Offset[ncmds] <= file.fsize
  BY DEF Fine
<1>10. /\ SizesOf(file)[j + 1] < U32 /\ SizesOf(file)[j] < sizeofcmds
       /\ Offset[j] < file.fsize /\ Offset[j] + Here.cmdsize <= file.fsize
  <2>1. /\ SizesOf(file)[ncmds] < U32 /\ HeaderSize + SizesOf(file)[ncmds] <= file.fsize
        /\ SizesOf(file)[ncmds] \in Nat
    <3>1. file.sizeofcmds < U32 /\ file.sizeofcmds \in Nat
      BY <1>1
    <3> QED BY <1>3, <1>4, <1>5, <1>9, <3>1
  <2>2. /\ SizesOf(file)[j + 1] < U32
        /\ SizesOf(file)[j] < file.fsize - HeaderSize
        /\ HeaderSize + SizesOf(file)[j] < file.fsize
        /\ HeaderSize + SizesOf(file)[j] + Here.cmdsize <= file.fsize
    <3> DEFINE a == SizesOf(file)[j]
               b == SizesOf(file)[j + 1]
               t == SizesOf(file)[ncmds]
               c == Here.cmdsize
               fsize == file.fsize
    <3>1. /\ a \in Nat /\ b \in Nat /\ t \in Nat /\ c \in Nat /\ fsize \in Nat
          /\ HeaderSize \in Nat /\ U32 \in Nat /\ b = a + c /\ b <= t /\ t < U32
          /\ HeaderSize + t <= fsize /\ c > 0
      BY <1>1, <1>2, <1>3, <1>6, <1>7, <1>8, <2>1
    <3> HIDE DEF a, b, t, c, fsize
    <3>2. b < U32 /\ a < fsize - HeaderSize /\ HeaderSize + a < fsize
          /\ HeaderSize + a + c <= fsize
      BY <3>1
    <3> QED BY <3>2 DEF a, b, c, fsize
  <2> QED BY <1>4, <1>7, <2>2
<1>11. Here.cmd \in SegmentCmds => Readable(Here, Offset[j]) = 1..Len(Here.sects)
  BY <1>1, <1>2, <1>6, <1>7, <1>10, ReadableIs
<1> QED BY <1>3, <1>6, <1>8, <1>10, <1>11

HitsIn(T, l) == {n \in 1..Len(T) : Matches(T[n], l)}
First(T, l)  == IF HitsIn(T, l) = {} THEN << >>
                ELSE T[CHOOSE n \in HitsIn(T, l) : \A m \in HitsIn(T, l) : n <= m]

\* No section the walk has passed has the wanted name, and what was found so
\* far is what the section table names first.
Searched ==
  Fine =>
    /\ pc \in {"print", "dump"} => ttSize = SizesOf(file)[j]
    /\ pc = "print" /\ jobs # << >> =>
         \A n \in 1..Len(SectionsOf(file)[j]) : n \notin HitsIn(AllSections, Letter)
    /\ pc = "dump" => dump.sect = First(AllSections, Letter)
    /\ \A l \in DOMAIN found : found[l] = First(AllSections, l)

LEMMA FirstIs ==
  ASSUME NEW T, NEW l, NEW n \in HitsIn(T, l), \A m \in HitsIn(T, l) : n <= m
  PROVE  First(T, l) = T[n]
<1> DEFINE H == HitsIn(T, l)
           x == CHOOSE k \in H : \A m \in H : k <= m
<1>1. H \subseteq Nat /\ n \in H
  BY DEF HitsIn
<1>2. x \in H /\ \A m \in H : x <= m
  <2> HIDE DEF H
  <2>1. \A m \in H : n <= m
    BY DEF H
  <2> QED BY <1>1, <2>1, Zenon
<1>3. x = n
  <2>1. x <= n /\ n <= x /\ x \in Nat /\ n \in Nat
    BY <1>1, <1>2
  <2> HIDE DEF x
  <2> QED BY <2>1
<1>4. First(T, l) = T[x]
  <2>1. HitsIn(T, l) # {}
    BY <1>1
  <2> QED BY <2>1, Zenon DEF First
<1> QED BY <1>3, <1>4

LEMMA AllSectionsType == file \in File => AllSections \in Seq(Section)
<1> SUFFICES ASSUME file \in File PROVE AllSections \in Seq(Section)
  OBVIOUS
<1>1. PICK n \in 0..Len(file.cmds) : n = ncmds
  BY CommandsOf DEF ncmds
<1> QED BY <1>1, SectionsOfIs DEF AllSections

\* The sections with the wanted name among those of one more command.
LEMMA OneMoreSearch ==
  ASSUME OBase, Fine, j < ncmds,
         \A n \in 1..Len(SectionsOf(file)[j]) : n \notin HitsIn(AllSections, Letter)
  PROVE  /\ Hits(Here, Offset[j]) = {} =>
              \A n \in 1..Len(SectionsOf(file)[j + 1]) : n \notin HitsIn(AllSections, Letter)
         /\ Hits(Here, Offset[j]) # {} =>
              LET n == Len(SectionsOf(file)[j]) + HitNumber
              IN  n \in HitsIn(AllSections, Letter) /\ \A m \in HitsIn(AllSections, Letter) : n <= m
<1> DEFINE a == SectionsOf(file)[j]
           all == AllSections
<1>1. /\ file \in File /\ j \in 0..ncmds
  BY DEF OBase
<1>2. /\ a \in Seq(Section) /\ Here.sects \in Seq(Section)
      /\ SectionsOf(file)[j + 1] = a \o Added(Here)
  BY <1>1, OneMoreCommand DEF Here
<1>3. Len(a) \in Nat /\ Len(Here.sects) \in Nat
  BY <1>2
<1>4. ASSUME Here.cmd \in SegmentCmds
      PROVE  /\ \A q \in 1..Len(Here.sects) :
                  /\ Len(a) + q \in 1..Len(all) /\ all[Len(a) + q] = Here.sects[q]
                  /\ Len(a) + q \in HitsIn(AllSections, Letter) <=> q \in Hits(Here, Offset[j])
             /\ Added(Here) = Here.sects
  <2>1. ASSUME NEW q \in 1..Len(Here.sects)
        PROVE  Len(a) + q \in 1..Len(all) /\ all[Len(a) + q] = Here.sects[q]
    BY <1>4, EntryIs
  <2>2. Readable(Here, Offset[j]) = 1..Len(Here.sects)
    BY <1>4, FineIs
  <2>3. Hits(Here, Offset[j]) =
          {q \in 1..Len(Here.sects) : Matches(Here.sects[q], Letter)}
    BY <1>4, <2>2 DEF Hits
  <2>4. ASSUME NEW q \in 1..Len(Here.sects)
        PROVE  Len(a) + q \in HitsIn(AllSections, Letter) <=> q \in Hits(Here, Offset[j])
    <3> HIDE DEF a
    <3> QED BY <2>1, <2>3 DEF HitsIn
  <2> QED BY <1>4, <2>1, <2>4 DEF Added
<1>5. ASSUME Hits(Here, Offset[j]) = {}, NEW n \in 1..Len(SectionsOf(file)[j + 1])
      PROVE  n \notin HitsIn(AllSections, Letter)
  <2>1. CASE n \in 1..Len(a)
    BY <2>1
  <2>2. CASE n \notin 1..Len(a)
    <3>1. Here.cmd \in SegmentCmds
      <4>1. ASSUME Here.cmd \notin SegmentCmds PROVE FALSE
        <5>1. Added(Here) = << >>
          BY <4>1 DEF Added
        <5> HIDE DEF a
        <5>2. SectionsOf(file)[j + 1] = a
          BY <1>2, <5>1
        <5> QED BY <1>5, <2>2, <5>2
      <4> QED BY <4>1
    <3>2. PICK q \in 1..Len(Here.sects) : n = Len(a) + q
      <4> HIDE DEF a
      <4>1. Len(a \o Here.sects) = Len(a) + Len(Here.sects)
        BY <1>2
      <4>2. n \in 1..(Len(a) + Len(Here.sects))
        BY <1>2, <1>4, <1>5, <3>1, <4>1
      <4>3. n - Len(a) \in 1..Len(Here.sects) /\ n = Len(a) + (n - Len(a))
        BY <1>3, <2>2, <4>2
      <4> QED BY <4>3
    <3>3. q \notin Hits(Here, Offset[j])
      BY <1>5
    <3> QED BY <1>4, <3>1, <3>2, <3>3
  <2> QED BY <2>1, <2>2
<1>6. ASSUME Hits(Here, Offset[j]) # {}
      PROVE  LET n == Len(a) + HitNumber
             IN  n \in HitsIn(AllSections, Letter) /\ \A m \in HitsIn(AllSections, Letter) : n <= m
  <2>1. /\ HitNumber \in Hits(Here, Offset[j]) /\ HitNumber \in 1..Len(Here.sects)
        /\ Here.cmd \in SegmentCmds
        /\ \A p \in Hits(Here, Offset[j]) : HitNumber <= p
    BY <1>6, HitIs
  <2>2. Len(a) + HitNumber \in HitsIn(AllSections, Letter)
    BY <1>4, <2>1
  <2>3. ASSUME NEW m \in HitsIn(AllSections, Letter), m < Len(a) + HitNumber PROVE FALSE
    <3>1. m \in Nat \ {0}
      BY DEF HitsIn
    <3>2. m \notin 1..Len(a)
      OBVIOUS
    <3> HIDE DEF a
    <3>3. m - Len(a) \in 1..Len(Here.sects) /\ m = Len(a) + (m - Len(a))
          /\ m - Len(a) < HitNumber
      BY <1>3, <2>1, <2>3, <3>1, <3>2
    <3>4. PICK q \in 1..Len(Here.sects) : m = Len(a) + q /\ q < HitNumber
      BY <3>3
    <3>5. q \in Hits(Here, Offset[j])
      BY <1>4, <2>1, <3>4
    <3> QED BY <2>1, <3>4, <3>5
  <2>4. \A m \in HitsIn(AllSections, Letter) : m \in Nat
    BY DEF HitsIn
  <2> HIDE DEF a
  <2> QED BY <1>3, <2>1, <2>2, <2>3, <2>4
<1> QED BY <1>5, <1>6

LEMMA SearchedInit == OInit => Searched
<1> SUFFICES ASSUME OInit, Fine PROVE found = << >> /\ pc = "check"
  BY DEF Searched
<1> QED BY DEF OInit, Init

LEMMA SearchedStep ==
  OBase /\ DumpType /\ Counted /\ Searched /\ [ONext]_ovars => Searched'
<1> SUFFICES ASSUME OBase, DumpType, Counted, Searched, [ONext]_ovars PROVE Searched'
  OBVIOUS
<1> DEFINE all == AllSections
<1> SUFFICES ASSUME Fine
             PROVE  /\ pc' \in {"print", "dump"} => ttSize' = SizesOf(file)[j']
                    /\ pc' = "print" /\ jobs' # << >> =>
                         \A n \in 1..Len(SectionsOf(file)[j']) : n \notin HitsIn(all, Letter')
                    /\ pc' = "dump" => dump'.sect = First(all, Letter')
                    /\ \A l \in DOMAIN found' : found'[l] = First(all, l)
  <2>1. file' = file
    BY OMoves
  <2>2. ncmds' = ncmds /\ HeaderSize' = HeaderSize
    BY <2>1 DEF ncmds, HeaderSize
  <2>3. Offset' = Offset
    BY <2>1, <2>2, Zenon DEF Offset
  <2>4. Fine' = Fine
    BY <2>1, <2>2, <2>3 DEF Fine, AllKnown
  <2>5. AllSections' = AllSections
    BY <2>1, <2>2 DEF AllSections
  <2> QED BY <2>1, <2>4, <2>5 DEF Searched
<1>0. /\ SectionsOf(file)[0] = << >> /\ SizesOf(file)[0] = 0
      /\ file \in File /\ j \in 0..ncmds /\ secid \in Nat /\ all \in Seq(Section)
      /\ HeadersFit
  BY SectionsOfIs, SizesOfIs, AllSectionsType, FineFits DEF OBase, Fine
<1>1. CASE SkipCommand
  <2>1. /\ j < ncmds /\ j' = j + 1 /\ pc' = "print" /\ pc = "print" /\ jobs # << >>
        /\ jobs' = jobs /\ found' = found /\ Hits(Here, Offset[j]) = {}
        /\ ttSize' = (ttSize + Here.cmdsize) % U32
    BY <1>1 DEF SkipCommand, Seeking, Here
  <2>2. ttSize' = SizesOf(file)[j + 1]
    <3>1. /\ ttSize + Here.cmdsize = SizesOf(file)[j + 1]
          /\ SizesOf(file)[j + 1] < U32
      BY <2>1, FineIs DEF Searched
    <3>2. SizesOf(file)[j + 1] \in Nat
      <4>1. PICK n \in 0..Len(file.cmds) : n = j + 1
        BY <1>0, <2>1, CommandsOf DEF ncmds
      <4> QED BY <1>0, <4>1, SizesOfIs
    <3> DEFINE b == SizesOf(file)[j + 1]
    <3>3. ttSize' = b % U32 /\ b \in Nat /\ b < U32
      BY <2>1, <3>1, <3>2
    <3> HIDE DEF b
    <3>4. ttSize' = b
      BY <3>3, WordAssumption
    <3> QED BY <3>4 DEF b
  <2>3. \A n \in 1..Len(SectionsOf(file)[j + 1]) : n \notin HitsIn(all, Letter)
    BY <2>1, OneMoreSearch DEF Searched
  <2> QED BY <2>1, <2>2, <2>3 DEF Letter, Searched
<1>2. CASE HitSection
  <2>1. /\ pc = "print" /\ j < ncmds /\ Hits(Here, Offset[j]) # {} /\ jobs' = jobs
        /\ jobs # << >> /\ j' = j /\ ttSize' = ttSize /\ found' = found
    BY <1>2 DEF HitSection, Seeking, Here
  <2>2. secid = Len(SectionsOf(file)[j])
    <3>1. Offset[j] < Bound /\ Offset[j] \in Nat /\ Bound \in Nat
      BY <1>0, <2>1, HitIs, OneMoreCommand, BoundIs
    <3> QED BY <1>0, <2>1, <3>1 DEF Counted, Fine
  <2>3. pc' = "dump" /\ secid' = secid + HitNumber /\ dump'.sect = all[secid']
    BY <1>2, <2>2, HitPrints DEF Fine
  <2>4. secid' \in HitsIn(all, Letter) /\ \A m \in HitsIn(all, Letter) : secid' <= m
    BY <2>1, <2>2, <2>3, OneMoreSearch DEF Searched
  <2>5. First(all, Letter) = all[secid']
    BY <2>4, FirstIs
  <2> QED BY <2>1, <2>3, <2>5 DEF Letter, Searched
<1>3. CASE NotFound \/ EndDump
  <2>1. \E result :
          /\ result = First(all, Letter)
          /\ found' = [l \in DOMAIN found \cup {Letter} |->
                         IF l = Letter THEN result ELSE found[l]]
    <3>1. CASE NotFound
      <4>1. /\ pc = "print" /\ jobs # << >>
            /\ (j < ncmds /\ ttSize < sizeofcmds => Here.cmdsize = 0)
            /\ found' = [l \in DOMAIN found \cup {Letter} |->
                           IF l = Letter THEN << >> ELSE found[l]]
        BY <3>1 DEF NotFound, NextJob, Seeking, Here
      <4>2. j = ncmds
        <5>1. ASSUME j < ncmds PROVE FALSE
          BY <4>1, <5>1, FineIs DEF Searched
        <5> QED BY <1>0, <5>1, CommandsOf DEF ncmds
      <4>3. HitsIn(all, Letter) = {}
        <5>1. \A n \in 1..Len(all) : n \notin HitsIn(all, Letter)
          BY <4>1, <4>2 DEF Searched, AllSections
        <5> QED BY <5>1 DEF HitsIn
      <4> QED BY <4>1, <4>3 DEF First
    <3>2. CASE EndDump
      <4>1. /\ pc = "dump"
            /\ found' = [l \in DOMAIN found \cup {Letter} |->
                           IF l = Letter THEN dump.sect ELSE found[l]]
        BY <3>2 DEF EndDump, NextJob
      <4> QED BY <4>1 DEF Searched
    <3> QED BY <1>3, <3>1, <3>2
  <2>2. \A l \in DOMAIN found' : found'[l] = First(all, l)
    BY <2>1 DEF Searched
  <2>3. pc' = "print" /\ ttSize' = 0 /\ j' = 0
    BY <1>3 DEF NotFound, EndDump, NextJob, Seeking
  <2> QED BY <1>0, <2>2, <2>3
<1>4. CASE PrintRow
  <2>1. /\ pc = "dump" /\ pc' = "dump" /\ jobs' = jobs /\ found' = found
        /\ ttSize' = ttSize /\ j' = j
        /\ dump' = [dump EXCEPT !.offset = @ + 16, !.addr = @ + 16, !.size = @ - 16]
    BY <1>4 DEF PrintRow, walk
  <2>2. dump'.sect = dump.sect
    BY <2>1 DEF DumpType
  <2> QED BY <2>1, <2>2 DEF Searched, Letter
<1>5. CASE WalkStep
  <2>1. /\ pc' \in {"check", "handle", "symbols", "print", "rejected"}
        /\ j' = j /\ ttSize' = ttSize /\ found' = found
        /\ pc \in {"check", "handle", "symbols"}
    BY <1>5 DEF WalkStep, walk, Walk, Skip, SkipCheck, CheckCommand, EndCheck,
         HandleSegment, HandleSymtab, HandleSymbol, EndSymtab, HandleOther, EndHandle
  <2>2. ttSize = 0 /\ j = 0
    BY <2>1 DEF OBase
  <2> QED BY <1>0, <2>1, <2>2 DEF Searched
<1>6. CASE UNCHANGED ovars
  BY <1>6 DEF ovars, vars, walk, Searched, Letter
<1> QED BY <1>1, <1>2, <1>3, <1>4, <1>5, <1>6 DEF ONext, Printing

LEMMA SearchedFinds == OBase /\ Searched => FirstOfItsName
<1> SUFFICES ASSUME OBase, Searched, Fine, NEW l \in DOMAIN found
             PROVE  found[l] = LET hits == {n \in 1..Len(AllSections) :
                                              Matches(AllSections[n], l)}
                               IN  IF hits = {} THEN << >>
                                   ELSE AllSections[CHOOSE n \in hits : \A m \in hits : n <= m]
  BY DEF FirstOfItsName, Fine
<1> QED BY DEF Searched, First, HitsIn

\* Of every well-formed image with its headers in the file and no unknown
\* command, otool prints the first section of the wanted name, for each of the
\* sections asked for (print_otool_section starts its walk anew for each).
THEOREM FirstAlwaysFound == OSpec => []FirstOfItsName
<1>1. OInit => OBase /\ DumpType /\ Counted /\ Searched
  BY OBaseInit, CountedInit, SearchedInit
<1>2. OBase /\ DumpType /\ Counted /\ Searched /\ [ONext]_ovars
        => (OBase /\ DumpType /\ Counted /\ Searched)'
  BY OBaseStep, DumpTypeStep, CountedStep, SearchedStep
<1> QED BY <1>1, <1>2, SearchedFinds, PTL DEF OSpec

-----------------------------------------------------------------------------
(* The rows printed of a section *)

\* Row r is the next sixteen bytes, its groups begin in what is printed of the
\* section and in the file, and the last byte of both that falls in the row
\* falls in a group.
RowOK(row, r, s, f, u) ==
  LET left == Extent(s, f) - 16 * (r - 1) IN
  /\ row.offset = s.offset + 16 * (r - 1)
  /\ row.addr = s.addr + 16 * (r - 1)
  /\ row.n \in Nat \ {0}
  /\ (row.n - 1) * u < left /\ row.offset + (row.n - 1) * u < f.fsize
  /\ \A g \in 0..15 : g < left /\ row.offset + g < f.fsize => g < row.n * u

RowsOK(R, d, f, u) ==
  /\ R \in Seq([addr : Nat, offset : Nat, n : Nat])
  /\ d.sect \in Section
  /\ d.offset = d.sect.offset + 16 * Len(R)
  /\ d.addr = d.sect.addr + 16 * Len(R)
  /\ d.size = Extent(d.sect, f) - 16 * Len(R)
  /\ \A r \in 1..Len(R) : RowOK(R[r], r, d.sect, f, u)

Printed == pc = "dump" => RowsOK(rows, dump, file, unit)

\* A set counted by 1..k has k elements.
LEMMA CountedBy ==
  ASSUME NEW k \in Nat, NEW T, NEW f \in [1..k -> T],
         \A x, y \in 1..k : f[x] = f[y] => x = y,
         \A t \in T : \E x \in 1..k : f[x] = t
  PROVE  Cardinality(T) = k
<1> DEFINE K == 1..k
<1>1. IsFiniteSet(K) /\ Cardinality(K) = k
  BY FS_Interval
<1>2. f \in Bijection(K, T)
  BY DEF Bijection, Injection, Surjection, IsInjective
<1>3. ExistsBijection(K, T)
  BY <1>2 DEF ExistsBijection
<1> HIDE DEF K
<1>4. Cardinality(T) = Cardinality(K)
  BY <1>1, <1>3, FS_Bijection
<1> QED BY <1>1, <1>4

\* Among the first m bytes of a row, those where a group begins.
LEMMA GroupStarts ==
  ASSUME NEW u \in {1, 2, 4}, NEW m \in 1..16
  PROVE  LET k == Cardinality({g \in 0..(m - 1) : g % u = 0})
         IN  k \in Nat \ {0} /\ (k - 1) * u < m /\ m <= k * u
<1> DEFINE T == {g \in 0..(m - 1) : g % u = 0}
<1>1. CASE u = 1
  <2> DEFINE f == [x \in 1..m |-> x - 1]
  <2>1. f \in [1..m -> T] /\ \A x, y \in 1..m : f[x] = f[y] => x = y
    BY <1>1
  <2>2. ASSUME NEW t \in T PROVE \E x \in 1..m : f[x] = t
    <3>1. t + 1 \in 1..m /\ f[t + 1] = t
      OBVIOUS
    <3> QED BY <3>1
  <2> HIDE DEF f, T
  <2>3. Cardinality(T) = m
    BY <2>1, <2>2, CountedBy
  <2> QED BY <1>1, <2>3 DEF T
<1>2. CASE u = 2
  <2>1. PICK k \in Nat \ {0} : (k - 1) * 2 < m /\ m <= k * 2
    <3>1. (m + 1) \div 2 \in Nat \ {0}
      OBVIOUS
    <3>2. ((m + 1) \div 2 - 1) * 2 < m /\ m <= ((m + 1) \div 2) * 2
      OBVIOUS
    <3> QED BY <3>1, <3>2
  <2> DEFINE f == [x \in 1..k |-> (x - 1) * 2]
  <2>2. f \in [1..k -> T]
    <3>1. ASSUME NEW x \in 1..k PROVE (x - 1) * 2 \in 0..(m - 1) /\ ((x - 1) * 2) % 2 = 0
      BY <2>1
    <3> QED BY <1>2, <3>1
  <2>3. \A x, y \in 1..k : f[x] = f[y] => x = y
    OBVIOUS
  <2>4. ASSUME NEW t \in T PROVE \E x \in 1..k : f[x] = t
    <3>1. t \in Nat /\ t < m /\ t % 2 = 0
      BY <1>2
    <3>2. t = (t \div 2) * 2 /\ t \div 2 \in Nat
      BY <3>1
    <3>3. PICK x \in Nat : x = t \div 2 /\ t = x * 2
      BY <3>2
    <3>4. x + 1 \in 1..k /\ f[x + 1] = t
      BY <2>1, <3>1, <3>3
    <3> QED BY <3>4
  <2> HIDE DEF f, T
  <2>5. Cardinality(T) = k
    BY <2>2, <2>3, <2>4, CountedBy
  <2> QED BY <1>2, <2>1, <2>5 DEF T
<1>3. CASE u = 4
  <2>1. PICK k \in Nat \ {0} : (k - 1) * 4 < m /\ m <= k * 4
    <3>1. (m + 3) \div 4 \in Nat \ {0}
      OBVIOUS
    <3>2. ((m + 3) \div 4 - 1) * 4 < m /\ m <= ((m + 3) \div 4) * 4
      OBVIOUS
    <3> QED BY <3>1, <3>2
  <2> DEFINE f == [x \in 1..k |-> (x - 1) * 4]
  <2>2. f \in [1..k -> T]
    <3>1. ASSUME NEW x \in 1..k PROVE (x - 1) * 4 \in 0..(m - 1) /\ ((x - 1) * 4) % 4 = 0
      BY <2>1
    <3> QED BY <1>3, <3>1
  <2>3. \A x, y \in 1..k : f[x] = f[y] => x = y
    OBVIOUS
  <2>4. ASSUME NEW t \in T PROVE \E x \in 1..k : f[x] = t
    <3>1. t \in Nat /\ t < m /\ t % 4 = 0
      BY <1>3
    <3>2. t = (t \div 4) * 4 /\ t \div 4 \in Nat
      BY <3>1
    <3>3. PICK x \in Nat : x = t \div 4 /\ t = x * 4
      BY <3>2
    <3>4. x + 1 \in 1..k /\ f[x + 1] = t
      BY <2>1, <3>1, <3>3
    <3> QED BY <3>4
  <2> HIDE DEF f, T
  <2>5. Cardinality(T) = k
    BY <2>2, <2>3, <2>4, CountedBy
  <2> QED BY <1>3, <2>1, <2>5 DEF T
<1> QED BY <1>1, <1>2, <1>3

\* The groups of a row cover the bytes to be printed of it and begin in them.
LEMMA GroupsIs ==
  ASSUME file \in File, unit \in {1, 2, 4}, NEW o \in Nat, NEW size \in Int,
         size > 0, o < file.fsize
  PROVE  LET n == Groups(o, size) IN
         /\ n \in Nat \ {0}
         /\ (n - 1) * unit < size /\ o + (n - 1) * unit < file.fsize
         /\ \A g \in 0..15 : g < size /\ o + g < file.fsize => g < n * unit
<1> DEFINE G == {g \in 0..15 : g % unit = 0 /\ g < size /\ o + g < file.fsize}
<1>1. file.fsize \in Nat
  BY DEF File
<1>2. PICK m \in 1..16 : /\ m <= size /\ o + m <= file.fsize
                         /\ m = 16 \/ m = size \/ o + m = file.fsize
  <2>1. PICK a \in Nat \ {0} : a = size
    OBVIOUS
  <2>2. PICK b \in Nat \ {0} : b = file.fsize - o
    BY <1>1
  <2>3. CASE a <= b /\ a <= 16
    BY <1>1, <2>1, <2>2, <2>3
  <2>4. CASE b <= a /\ b <= 16
    BY <1>1, <2>1, <2>2, <2>4
  <2>5. CASE 16 <= a /\ 16 <= b
    <3>1. 16 \in 1..16 /\ 16 <= size /\ o + 16 <= file.fsize
      BY <1>1, <2>1, <2>2, <2>5
    <3> QED BY <3>1
  <2> QED BY <2>3, <2>4, <2>5
<1>3. G = {g \in 0..(m - 1) : g % unit = 0}
  BY <1>1, <1>2
<1> DEFINE k == Cardinality({g \in 0..(m - 1) : g % unit = 0})
<1>4. k \in Nat \ {0} /\ (k - 1) * unit < m /\ m <= k * unit
  BY GroupStarts
<1>5. Groups(o, size) = k
  BY <1>3 DEF Groups
<1> HIDE DEF k
<1>6. /\ (k - 1) * unit < size /\ o + (k - 1) * unit < file.fsize
      /\ \A g \in 0..15 : g < size /\ o + g < file.fsize => g < k * unit
  <2>1. (k - 1) * unit \in Nat /\ k * unit \in Nat
    BY <1>4
  <2> DEFINE a == (k - 1) * unit
             b == k * unit
  <2>2. a \in Nat /\ b \in Nat /\ a < m /\ m <= b
    BY <1>4, <2>1
  <2> HIDE DEF a, b
  <2>3. /\ a < size /\ o + a < file.fsize
        /\ \A g \in 0..15 : g < size /\ o + g < file.fsize => g < b
    BY <1>1, <1>2, <2>2
  <2> QED BY <2>3 DEF a, b
<1> QED BY <1>4, <1>5, <1>6

LEMMA PrintedStep == OBase /\ DumpType /\ Printed /\ [ONext]_ovars => Printed'
<1> SUFFICES ASSUME OBase, DumpType, Printed, [ONext]_ovars, pc' = "dump"
             PROVE  RowsOK(rows', dump', file, unit)
  <2>1. ASSUME OBase, [ONext]_ovars, pc' = "dump" PROVE file' = file /\ unit' = unit
    <3>1. file' = file
      BY <2>1, OMoves
    <3>2. unit' = unit
      BY <2>1 DEF ONext, WalkStep, Printing, SkipCommand, HitSection, NotFound, PrintRow,
           EndDump, tablesDone, ovars
    <3> QED BY <3>1, <3>2
  <2> QED BY <2>1 DEF Printed
<1>1. CASE HitSection
  <2>1. PICK s \in Section : dump' = [sect |-> s, offset |-> s.offset, addr |-> s.addr,
                                      size |-> Extent(s, file)]
    BY <1>1, HitStarts
  <2>2. rows' = << >>
    BY <1>1 DEF HitSection
  <2>3. s.offset \in Nat /\ s.addr \in Nat /\ s.size \in Nat
    BY DEF Section
  <2>4. Extent(s, file) \in Int
    BY <2>3 DEF Extent, OBase, File
  <2> QED BY <2>1, <2>2, <2>3, <2>4 DEF RowsOK
<1>2. CASE PrintRow
  <2> DEFINE s   == dump.sect
             row == [addr |-> dump.addr, offset |-> dump.offset,
                     n |-> Groups(dump.offset, dump.size)]
             E   == Extent(s, file)
  <2>1. /\ pc = "dump" /\ dump.size > 0 /\ dump.offset < file.fsize
        /\ rows' = Append(rows, row)
        /\ dump' = [dump EXCEPT !.offset = @ + 16, !.addr = @ + 16, !.size = @ - 16]
    BY <1>2 DEF PrintRow
  <2>2. /\ dump'.sect = dump.sect /\ dump'.offset = dump.offset + 16
        /\ dump'.addr = dump.addr + 16 /\ dump'.size = dump.size - 16
    BY <2>1 DEF DumpType
  <2>3. RowsOK(rows, dump, file, unit)
    BY <2>1 DEF Printed
  <2>4. /\ dump.offset \in Nat /\ dump.addr \in Nat /\ dump.size \in Int
        /\ file \in File /\ file.fsize \in Nat /\ unit \in {1, 2, 4}
    BY DEF DumpType, OBase, File
  <2>5. /\ row.n \in Nat \ {0}
        /\ (row.n - 1) * unit < dump.size
        /\ dump.offset + (row.n - 1) * unit < file.fsize
        /\ \A g \in 0..15 : g < dump.size /\ dump.offset + g < file.fsize => g < row.n * unit
    BY <2>1, <2>4, GroupsIs
  <2>6. s \in Section /\ s.offset \in Nat /\ s.addr \in Nat /\ s.size \in Nat
    BY <2>3 DEF RowsOK, Section
  <2>7. E \in Int
    BY <2>4, <2>6 DEF Extent
  <2>8. /\ rows \in Seq([addr : Nat, offset : Nat, n : Nat]) /\ Len(rows) \in Nat
        /\ dump.offset = s.offset + 16 * Len(rows) /\ dump.addr = s.addr + 16 * Len(rows)
        /\ dump.size = E - 16 * Len(rows)
        /\ \A r \in 1..Len(rows) : RowOK(rows[r], r, s, file, unit)
    BY <2>3 DEF RowsOK
  <2>9. row \in [addr : Nat, offset : Nat, n : Nat]
    BY <2>4, <2>5
  <2>10. RowOK(row, Len(rows) + 1, s, file, unit)
    <3>1. Len(rows) + 1 - 1 = Len(rows)
      BY <2>8
    <3>2. row.addr = dump.addr /\ row.offset = dump.offset
      OBVIOUS
    <3> HIDE DEF row, s
    <3> QED BY <2>5, <2>8, <3>1, <3>2 DEF RowOK
  <2> HIDE DEF row, s, E
  <2>11. /\ rows' \in Seq([addr : Nat, offset : Nat, n : Nat]) /\ Len(rows') = Len(rows) + 1
         /\ rows'[Len(rows) + 1] = row /\ \A r \in 1..Len(rows) : rows'[r] = rows[r]
    BY <2>1, <2>8, <2>9
  <2>12. \A r \in 1..Len(rows') : RowOK(rows'[r], r, s, file, unit)
    <3>1. ASSUME NEW r \in 1..Len(rows') PROVE r \in 1..Len(rows) \/ r = Len(rows) + 1
      BY <2>8, <2>11
    <3> QED BY <2>8, <2>10, <2>11, <3>1
  <2>13. /\ dump'.offset = s.offset + 16 * Len(rows') /\ dump'.addr = s.addr + 16 * Len(rows')
         /\ dump'.size = E - 16 * Len(rows')
    <3>1. PICK m \in Nat : m = Len(rows) /\ Len(rows') = m + 1
      BY <2>8, <2>11
    <3>2. /\ dump'.offset = s.offset + 16 * m + 16 /\ dump'.addr = s.addr + 16 * m + 16
          /\ dump'.size = E - 16 * m - 16
      BY <2>2, <2>8, <3>1
    <3> QED BY <2>6, <2>7, <3>1, <3>2
  <2>14. dump'.sect = s
    BY <2>2 DEF s
  <2> QED BY <2>6, <2>11, <2>12, <2>13, <2>14 DEF RowsOK, E
<1>3. CASE NotFound \/ EndDump \/ SkipCommand
  BY <1>3 DEF NotFound, EndDump, SkipCommand, Seeking
<1>4. CASE WalkStep
  BY <1>4 DEF WalkStep, Walk, Skip, SkipCheck, CheckCommand, EndCheck,
       HandleSegment, HandleSymtab, HandleSymbol, EndSymtab, HandleOther, EndHandle
<1>5. CASE UNCHANGED ovars
  BY <1>5 DEF ovars, vars, Printed
<1> QED BY <1>1, <1>2, <1>3, <1>4, <1>5 DEF ONext, Printing

\* Byte d of what is printed lies in a row, at one of its sixteen places.
LEMMA RowOfByte ==
  ASSUME NEW R \in Nat
  PROVE  \A d \in Nat : d < 16 * R => \E r \in 1..R, g \in 0..15 : d = 16 * (r - 1) + g
<1> DEFINE P == {m \in 0..R : \A d \in Nat : d < 16 * m =>
                   \E r \in 1..m, g \in 0..15 : d = 16 * (r - 1) + g}
<1>1. 0 \in P
  OBVIOUS
<1>2. ASSUME NEW m \in 1..R, m - 1 \in P PROVE m \in P
  <2>1. ASSUME NEW d \in Nat, d < 16 * m
        PROVE  \E r \in 1..m, g \in 0..15 : d = 16 * (r - 1) + g
    <3>1. CASE d < 16 * (m - 1)
      <4>1. PICK r \in 1..(m - 1), g \in 0..15 : d = 16 * (r - 1) + g
        BY <1>2, <3>1
      <4>2. r \in 1..m
        OBVIOUS
      <4> QED BY <4>1, <4>2
    <3>2. CASE ~(d < 16 * (m - 1))
      <4>1. d - 16 * (m - 1) \in 0..15 /\ d = 16 * (m - 1) + (d - 16 * (m - 1)) /\ m \in 1..m
        BY <2>1, <3>2
      <4> QED BY <4>1
    <3> QED BY <3>1, <3>2
  <2> QED BY <2>1
<1>3. 0..R \subseteq P
  <2> HIDE DEF P
  <2> QED BY <1>1, <1>2, InductionUpTo
<1>4. R \in P
  <2>1. R \in 0..R
    OBVIOUS
  <2> HIDE DEF P
  <2> QED BY <1>3, <2>1
<1> QED BY <1>4

\* A row begins b bytes into the section, and its last group w bytes further.
LEMMA RowInside ==
  ASSUME NEW start \in Nat, NEW size \in Nat, NEW extent \in Nat,
         NEW b \in Nat, NEW w \in Nat,
         extent <= size, w < extent - b
  PROVE  start + b + w < start + size
  OBVIOUS

LEMMA ByteInside ==
  ASSUME NEW start \in Nat, NEW size \in Nat, NEW fsize \in Nat,
         NEW b \in Nat, NEW g \in Nat, b + g < size, start + size <= fsize
  PROVE  g < size - b /\ start + b + g < fsize /\ start + (b + g) = start + b + g
  OBVIOUS

LEMMA PrintedIsExact == OBase /\ Printed => RowsExact
<1> SUFFICES ASSUME OBase, Printed, pc = "dump" PROVE RowsExact
  BY DEF RowsExact
<1> DEFINE s == dump.sect
           E == Extent(s, file)
           printed == UNION {{rows[r].offset + g : g \in 0..(rows[r].n * unit - 1)}
                               : r \in 1..Len(rows)}
<1>1. RowsOK(rows, dump, file, unit)
  BY DEF Printed
<1>2. /\ s.offset \in Nat /\ s.addr \in Nat /\ s.size \in Nat
      /\ file.fsize \in Nat /\ unit \in {1, 2, 4}
  BY <1>1 DEF RowsOK, Section, OBase, File
<1>3. /\ Len(rows) \in Nat /\ dump.offset = s.offset + 16 * Len(rows)
      /\ dump.size = E - 16 * Len(rows)
      /\ \A r \in 1..Len(rows) : RowOK(rows[r], r, s, file, unit)
  BY <1>1 DEF RowsOK
<1>4. E \in Nat /\ E <= s.size
      /\ (s.offset + s.size <= file.fsize => E = s.size)
  BY <1>2 DEF Extent
<1> HIDE DEF s, E
<1>5. ASSUME NEW r \in 1..Len(rows)
      PROVE  /\ rows[r].addr - rows[r].offset = s.addr - s.offset
             /\ \A g \in 0..(rows[r].n * unit - 1) :
                  /\ rows[r].offset + g \in s.offset..(s.offset + s.size + unit - 2)
                  /\ rows[r].offset + g \in 0..(file.fsize + unit - 2)
  <2>1. PICK b \in Nat : b = 16 * (r - 1)
    BY <1>3
  <2>2. PICK n \in Nat \ {0} : n = rows[r].n
    BY <1>3 DEF RowOK
  <2>3. PICK w \in Nat : w = (n - 1) * unit
    BY <1>2
  <2>4. /\ rows[r].offset = s.offset + b /\ rows[r].addr = s.addr + b
        /\ w < E - b /\ rows[r].offset + w < file.fsize
    BY <1>3, <2>1, <2>2, <2>3 DEF RowOK, E
  <2>5. s.offset + b + w < s.offset + s.size
    BY <1>2, <1>4, <2>4, RowInside
  <2>6. s.addr + b - (s.offset + b) = s.addr - s.offset
    BY <1>2
  <2>7. n * unit = w + unit
    BY <1>2, <2>3
  <2>8. ASSUME NEW g \in 0..(rows[r].n * unit - 1)
        PROVE  /\ rows[r].offset + g \in s.offset..(s.offset + s.size + unit - 2)
               /\ rows[r].offset + g \in 0..(file.fsize + unit - 2)
    <3>1. g \in Nat /\ g < w + unit
      BY <1>2, <2>2, <2>7
    <3>2. PICK start \in Nat, size \in Nat, fsize \in Nat :
            start = s.offset /\ size = s.size /\ fsize = file.fsize
      BY <1>2
    <3>3. PICK o \in Nat : o = rows[r].offset /\ o = start + b
      BY <2>4, <3>2
    <3>4. o + w < fsize /\ o + w < start + size
      BY <2>4, <2>5, <3>2, <3>3
    <3>5. o + g \in start..(start + size + unit - 2) /\ o + g \in 0..(fsize + unit - 2)
      BY <1>2, <3>1, <3>3, <3>4
    <3> QED BY <3>2, <3>3, <3>5
  <2>9. rows[r].addr - rows[r].offset = s.addr - s.offset
    <3>1. PICK a \in Nat : a = rows[r].addr /\ a = s.addr + b
      BY <1>2, <2>4
    <3>2. PICK o \in Nat : o = rows[r].offset /\ o = s.offset + b
      BY <1>2, <2>4
    <3>3. a - o = s.addr - s.offset
      <4>1. PICK addr \in Nat, offset \in Nat : addr = s.addr /\ offset = s.offset
        BY <1>2
      <4>2. a = addr + b /\ o = offset + b
        BY <3>1, <3>2, <4>1
      <4>3. a - o = addr - offset
        BY <4>2
      <4> QED BY <4>1, <4>3
    <3> QED BY <3>1, <3>2, <3>3
  <2> QED BY <2>8, <2>9, Zenon
<1>6. ASSUME ~(dump.size > 0 /\ dump.offset < file.fsize), s.offset + s.size <= file.fsize,
             NEW x \in s.offset..(s.offset + s.size - 1)
      PROVE  x \in printed
  <2>1. PICK d \in Nat : x = s.offset + d /\ d < s.size
    <3>1. x - s.offset \in Nat /\ x - s.offset < s.size /\ x = s.offset + (x - s.offset)
      BY <1>2
    <3> QED BY <3>1
  <2>2. d < 16 * Len(rows) /\ E = s.size
    <3>1. E = s.size
      BY <1>4, <1>6
    <3>2. PICK m \in Nat : m = 16 * Len(rows)
      BY <1>3
    <3>3. dump.offset = s.offset + m /\ dump.size = s.size - m
      BY <1>3, <3>1, <3>2
    <3>4. s.size <= m \/ s.offset + m >= file.fsize
      BY <1>2, <1>6, <3>3
    <3>5. s.size <= m
      BY <1>2, <1>6, <3>4
    <3> QED BY <1>2, <2>1, <3>1, <3>2, <3>5
  <2>3. PICK r \in 1..Len(rows), g \in 0..15 : d = 16 * (r - 1) + g
    BY <1>3, <2>2, RowOfByte
  <2> DEFINE b == 16 * (r - 1)
  <2>4. b \in Nat /\ d = b + g
    BY <1>3, <2>3
  <2>5. /\ rows[r].offset = s.offset + b /\ rows[r].n \in Nat
        /\ g < E - b /\ rows[r].offset + g < file.fsize => g < rows[r].n * unit
    BY <1>3 DEF RowOK, E
  <2> HIDE DEF b
  <2>6. g < E - b /\ rows[r].offset + g < file.fsize /\ x = rows[r].offset + g
    <3>1. PICK o \in Nat : o = rows[r].offset /\ o = s.offset + b
      BY <1>2, <2>4, <2>5
    <3>2. b + g < s.size /\ x = s.offset + (b + g)
      BY <2>1, <2>4
    <3>3. g < s.size - b /\ s.offset + b + g < file.fsize
          /\ s.offset + (b + g) = s.offset + b + g
      <4>1. s.offset + s.size <= file.fsize
        BY <1>6
      <4>2. g \in Nat
        BY <2>3
      <4>3. PICK start \in Nat : start = s.offset
        BY <1>2
      <4>4. PICK size \in Nat : size = s.size
        BY <1>2
      <4>5. PICK fsize \in Nat : fsize = file.fsize
        BY <1>2
      <4>6. b + g < size /\ start + size <= fsize
        BY <3>2, <4>1, <4>3, <4>4, <4>5
      <4>7. g < size - b /\ start + b + g < fsize /\ start + (b + g) = start + b + g
        BY <2>4, <4>2, <4>6
      <4> QED BY <4>3, <4>4, <4>5, <4>7
    <3> QED BY <2>2, <3>1, <3>2, <3>3
  <2>7. g \in 0..(rows[r].n * unit - 1)
    <3>1. PICK n \in Nat : n = rows[r].n
      BY <2>5
    <3>2. n * unit \in Nat
      BY <1>2
    <3>3. g < n * unit
      BY <2>5, <2>6, <3>1
    <3>4. g \in 0..(n * unit - 1)
      BY <3>2, <3>3
    <3> QED BY <3>1, <3>4
  <2>8. x \in {rows[r].offset + h : h \in 0..(rows[r].n * unit - 1)}
    BY <2>6, <2>7
  <2> QED BY <2>8
<1>7. /\ printed \subseteq s.offset..(s.offset + s.size + unit - 2)
      /\ printed \subseteq 0..(file.fsize + unit - 2)
  BY <1>5
<1> HIDE DEF printed
<1>8. /\ \A r \in 1..Len(rows) : rows[r].addr - rows[r].offset = s.addr - s.offset
      /\ printed \subseteq s.offset..(s.offset + s.size + unit - 2)
      /\ printed \subseteq 0..(file.fsize + unit - 2)
      /\ ~(dump.size > 0 /\ dump.offset < file.fsize) /\ s.offset + s.size <= file.fsize
         => s.offset..(s.offset + s.size - 1) \subseteq printed
  BY <1>5, <1>6, <1>7
<1> QED BY <1>8, Zenon DEF RowsExact, printed, s

\* print_memory prints every byte of a section that lies inside the file, none
\* in front of it, and behind its end or the end of the file no more than the
\* rest of a group that begins inside both: for every image, every section and
\* groups of one, two and four bytes.
THEOREM RowsAlwaysExact == OSpec => []RowsExact
<1>1. OInit => OBase /\ DumpType /\ Printed
  <2>1. OInit => Printed
    BY DEF OInit, Init, Printed
  <2> QED BY <2>1, OBaseInit, CountedInit
<1>2. OBase /\ DumpType /\ Printed /\ [ONext]_ovars => (OBase /\ DumpType /\ Printed)'
  BY OBaseStep, DumpTypeStep, PrintedStep
<1> QED BY <1>1, <1>2, PrintedIsExact, PTL DEF OSpec

=============================================================================
