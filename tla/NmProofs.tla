------------------------------ MODULE NmProofs ------------------------------
(***************************************************************************)
(* Proofs about nm on one image, for every image and every setting of the  *)
(* options: it implements the one-step listing of NmListing, its letters   *)
(* are final, and it shows the start of a section.                         *)
(***************************************************************************)
EXTENDS Nm, MachOProofs

-----------------------------------------------------------------------------
(* The definitions both specifications take from MachOFile are the same. *)

LEMMA SameCmds == Listing!Cmds = Cmds
BY DEF Listing!Cmds, Cmds, Listing!CheckedCmds, CheckedCmds,
       Listing!HandledCmds, HandledCmds

LEMMA SameTypes == Listing!File = File /\ Listing!Option = Option
BY SameCmds
   DEF Listing!File, File, Listing!LoadCommand, LoadCommand,
       Listing!Section, Section, Listing!Nlist, Nlist, Listing!TypeBits, TypeBits,
       Listing!Name, Name, Listing!Option, Option, Listing!Flags, Flags

LEMMA SameSections == ASSUME NEW f PROVE Listing!SectionsOf(f) = SectionsOf(f)
BY DEF Listing!SectionsOf, SectionsOf, Listing!SegmentCmds, SegmentCmds

LEMMA SameWellFormed == ASSUME NEW f PROVE Listing!WellFormed(f) <=> WellFormed(f)
BY DEF Listing!WellFormed, WellFormed, Listing!WellFormedCommand, WellFormedCommand,
       Listing!TotalSize, TotalSize, Listing!SizesOf, SizesOf,
       Listing!SegmentCmds, SegmentCmds, Listing!SegmentInside, SegmentInside,
       Listing!SymbolTableInside, SymbolTableInside,
       Listing!StringTableInside, StringTableInside,
       Listing!SymtabCommandSize, SymtabCommandSize, Listing!SectionSize, SectionSize,
       Listing!SegmentSize, SegmentSize, Listing!SymtabEnd, SymtabEnd,
       Listing!NlistSize, NlistSize

LEMMA SameLetters ==
  ASSUME NEW s, NEW t PROVE Listing!GetSymbol(s, t) = GetSymbol(s, t)
BY DEF Listing!GetSymbol, GetSymbol, Listing!SectionLetter, SectionLetter,
       Listing!Lower, Lower, Listing!Resolves, Resolves

LEMMA SameNames ==
  ASSUME NEW s, NEW a, NEW b, NEW c
  PROVE  /\ Listing!NameOf(s, a, b, c) = NameOf(s, a, b, c)
         /\ Listing!IndrOf(s, a, b) = IndrOf(s, a, b)
BY DEF Listing!NameOf, NameOf, Listing!IndrOf, IndrOf, Listing!EmptyName, EmptyName,
       Listing!BadIndex, BadIndex, Listing!NoString, NoString

LEMMA SameOrder ==
  ASSUME NEW a, NEW b, NEW o PROVE Listing!ListedLeq(a, b, o) = ListedLeq(a, b, o)
BY DEF Listing!ListedLeq, ListedLeq, Listing!NumLeq, NumLeq, Listing!AlphLeq, AlphLeq

-----------------------------------------------------------------------------
(* The filter *)

\* Two letters say what kind of symbol they stand for.
LEMMA LetterMeans ==
  ASSUME NEW sym \in Nlist, NEW secs
  PROVE  /\ GetSymbol(sym, secs) = "-" <=> sym.stab
         /\ GetSymbol(sym, secs) = "U" <=>
              /\ ~sym.stab /\ sym.ext
              /\ sym.type = "PBUD" \/ (sym.type = "UNDF" /\ sym.value = 0)
<1> DEFINE upper == CASE sym.stab          -> "-"
                 [] ~sym.stab /\ sym.type = "UNDF" -> IF sym.value # 0 THEN "C" ELSE "U"
                 [] ~sym.stab /\ sym.type = "ABS"  -> "A"
                 [] ~sym.stab /\ sym.type = "SECT" -> SectionLetter(sym.sect, secs)
                 [] ~sym.stab /\ sym.type = "INDR" -> "I"
                 [] ~sym.stab /\ sym.type = "PBUD" -> "U"
                 [] ~sym.stab /\ sym.type = "OTHER" -> "?"
<1>1. sym.type \in TypeBits /\ sym.stab \in BOOLEAN /\ sym.ext \in BOOLEAN
  BY DEF Nlist
<1>2. SectionLetter(sym.sect, secs) \in {"T", "D", "B", "S"}
  BY DEF SectionLetter
<1>3. GetSymbol(sym, secs) = IF upper \in {"?", "-"} \/ sym.ext THEN upper ELSE Lower[upper]
  BY DEF GetSymbol
<1>4. CASE sym.stab
  <2>1. upper = "-"
    BY <1>4
  <2> HIDE DEF upper
  <2> QED BY <1>3, <1>4, <2>1
<1>5. CASE ~sym.stab /\ sym.type = "UNDF"
  <2>1. upper = IF sym.value # 0 THEN "C" ELSE "U"
    BY <1>5
  <2> HIDE DEF upper
  <2> QED BY <1>1, <1>3, <1>5, <2>1 DEF Lower
<1>6. CASE ~sym.stab /\ sym.type = "PBUD"
  <2>1. upper = "U"
    BY <1>6
  <2> HIDE DEF upper
  <2> QED BY <1>1, <1>3, <1>6, <2>1 DEF Lower
<1>7. CASE ~sym.stab /\ sym.type \in {"ABS", "SECT", "INDR", "OTHER"}
  <2>1. upper \in {"A", "T", "D", "B", "S", "I", "?"}
    BY <1>2, <1>7
  <2> HIDE DEF upper
  <2> QED BY <1>1, <1>3, <1>7, <2>1 DEF Lower
<1> QED BY <1>1, <1>4, <1>5, <1>6, <1>7 DEF TypeBits

LEMMA SameSection ==
  ASSUME NEW sym \in Nlist, NEW secs \in Seq(Section), NEW o
  PROVE  SectionSelected(sym, secs, o) <=> Listing!InSection(sym, secs, o)
<1>1. sym.sect \in Nat /\ Len(secs) \in Nat
  BY ByteAssumption DEF Nlist
<1>2. Resolves(sym.sect, secs) <=> sym.sect \in 1..Len(secs)
  BY <1>1 DEF Resolves
<1> QED BY <1>2 DEF SectionSelected, Listing!InSection

\* The five conditions of the code, stated with letters, select the kinds of
\* symbols the listing promises.
LEMMA KeptIsSelected ==
  ASSUME NEW sym \in Nlist, NEW secs \in Seq(Section), NEW o
  PROVE  Kept(sym, GetSymbol(sym, secs), secs, o) <=> Listing!Selects(sym, secs, o)
<1> DEFINE letter == GetSymbol(sym, secs)
<1>1. /\ letter = "-" <=> sym.stab
      /\ letter = "U" <=> /\ ~sym.stab /\ sym.ext
                          /\ sym.type = "PBUD" \/ (sym.type = "UNDF" /\ sym.value = 0)
  BY LetterMeans
<1>2. letter = "U" /\ ~sym.stab /\ ~sym.pext <=> Listing!Undefined(sym)
  BY <1>1 DEF Listing!Undefined
<1>3. SectionSelected(sym, secs, o) <=> Listing!InSection(sym, secs, o)
  BY SameSection
<1> HIDE DEF letter
<1>4. Kept(sym, letter, secs, o) <=> Listing!Selects(sym, secs, o)
  BY <1>1, <1>2, <1>3, Zenon DEF Kept, Listing!Selects
<1> QED BY <1>4 DEF letter

-----------------------------------------------------------------------------
(* The lines of the listing *)

Picked(f, o, n, k) ==
  LET c == f.cmds[n] IN
  IF Listing!Selects(c.syms[k], SectionsOf(f)[n], o)
    THEN <<Listing!Line(c.syms[k], SectionsOf(f)[n], c, f)>> ELSE << >>

LEMMA PickedType ==
  ASSUME NEW f \in File, NEW o, NEW n \in 1..Len(f.cmds), NEW k \in 1..Len(f.cmds[n].syms)
  PROVE  Picked(f, o, n, k) \in Seq(Row)
<1> DEFINE c == f.cmds[n]
           sym == c.syms[k]
           secs == SectionsOf(f)[n]
<1>1. c \in LoadCommand /\ c.syms \in Seq(Nlist) /\ sym \in Nlist
  BY CommandsOf
<1>2. secs \in Seq(Section)
  <2>1. n \in 0..Len(f.cmds)
    BY CommandsOf
  <2> QED BY <2>1, SectionsOfIs
<1> HIDE DEF c, sym, secs
<1>3. c.stroff \in Int /\ c.strsize \in Int /\ f.fsize \in Int
  BY <1>1, WordAssumption DEF LoadCommand, File
<1>4. GetSymbol(sym, secs) \in Letters
  BY <1>1, <1>2, LetterType
<1>5. /\ NameOf(sym, c.stroff, c.strsize, f.fsize) \in Name
      /\ IndrOf(sym, GetSymbol(sym, secs), c.strsize) \in Name
  BY <1>1, <1>3, NameTypes
<1>6. Listing!Line(sym, secs, c, f) \in Row
  BY <1>1, <1>4, <1>5, SameLetters, SameNames DEF Listing!Line, Row
<1> QED BY <1>6 DEF Picked, c, sym, secs

\* TableLines is what its definition describes.
LEMMA TableLinesIs ==
  ASSUME NEW f \in File, NEW o, NEW n \in 1..Len(f.cmds)
  PROVE  LET T == Listing!TableLines(f, o, n) IN
         /\ T[0] = << >>
         /\ \A k \in 1..Len(f.cmds[n].syms) : T[k] = T[k - 1] \o Picked(f, o, n, k)
         /\ \A k \in 0..Len(f.cmds[n].syms) : T[k] \in Seq(Row)
<1> DEFINE N == Len(f.cmds[n].syms)
           T == Listing!TableLines(f, o, n)
           Is(g) == g = [k \in 0..N |-> IF k = 0 THEN << >>
                                        ELSE g[k - 1] \o Picked(f, o, n, k)]
           step == [p \in (1..N) \X Seq(Row) |-> p[2] \o Picked(f, o, n, p[1])]
<1>1. N \in Nat /\ \A k \in 1..N : Picked(f, o, n, k) \in Seq(Row)
  <2>1. N \in Nat
    BY CommandsOf
  <2>2. \A k \in 1..N : Picked(f, o, n, k) \in Seq(Row)
    BY PickedType, Zenon
  <2> QED BY <2>1, <2>2
<1>2. step \in [(1..N) \X Seq(Row) -> Seq(Row)]
  BY <1>1
<1>3. << >> \in Seq(Row)
  OBVIOUS
<1>4. PICK g : Recursive(g, N, Seq(Row), << >>, step)
  <2>1. N \in Nat
    BY <1>1
  <2> HIDE DEF step, N, Is
  <2> QED BY <2>1, <1>2, <1>3, Recursion
<1>5. \A k \in 1..N : g[k] = g[k - 1] \o Picked(f, o, n, k)
  <2>1. \A k \in 1..N : k - 1 \in 0..N
    BY <1>1
  <2> QED BY <1>4, <2>1 DEF Recursive
<1>6. Is(g)
  <2>1. \A k \in 0..N : k # 0 => k \in 1..N
    BY <1>1
  <2> QED BY <1>4, <1>5, <2>1 DEF Recursive
<1>7. T = CHOOSE h : Is(h)
  BY SameSections DEF Listing!TableLines, Picked
<1> HIDE DEF T
<1>8. Is(T)
  BY <1>6, <1>7, Zenon
<1>9. \A k \in 0..N : T[k] = IF k = 0 THEN << >> ELSE T[k - 1] \o Picked(f, o, n, k)
  BY <1>8, Zenon
<1>10. 0 \in 0..N /\ \A k \in 1..N : k \in 0..N /\ k # 0
  BY <1>1
<1> HIDE DEF Is
<1>11. T[0] = << >> /\ \A k \in 1..N : T[k] = T[k - 1] \o Picked(f, o, n, k)
  BY <1>9, <1>10, Zenon
<1>12. \A k \in 0..N : T[k] \in Seq(Row)
  <2> DEFINE P == {k \in 0..N : T[k] \in Seq(Row)}
  <2>1. 0 \in P
    BY <1>3, <1>10, <1>11, Zenon
  <2>2. ASSUME NEW k \in 1..N, k - 1 \in P PROVE k \in P
    <3>1. T[k] = T[k - 1] \o Picked(f, o, n, k)
      BY <1>11
    <3>2. T[k - 1] \in Seq(Row) /\ Picked(f, o, n, k) \in Seq(Row)
      BY <1>1, <2>2
    <3>3. T[k - 1] \o Picked(f, o, n, k) \in Seq(Row)
      BY <3>2
    <3> QED BY <1>10, <3>1, <3>3, Zenon
  <2>3. 0..N \subseteq P
    <3> HIDE DEF P
    <3> QED BY <1>1, <2>1, <2>2, InductionUpTo
  <2> QED BY <2>3
<1> QED BY <1>11, <1>12 DEF T

TableOf(f, o, n) ==
  IF f.cmds[n].cmd = "SYMTAB" THEN Listing!TableLines(f, o, n)[Len(f.cmds[n].syms)]
  ELSE << >>

LEMMA TableOfType ==
  ASSUME NEW f \in File, NEW o, NEW n \in 1..Len(f.cmds)
  PROVE  TableOf(f, o, n) \in Seq(Row)
<1>1. Len(f.cmds[n].syms) \in 0..Len(f.cmds[n].syms)
  BY CommandsOf
<1>2. Listing!TableLines(f, o, n)[Len(f.cmds[n].syms)] \in Seq(Row)
  BY <1>1, TableLinesIs
<1> QED BY <1>2 DEF TableOf

\* SymbolLines is what its definition describes.
LEMMA SymbolLinesIs ==
  ASSUME NEW f \in File, NEW o
  PROVE  LET L == Listing!SymbolLines(f, o) IN
         /\ L[0] = << >>
         /\ \A n \in 1..Len(f.cmds) : L[n] = L[n - 1] \o TableOf(f, o, n)
         /\ \A n \in 0..Len(f.cmds) : L[n] \in Seq(Row)
<1> DEFINE N == Len(f.cmds)
           L == Listing!SymbolLines(f, o)
           Is(g) == g = [n \in 0..N |-> IF n = 0 THEN << >>
                                        ELSE g[n - 1] \o TableOf(f, o, n)]
           step == [p \in (1..N) \X Seq(Row) |-> p[2] \o TableOf(f, o, p[1])]
<1>1. N \in Nat /\ \A n \in 1..N : TableOf(f, o, n) \in Seq(Row)
  BY CommandsOf, TableOfType
<1>2. step \in [(1..N) \X Seq(Row) -> Seq(Row)]
  BY <1>1
<1>3. << >> \in Seq(Row)
  OBVIOUS
<1>4. PICK g : Recursive(g, N, Seq(Row), << >>, step)
  <2>1. N \in Nat
    BY <1>1
  <2> HIDE DEF step, N, Is
  <2> QED BY <2>1, <1>2, <1>3, Recursion
<1>5. \A n \in 1..N : g[n] = g[n - 1] \o TableOf(f, o, n)
  <2>1. \A n \in 1..N : n - 1 \in 0..N
    BY <1>1
  <2> QED BY <1>4, <2>1 DEF Recursive
<1>6. Is(g)
  <2>1. \A n \in 0..N : n # 0 => n \in 1..N
    BY <1>1
  <2> QED BY <1>4, <1>5, <2>1 DEF Recursive
<1>7. L = CHOOSE h : Is(h)
  BY DEF Listing!SymbolLines, TableOf
<1> HIDE DEF L
<1>8. Is(L)
  BY <1>6, <1>7, Zenon
<1>9. \A n \in 0..N : L[n] = IF n = 0 THEN << >> ELSE L[n - 1] \o TableOf(f, o, n)
  BY <1>8, Zenon
<1>10. 0 \in 0..N /\ \A n \in 1..N : n \in 0..N /\ n # 0
  BY <1>1
<1> HIDE DEF Is
<1>11. L[0] = << >> /\ \A n \in 1..N : L[n] = L[n - 1] \o TableOf(f, o, n)
  BY <1>9, <1>10, Zenon
<1>12. \A n \in 0..N : L[n] \in Seq(Row)
  <2> DEFINE P == {n \in 0..N : L[n] \in Seq(Row)}
  <2>1. 0 \in P
    BY <1>3, <1>10, <1>11, Zenon
  <2>2. ASSUME NEW n \in 1..N, n - 1 \in P PROVE n \in P
    <3>1. L[n] = L[n - 1] \o TableOf(f, o, n)
      BY <1>11
    <3>2. L[n - 1] \in Seq(Row) /\ TableOf(f, o, n) \in Seq(Row)
      BY <1>1, <2>2
    <3>3. L[n - 1] \o TableOf(f, o, n) \in Seq(Row)
      BY <3>2
    <3> QED BY <1>10, <3>1, <3>3, Zenon
  <2>3. 0..N \subseteq P
    <3> HIDE DEF P
    <3> QED BY <1>1, <2>1, <2>2, InductionUpTo
  <2> QED BY <2>3
<1> QED BY <1>11, <1>12 DEF L

-----------------------------------------------------------------------------
(* What the walk has gathered *)

LinesTo(m)      == Listing!SymbolLines(file, opt)[m]
EntriesTo(m, k) == Listing!TableLines(file, opt, m)[k]

Asked          == {"l", "s"} \subseteq opt.flags
MarkedIn(n, k) == \E e \in 1..k : Listing!MarksStart(file, opt, n, e)
Marked(m) == \E n \in 1..m : /\ file.cmds[n].cmd = "SYMTAB"
                             /\ MarkedIn(n, Len(file.cmds[n].syms))

EntriesRead == Len(cmd.syms) - nsyms

\* The symbol table is the listing of the commands walked over and of the
\* entries read of the current one, and section_start is set if one of them
\* stands at the start of the section.
Gathered ==
  bin = "nm" =>
    /\ pc = "check" => ~sectionStart
    /\ pc \in {"handle", "print"} =>
         /\ symtab = LinesTo(i)
         /\ sectionStart <=> Asked /\ Marked(i)
    /\ pc = "symbols" =>
         /\ symtab = LinesTo(i) \o EntriesTo(i + 1, EntriesRead)
         /\ sectionStart <=> Asked /\ (Marked(i) \/ MarkedIn(i + 1, EntriesRead))

WalkInv == TypeOK /\ Position /\ Checked /\ InOrder /\ Judged

LEMMA GatheredInit == Init => Gathered
BY DEF Init, Gathered

\* One more command: the listing grows by that of the command's table.
LEMMA NextCommand ==
  ASSUME TypeOK, i < ncmds
  PROVE  /\ LinesTo(i + 1) = LinesTo(i) \o TableOf(file, opt, i + 1)
         /\ LinesTo(i) \in Seq(Row)
         /\ Marked(i + 1) <=> \/ Marked(i)
                              \/ cmd.cmd = "SYMTAB" /\ MarkedIn(i + 1, Len(cmd.syms))
<1>1. file \in File /\ i \in 0..Len(file.cmds) /\ Len(file.cmds) \in Nat /\ i < Len(file.cmds)
  BY DEF TypeOK, ncmds, File
<1>2. PICK n \in 1..Len(file.cmds) : n = i + 1 /\ n - 1 = i
  BY <1>1
<1>3. LinesTo(n) = LinesTo(n - 1) \o TableOf(file, opt, n)
  BY <1>1, SymbolLinesIs DEF LinesTo
<1>4. LinesTo(i) \in Seq(Row)
  BY <1>1, SymbolLinesIs DEF LinesTo
<1>5. \A m : m \in 1..(i + 1) <=> m \in 1..i \/ m = i + 1
  BY <1>1
<1>6. Marked(i + 1) <=> Marked(i) \/ (cmd.cmd = "SYMTAB" /\ MarkedIn(i + 1, Len(cmd.syms)))
  BY <1>5, Zenon DEF Marked, cmd
<1> QED BY <1>2, <1>3, <1>4, <1>6

\* One more entry: it is listed if the filter keeps it, and marks the start if
\* it stands there.
LEMMA NextEntry ==
  ASSUME TypeOK, Position, InOrder, pc = "symbols", nsyms > 0
  PROVE  LET letter == GetSymbol(entry, sectab) IN
         /\ EntriesTo(i + 1, EntriesRead + 1) =
              EntriesTo(i + 1, EntriesRead)
              \o (IF Kept(entry, letter, sectab, opt)
                    THEN <<Listed(entry, letter, cmd)>> ELSE << >>)
         /\ EntriesTo(i + 1, EntriesRead) \in Seq(Row)
         /\ MarkedIn(i + 1, EntriesRead + 1) <=>
              \/ MarkedIn(i + 1, EntriesRead)
              \/ /\ SectionSelected(entry, sectab, opt)
                 /\ entry.value = sectab[entry.sect].addr
<1> DEFINE letter == GetSymbol(entry, sectab)
           r == EntriesRead
<1>1. /\ file \in File /\ i \in 0..Len(file.cmds) /\ i < Len(file.cmds)
      /\ i + 1 \in 1..Len(file.cmds) /\ cmd = file.cmds[i + 1] /\ cmd.cmd = "SYMTAB"
      /\ Len(file.cmds) \in Nat
  BY CmdType DEF TypeOK, Position, ncmds, cmd
<1>2. Len(cmd.syms) \in Nat /\ nsyms \in Nat /\ nsyms <= Len(cmd.syms)
  BY <1>1, CmdType DEF TypeOK, Position, ncmds
<1>3. r \in 0..Len(cmd.syms) /\ r + 1 \in 1..Len(cmd.syms) /\ entry = cmd.syms[r + 1]
  BY <1>2 DEF EntriesRead, entry
<1>4. entry \in Nlist /\ sectab \in Seq(Section)
  BY EntryType DEF TypeOK
<1>5. sectab = SectionsOf(file)[i + 1]
  <2>1. sectab = SectionsOf(file)[i]
    BY DEF InOrder, SectionsInOrder
  <2>2. PICK n \in 1..Len(file.cmds) : n = i + 1 /\ n - 1 = i
    BY <1>1
  <2>3. SectionsOf(file)[n] = SectionsOf(file)[n - 1] \o Added(file.cmds[n])
    BY <1>1, SectionsOfIs
  <2>4. Added(file.cmds[n]) = << >>
    BY <1>1, <2>2 DEF Added, SegmentCmds
  <2>5. sectab \o << >> = sectab
    BY <1>4
  <2> QED BY <2>1, <2>2, <2>3, <2>4, <2>5
<1>6. Kept(entry, letter, sectab, opt) <=> Listing!Selects(entry, sectab, opt)
  BY <1>4, KeptIsSelected
<1>7. Listed(entry, letter, cmd) = Listing!Line(entry, sectab, cmd, file)
  BY SameLetters, SameNames DEF Listed, Listing!Line
<1>8. Picked(file, opt, i + 1, r + 1) =
        IF Kept(entry, letter, sectab, opt) THEN <<Listed(entry, letter, cmd)>> ELSE << >>
  BY <1>1, <1>3, <1>5, <1>6, <1>7, Zenon DEF Picked
<1>9. EntriesTo(i + 1, r + 1) = EntriesTo(i + 1, r) \o Picked(file, opt, i + 1, r + 1)
  <2>1. PICK k \in 1..Len(cmd.syms) : k = r + 1 /\ k - 1 = r
    BY <1>2, <1>3
  <2>2. EntriesTo(i + 1, k) = EntriesTo(i + 1, k - 1) \o Picked(file, opt, i + 1, k)
    BY <1>1, TableLinesIs DEF EntriesTo
  <2> QED BY <2>1, <2>2
<1>10. EntriesTo(i + 1, r) \in Seq(Row)
  BY <1>1, <1>3, TableLinesIs DEF EntriesTo
<1>11. Listing!MarksStart(file, opt, i + 1, r + 1) <=>
         /\ SectionSelected(entry, sectab, opt)
         /\ entry.value = sectab[entry.sect].addr
  <2>1. SectionSelected(entry, sectab, opt) <=> Listing!InSection(entry, sectab, opt)
    BY <1>4, SameSection
  <2> QED BY <1>1, <1>3, <1>5, <2>1, SameSections, Zenon DEF Listing!MarksStart
<1>12. \A e : e \in 1..(r + 1) <=> e \in 1..r \/ e = r + 1
  BY <1>2, <1>3
<1> HIDE DEF r
<1>13. MarkedIn(i + 1, r + 1) <=> \/ MarkedIn(i + 1, r)
                                  \/ Listing!MarksStart(file, opt, i + 1, r + 1)
  BY <1>12, Zenon DEF MarkedIn
<1> HIDE DEF letter
<1> QED BY <1>8, <1>9, <1>10, <1>11, <1>13, Zenon DEF letter, r

LEMMA GatheredStep == WalkInv /\ Gathered /\ Walk => Gathered'
<1> SUFFICES ASSUME WalkInv, Gathered, Walk, bin' = "nm" PROVE Gathered'
  BY DEF Gathered
<1> USE DEF input, tables
<1>0. file' = file /\ opt' = opt /\ bin' = bin /\ bin = "nm"
  BY DEF Walk, Skip, SkipCheck, CheckCommand, EndCheck, HandleSegment,
         HandleSymtab, HandleSymbol, EndSymtab, HandleOther, EndHandle
<1>00. TypeOK /\ Position /\ InOrder /\ file \in File /\ i \in 0..ncmds /\ ncmds \in Nat
  BY DEF WalkInv, TypeOK, File, ncmds
<1>same. \A m : LinesTo(m)' = LinesTo(m) /\ (Marked(m)' <=> Marked(m))
  BY <1>0 DEF LinesTo, Marked, MarkedIn
<1>1. CASE Skip
  BY <1>1 DEF Skip, Gathered
<1>2. CASE SkipCheck
  BY <1>0, <1>2 DEF SkipCheck
<1>3. CASE CheckCommand
  BY <1>0, <1>3 DEF CheckCommand, Gathered
<1>4. CASE EndCheck
  <2>1. /\ pc' \in {"handle", "rejected"} /\ (pc' = "handle" => i' = 0)
        /\ symtab' = symtab /\ symtab = << >> /\ ~sectionStart'
    BY <1>0, <1>00, <1>4 DEF EndCheck, Position, Gathered
  <2>2. LinesTo(0) = << >>
    BY <1>00, SymbolLinesIs DEF LinesTo
  <2>3. ~Marked(0)
    <3>1. \A n : n \notin 1..0
      OBVIOUS
    <3> QED BY <3>1 DEF Marked
  <2>4. pc' = "handle" => symtab' = LinesTo(i') /\ ~Marked(i')
    BY <2>1, <2>2, <2>3
  <2>5. Asked' <=> Asked
    BY <1>0 DEF Asked
  <2> QED BY <1>same, <2>1, <2>4, <2>5 DEF Gathered, LinesTo, Marked
<1>5. CASE HandleSegment \/ HandleOther
  <2>1. /\ i < ncmds /\ cmd.cmd # "SYMTAB" /\ pc = "handle" /\ pc' = "handle" /\ i' = i + 1
        /\ symtab' = symtab /\ sectionStart' = sectionStart
    BY <1>0, <1>5 DEF HandleSegment, HandleOther, HasHandler, SegmentCmds
  <2>2. TableOf(file, opt, i + 1) = << >>
    BY <2>1 DEF TableOf, cmd
  <2>3. LinesTo(i + 1) = LinesTo(i) \o << >> /\ LinesTo(i) \in Seq(Row)
    BY <1>00, <2>1, <2>2, NextCommand
  <2>4. LinesTo(i + 1) = LinesTo(i)
    BY <2>3
  <2>5. Marked(i + 1) <=> Marked(i)
    BY <1>00, <2>1, NextCommand
  <2> QED BY <1>0, <2>1, <2>4, <2>5 DEF Gathered, LinesTo, Marked, MarkedIn, Asked
<1>6. CASE HandleSymtab
  <2>1. /\ i < ncmds /\ pc = "handle" /\ pc' = "symbols" /\ i' = i /\ cmd.cmd = "SYMTAB"
        /\ symtab' = symtab /\ sectionStart' = sectionStart /\ nsyms' = Len(cmd.syms)
    BY <1>6 DEF HandleSymtab
  <2>2. Len(cmd.syms) \in Nat /\ i + 1 \in 1..Len(file.cmds)
    BY <1>00, <2>1, CmdType DEF ncmds
  <2>3. cmd' = cmd /\ EntriesRead' = 0
    BY <1>0, <2>1, <2>2 DEF cmd, EntriesRead
  <2>4. EntriesTo(i + 1, 0) = << >>
    BY <1>00, <2>2, TableLinesIs DEF EntriesTo
  <2>5. ~MarkedIn(i + 1, 0)
    <3>1. \A n : n \notin 1..0
      OBVIOUS
    <3> QED BY <3>1 DEF MarkedIn
  <2>6. LinesTo(i) \o << >> = LinesTo(i)
    <3>1. LinesTo(i) \in Seq(Row)
      BY <1>00, <2>1, NextCommand
    <3> QED BY <3>1
  <2>7. symtab = LinesTo(i) /\ (sectionStart <=> Asked /\ Marked(i))
    BY <1>0, <2>1 DEF Gathered
  <2>8. /\ LinesTo(i)' = LinesTo(i) /\ (Marked(i)' <=> Marked(i)) /\ (Asked' <=> Asked)
        /\ EntriesTo(i + 1, EntriesRead)' = EntriesTo(i + 1, 0)
        /\ (MarkedIn(i + 1, EntriesRead)' <=> MarkedIn(i + 1, 0))
    BY <1>0, <2>1, <2>3 DEF LinesTo, Marked, MarkedIn, Asked, EntriesTo
  <2> QED BY <2>1, <2>4, <2>5, <2>6, <2>7, <2>8, Zenon DEF Gathered
<1>7. CASE HandleSymbol
  <2> DEFINE letter == GetSymbol(entry, sectab)
             kept == Kept(entry, letter, sectab, opt)
             line == Listed(entry, letter, cmd)
             starts == /\ SectionSelected(entry, sectab, opt)
                       /\ entry.value = sectab[entry.sect].addr
  <2>1. /\ pc = "symbols" /\ pc' = "symbols" /\ nsyms > 0 /\ nsyms' = nsyms - 1 /\ i' = i
        /\ symtab' = IF kept THEN Append(symtab, line) ELSE symtab
        /\ sectionStart' = (sectionStart \/ (Asked /\ starts))
    BY <1>7 DEF HandleSymbol, Asked
  <2>2. /\ EntriesTo(i + 1, EntriesRead + 1) = EntriesTo(i + 1, EntriesRead)
                                               \o (IF kept THEN <<line>> ELSE << >>)
        /\ EntriesTo(i + 1, EntriesRead) \in Seq(Row)
        /\ MarkedIn(i + 1, EntriesRead + 1) <=> MarkedIn(i + 1, EntriesRead) \/ starts
    BY <1>00, <2>1, NextEntry
  <2>3. LinesTo(i) \in Seq(Row) /\ line \in Row
    <3>1. i < ncmds
      BY <1>00, <2>1 DEF Position
    <3> QED BY <1>00, <2>1, <3>1, NextCommand, ListedType
  <2>4. cmd' = cmd /\ EntriesRead' = EntriesRead + 1
    <3>1. Len(cmd.syms) \in Nat /\ nsyms \in Nat
      BY <1>00, <2>1, CmdType DEF Position, TypeOK
    <3> QED BY <1>0, <2>1, <3>1 DEF cmd, EntriesRead
  <2> HIDE DEF letter, kept, line, starts
  <2>5. symtab = LinesTo(i) \o EntriesTo(i + 1, EntriesRead)
        /\ (sectionStart <=> Asked /\ (Marked(i) \/ MarkedIn(i + 1, EntriesRead)))
    BY <1>0, <2>1 DEF Gathered
  <2>6. symtab' = LinesTo(i) \o EntriesTo(i + 1, EntriesRead + 1)
    <3>1. CASE kept
      <4>1. symtab' = Append(symtab, line)
        BY <2>1, <3>1
      <4>2. EntriesTo(i + 1, EntriesRead + 1) = Append(EntriesTo(i + 1, EntriesRead), line)
        BY <2>2, <2>3, <3>1
      <4>3. \A p, q \in Seq(Row) : \A x \in Row : Append(p \o q, x) = p \o Append(q, x)
        OBVIOUS
      <4> QED BY <2>2, <2>3, <2>5, <4>1, <4>2, <4>3
    <3>2. CASE ~kept
      <4>1. EntriesTo(i + 1, EntriesRead + 1) = EntriesTo(i + 1, EntriesRead)
        BY <2>2, <3>2
      <4> QED BY <2>1, <2>5, <3>2, <4>1
    <3> QED BY <3>1, <3>2
  <2>7. sectionStart' <=> Asked /\ (Marked(i) \/ MarkedIn(i + 1, EntriesRead + 1))
    BY <2>1, <2>2, <2>5
  <2>8. /\ LinesTo(i)' = LinesTo(i) /\ (Marked(i)' <=> Marked(i)) /\ (Asked' <=> Asked)
        /\ EntriesTo(i + 1, EntriesRead)' = EntriesTo(i + 1, EntriesRead + 1)
        /\ (MarkedIn(i + 1, EntriesRead)' <=> MarkedIn(i + 1, EntriesRead + 1))
    BY <1>0, <2>1, <2>4 DEF LinesTo, Marked, MarkedIn, Asked, EntriesTo
  <2> QED BY <2>1, <2>6, <2>7, <2>8, Zenon DEF Gathered
<1>8. CASE EndSymtab
  <2>1. /\ pc = "symbols" /\ pc' = "handle" /\ nsyms = 0 /\ i' = i + 1
        /\ symtab' = symtab /\ sectionStart' = sectionStart
        /\ i < ncmds /\ cmd.cmd = "SYMTAB"
    BY <1>00, <1>8 DEF EndSymtab, Position
  <2>2. EntriesRead = Len(cmd.syms)
    <3>1. Len(cmd.syms) \in Nat
      BY <1>00, <2>1, CmdType
    <3> QED BY <2>1, <3>1 DEF EntriesRead
  <2>3. EntriesTo(i + 1, Len(cmd.syms)) = TableOf(file, opt, i + 1)
    BY <2>1 DEF EntriesTo, TableOf, cmd
  <2>4. symtab = LinesTo(i + 1)
    BY <1>0, <1>00, <2>1, <2>2, <2>3, NextCommand DEF Gathered
  <2>5. sectionStart <=> Asked /\ Marked(i + 1)
    BY <1>0, <1>00, <2>1, <2>2, NextCommand DEF Gathered
  <2> QED BY <1>0, <2>1, <2>4, <2>5 DEF Gathered, LinesTo, Marked, MarkedIn, Asked
<1>9. CASE EndHandle
  BY <1>0, <1>9 DEF EndHandle, Gathered, LinesTo, Marked, MarkedIn, Asked
<1> QED
  BY <1>1, <1>2, <1>3, <1>4, <1>5, <1>6, <1>7, <1>8, <1>9 DEF Walk

-----------------------------------------------------------------------------
(* The line for the start of the section *)

\* What the widths of the program can count: no sum of the checks wraps, and
\* a section's number fits the uint8_t of n_sect.
NumbersFit ==
  \A f \in Files : NoWrap(f) /\ Len(SectionsOf(f)[Len(f.cmds)]) < U8

LEMMA GreatestOf ==
  ASSUME NEW N \in Nat, NEW T \in SUBSET (1..N), T # {}
  PROVE  \E x \in T : \A y \in T : y <= x
<1> DEFINE R == {N - x : x \in T}
<1>1. R \in SUBSET Nat /\ R # {}
  <2>1. \A x \in T : N - x \in Nat /\ N - x \in R
    OBVIOUS
  <2> QED BY <2>1
<1>2. PICK d \in R : \A e \in R : d <= e
  <2> HIDE DEF R
  <2> QED BY <1>1, LeastNumber
<1>3. PICK x \in T : d = N - x
  BY <1>2
<1>4. \A y \in T : N - x <= N - y
  BY <1>2, <1>3
<1> QED BY <1>3, <1>4

\* nm has walked to the last command, so its tables are those of the image.
LEMMA AtTheEnd ==
  ASSUME WalkInv, bin = "nm", pc = "print"
  PROVE  i = ncmds /\ sectab = SectionsOf(file)[Len(file.cmds)]
<1>1. i \in 0..ncmds /\ ncmds \in Nat /\ ncmds = Len(file.cmds)
  BY DEF WalkInv, TypeOK, File, ncmds
<1>2. ~(i < ncmds)
  <2> SUFFICES ASSUME i < ncmds PROVE FALSE
    OBVIOUS
  <2>1. i + 1 \in 1..ncmds
    BY <1>1
  <2>2. cmd.cmd # "UNKNOWN"
    BY <2>1, ListsAgree DEF WalkInv, Checked, Passed, cmd
  <2> QED BY <2>2 DEF WalkInv, InOrder, SectionsInOrder
<1>3. i = ncmds
  BY <1>1, <1>2
<1> QED BY <1>1, <1>3 DEF WalkInv, InOrder, SectionsInOrder

LEMMA StartIs ==
  ASSUME NEW o, NEW secs \in Seq(Section), Len(secs) < U8
  PROVE  LET last == CHOOSE j \in Named(o, secs) : \A k \in Named(o, secs) : k <= j IN
         /\ Named(o, secs) # {} => /\ last \in 1..Len(secs) /\ last \in Named(o, secs)
                                   /\ StartSection(o, secs) = last
         /\ Named(o, secs) = {} => StartSection(o, secs) = 0
<1> DEFINE T == Named(o, secs)
           last == CHOOSE j \in T : \A k \in T : k <= j
<1>1. Len(secs) \in Nat /\ T \in SUBSET (1..Len(secs))
  BY DEF Named
<1>2. T # {} => \E j \in T : \A k \in T : k <= j
  <2> HIDE DEF T
  <2> QED BY <1>1, GreatestOf
<1>3. T # {} => last \in T
  <2> HIDE DEF T
  <2> QED BY <1>2, Zenon
<1>4. T # {} => StartSection(o, secs) = last % U8
  BY DEF StartSection
<1>5. T = {} => StartSection(o, secs) = 0
  BY DEF StartSection
<1>6. \A k \in Nat : \A u \in Nat \ {0} : k < u => k % u = k
  OBVIOUS
<1>7. T # {} => last \in 1..Len(secs) /\ last < U8 /\ last \in Nat
  <2> HIDE DEF T, last
  <2>1. T # {} => last \in 1..Len(secs)
    BY <1>1, <1>3
  <2> QED BY <1>1, <2>1, ByteAssumption
<1>8. T # {} => last % U8 = last
  <2> HIDE DEF T, last
  <2> QED BY <1>6, <1>7, ByteAssumption
<1> QED BY <1>3, <1>4, <1>5, <1>7, <1>8

\* The added line is a row, also when the number was cut to a uint8_t.
LEMMA StartEntryType ==
  ASSUME NEW o, NEW secs \in Seq(Section), StartSection(o, secs) # 0
  PROVE  StartEntry(StartSection(o, secs), secs) \in Row
<1> DEFINE T == Named(o, secs)
           last == CHOOSE j \in T : \A k \in T : k <= j
           n == StartSection(o, secs)
<1>1. Len(secs) \in Nat /\ T \in SUBSET (1..Len(secs)) /\ T # {}
  BY DEF Named, StartSection
<1>2. \E j \in T : \A k \in T : k <= j
  <2> HIDE DEF T
  <2> QED BY <1>1, GreatestOf
<1>3. last \in T
  <2> HIDE DEF T
  <2> QED BY <1>2, Zenon
<1>4. n = last % U8
  BY <1>1 DEF StartSection
<1>5. \A k \in Nat : \A u \in Nat \ {0} : k % u \in 0..(u - 1) /\ k % u <= k
  OBVIOUS
<1>6. last \in 1..Len(secs) /\ last \in Nat
  <2> HIDE DEF T, last
  <2> QED BY <1>1, <1>3
<1>7. n # 0
  OBVIOUS
<1> HIDE DEF T, last, n
<1>8. n \in 0..(U8 - 1) /\ n \in 1..Len(secs)
  <2>1. n \in 0..(U8 - 1) /\ n <= last
    BY <1>4, <1>5, <1>6, ByteAssumption
  <2> QED BY <1>1, <1>6, <1>7, <2>1, ByteAssumption
<1>9. secs[n].addr \in Nat
  <2>1. secs[n] \in Section
    BY <1>8
  <2> QED BY <2>1 DEF Section
<1> DEFINE sym == [strx |-> 0, name |-> EmptyName, stab |-> FALSE, pext |-> FALSE,
                   type |-> "SECT", ext |-> FALSE, sect |-> n,
                   value |-> secs[n].addr, indr |-> EmptyName]
<1>10. sym \in Nlist
  BY <1>8, <1>9, NamesAssumption DEF Nlist, TypeBits
<1>11. GetSymbol(sym, secs) \in Letters
  <2> HIDE DEF sym
  <2> QED BY <1>10, LetterType
<1>12. StartEntry(n, secs) = [sym |-> sym, symbol |-> GetSymbol(sym, secs),
                              name |-> StartName, indr |-> NoString]
  BY DEF StartEntry
<1> HIDE DEF sym
<1>13. StartEntry(n, secs) \in Row
  BY <1>10, <1>11, <1>12, NamesAssumption DEF Row
<1> QED BY <1>13 DEF n

\* create_section_start adds the line the listing promises: the entries of the
\* whole file were asked, and the section named last is the one.
LEMMA StartLinesAre ==
  ASSUME WalkInv, Gathered, bin = "nm", pc = "print", Len(sectab) < U8
  PROVE  LET n == StartSection(opt, sectab) IN
         Listing!StartLines(file, opt) =
           IF Asked /\ ~sectionStart /\ n # 0 /\ sectab[n].size # 0
             THEN <<StartEntry(n, sectab)>> ELSE << >>
<1> DEFINE same == Named(opt, sectab)
           last == CHOOSE j \in same : \A k \in same : k <= j
           n == StartSection(opt, sectab)
           start == [strx |-> 0, name |-> EmptyName, stab |-> FALSE, pext |-> FALSE,
                     type |-> "SECT", ext |-> FALSE, sect |-> last,
                     value |-> sectab[last].addr, indr |-> EmptyName]
           line == [sym |-> start, symbol |-> GetSymbol(start, sectab),
                    name |-> StartName, indr |-> NoString]
<1>1. i = ncmds /\ ncmds = Len(file.cmds) /\ sectab = SectionsOf(file)[Len(file.cmds)]
  BY AtTheEnd DEF ncmds
<1>2. sectionStart <=> Asked /\ Marked(Len(file.cmds))
  BY <1>1 DEF Gathered
<1>3. sectab \in Seq(Section)
  BY DEF WalkInv, TypeOK
<1>4. /\ same # {} => last \in 1..Len(sectab) /\ n = last
      /\ same = {} => n = 0
  BY <1>3, StartIs
<1>5. Listing!StartLines(file, opt) =
        IF Asked /\ ~Marked(Len(file.cmds)) THEN Listing!StartLine(sectab, opt) ELSE << >>
  BY <1>1, SameSections, Zenon
     DEF Listing!StartLines, Listing!StartMarked, Asked, Marked, MarkedIn
<1>6. Listing!StartLine(sectab, opt) =
        IF same # {} /\ sectab[last].size # 0 THEN <<line>> ELSE << >>
  <2>1. Listing!GetSymbol(start, sectab) = GetSymbol(start, sectab)
    BY SameLetters
  <2>2. Listing!Chosen(sectab, opt) = same
    BY DEF Listing!Chosen, Named
  <2>3. Listing!LastChosen(sectab, opt) = last
    BY <2>2 DEF Listing!LastChosen
  <2> HIDE DEF same, last
  <2> QED
    BY <2>1, <2>2, <2>3 DEF Listing!StartLine, Listing!EmptyName, EmptyName,
                Listing!StartName, StartName, Listing!NoString, NoString
<1>7. same # {} => StartEntry(n, sectab) = line
  BY <1>4 DEF StartEntry
<1> HIDE DEF line, same, last, n
<1>9. same # {} => n # 0
  BY <1>3, <1>4
<1>8. Listing!StartLines(file, opt) =
        IF Asked /\ ~sectionStart /\ n # 0 /\ sectab[n].size # 0
             THEN <<StartEntry(n, sectab)>> ELSE << >>
  <2>1. CASE same = {}
    BY <1>4, <1>5, <1>6, <2>1
  <2>2. CASE same # {}
    BY <1>2, <1>4, <1>5, <1>6, <1>7, <1>9, <2>2
  <2> QED BY <2>1, <2>2
<1> QED BY <1>8 DEF n

-----------------------------------------------------------------------------
(* The refinement *)

Promised == Listing!SymbolLines(file, opt)[Len(file.cmds)] \o Listing!StartLines(file, opt)

\* While nm walks, its tables are what the walk has gathered; afterwards the
\* table is the promised listing, first in the order of the file, then sorted.
NmInv ==
  /\ pc \in {"check", "handle", "symbols", "print", "rejected", "sort", "assign", "done"}
  /\ file \in Files
  /\ pc \in {"check", "handle", "symbols", "print", "rejected"} => WalkInv /\ Gathered
  /\ pc \in {"sort", "assign", "done"} => WellFormed(file) /\ file.wanted
  /\ pc = "sort" => symtab = Promised /\ symtab \in Seq(Row)
  /\ pc = "assign" => Listing!IsListing(symtab, file, opt)
  /\ pc # "done" => out = << >>

LEMMA NmInvInit == NmInit => NmInv
<1> SUFFICES ASSUME NmInit PROVE NmInv
  OBVIOUS
<1>1. TypeOK /\ Position /\ Checked /\ InOrder /\ Judged /\ Gathered
  BY TypeInit, CheckedInit, InOrderInit, JudgedInit, GatheredInit DEF NmInit
<1>2. pc = "check" /\ file \in Files /\ out = << >>
  BY DEF NmInit, Init
<1> QED BY <1>1, <1>2 DEF NmInv, WalkInv

LEMMA WalkKeeps ==
  ASSUME WalkInv, Gathered, Walk
  PROVE  /\ WalkInv' /\ Gathered' /\ file' = file /\ opt' = opt
         /\ pc \in {"check", "handle", "symbols"}
         /\ pc' \in {"check", "handle", "symbols", "print", "rejected"}
<1>1. [Next]_vars
  BY DEF Next
<1>2. WalkInv'
  BY <1>1, TypeStep, CheckedStep, InOrderStep, JudgedStep DEF WalkInv
<1>3. Gathered'
  BY GatheredStep
<1>4. file' = file /\ opt' = opt /\ pc \in {"check", "handle", "symbols"}
  BY DEF Walk, Skip, SkipCheck, CheckCommand, EndCheck, HandleSegment, input,
         HandleSymtab, HandleSymbol, EndSymtab, HandleOther, EndHandle
<1>5. pc' \in {"check", "handle", "symbols", "print", "rejected"}
  BY <1>2 DEF WalkInv, TypeOK
<1> QED BY <1>2, <1>3, <1>4, <1>5

LEMMA StartPrintKeeps ==
  ASSUME NumbersFit, NmInv, StartPrint
  PROVE  NmInv'
<1>1. pc = "print" /\ bin = "nm" /\ WalkInv /\ Gathered /\ file \in Files /\ out = << >>
  BY DEF NmInv, StartPrint
<1>2. /\ pc' = "sort" /\ file' = file /\ opt' = opt /\ out' = out /\ sectab' = sectab
  BY DEF StartPrint, input
<1>3. WellFormed(file) /\ file.wanted
  BY <1>1 DEF NumbersFit, WalkInv, Judged
<1>4. /\ sectab = SectionsOf(file)[Len(file.cmds)] /\ Len(sectab) < U8
      /\ symtab = Listing!SymbolLines(file, opt)[Len(file.cmds)]
  BY <1>1, AtTheEnd DEF NumbersFit, Gathered, LinesTo, ncmds
<1>5. symtab \in Seq(Row) /\ sectab \in Seq(Section)
  BY <1>1 DEF WalkInv, TypeOK
<1> DEFINE n == StartSection(opt, sectab)
           added == Asked /\ ~sectionStart /\ n # 0 /\ sectab[n].size # 0
<1>6. Listing!StartLines(file, opt) =
        IF added THEN <<StartEntry(n, sectab)>> ELSE << >>
  BY <1>1, <1>4, StartLinesAre
<1>7. symtab' = IF added THEN Append(symtab, StartEntry(n, sectab)) ELSE symtab
  BY DEF StartPrint, create_section_start, Asked
<1>8. added => StartEntry(n, sectab) \in Row
  BY <1>5, StartEntryType
<1> HIDE DEF n, added
<1>9. symtab' = Promised /\ symtab' \in Seq(Row)
  <2>1. CASE added
    BY <1>4, <1>5, <1>6, <1>7, <1>8, <2>1 DEF Promised
  <2>2. CASE ~added
    BY <1>4, <1>5, <1>6, <1>7, <2>2 DEF Promised
  <2> QED BY <2>1, <2>2
<1>10. Promised' = Promised
  BY <1>2 DEF Promised
<1> QED BY <1>1, <1>2, <1>3, <1>9, <1>10 DEF NmInv

LEMMA SortKeeps ==
  ASSUME NmInv, sort_symtab
  PROVE  NmInv'
<1>1. /\ pc = "sort" /\ file \in Files /\ out = << >> /\ WellFormed(file) /\ file.wanted
      /\ symtab = Promised /\ symtab \in Seq(Row)
  BY DEF NmInv, sort_symtab
<1>2. /\ pc' = "assign" /\ file' = file /\ opt' = opt /\ out' = out
  BY DEF sort_symtab, input
<1>3. Listing!IsListing(symtab', file, opt)
  <2>1. CASE "p" \in opt.flags
    BY <1>1, <2>1 DEF sort_symtab, Listing!IsListing, Promised
  <2>2. CASE "p" \notin opt.flags
    <3>1. symtab' \in Arrangements(symtab) /\ Ordered(symtab')
      BY <2>2 DEF sort_symtab
    <3>2. PICK p \in [1..Len(symtab) -> 1..Len(symtab)] :
            /\ \A j \in 1..Len(symtab) : \E k \in 1..Len(symtab) : p[k] = j
            /\ symtab' = [k \in 1..Len(symtab) |-> symtab[p[k]]]
      BY <3>1 DEF Arrangements
    <3>3. Len(symtab') = Len(symtab) /\ Len(symtab) \in Nat
      BY <1>1, <3>2
    <3>4. \A k \in 1..Len(symtab') : symtab'[k] = symtab[p[k]]
      BY <3>2, <3>3
    <3>5. Listing!SameLines(symtab', Promised)
      <4>1. Len(symtab') = Len(Promised) /\ Len(symtab) = Len(Promised)
            /\ Len(symtab') = Len(symtab)
        BY <1>1, <3>3
      <4>2. p \in [1..Len(symtab') -> 1..Len(Promised)]
        BY <4>1
      <4>3. \A j \in 1..Len(Promised) : \E k \in 1..Len(symtab') : p[k] = j
        BY <3>2, <4>1
      <4>4. \A k \in 1..Len(symtab') : symtab'[k] = Promised[p[k]]
        BY <1>1, <3>4
      <4> QED BY <4>1, <4>2, <4>3, <4>4, Zenon DEF Listing!SameLines
    <3>6. \A k \in 1..(Len(symtab') - 1) :
            Listing!ListedLeq(symtab'[k], symtab'[k + 1], opt)
      BY <3>1, <1>2, SameOrder DEF Ordered
    <3> QED BY <2>2, <3>5, <3>6 DEF Listing!IsListing, Promised
  <2> QED BY <2>1, <2>2
<1>4. Listing!IsListing(symtab, file, opt)' <=> Listing!IsListing(symtab', file, opt)
  BY <1>2 DEF Listing!IsListing
<1> QED BY <1>1, <1>2, <1>3, <1>4 DEF NmInv

LEMMA StatusIs ==
  /\ pc = "done" => status = "listed"
  /\ pc = "rejected" => status = "refused"
  /\ pc \notin {"done", "rejected"} => status = "reading"
BY DEF status

\* One step of nm keeps the invariant and is a step of the listing or none.
LEMMA NmStep ==
  ASSUME NumbersFit, NmInv, [NmNext]_nmvars
  PROVE  NmInv' /\ [Listing!Next]_(Listing!avars)
<1>0. /\ (pc = "done" => status = "listed") /\ (pc = "rejected" => status = "refused")
      /\ (pc \notin {"done", "rejected"} => status = "reading")
      /\ (pc' = "done" => status' = "listed") /\ (pc' = "rejected" => status' = "refused")
      /\ (pc' \notin {"done", "rejected"} => status' = "reading")
  BY StatusIs DEF status
<1>1. CASE WalkStep
  <2>1. /\ pc \in {"check", "handle", "symbols"} \/ ~Walk
        /\ Walk /\ out' = out /\ WalkInv /\ Gathered /\ file \in Files /\ out = << >>
    BY <1>1, WalkKeeps DEF NmInv, WalkStep, Walk, Skip, SkipCheck, CheckCommand, EndCheck,
         HandleSegment, HandleSymtab, HandleSymbol, EndSymtab, HandleOther, EndHandle
  <2>2. /\ WalkInv' /\ Gathered' /\ file' = file /\ opt' = opt
        /\ pc' \in {"check", "handle", "symbols", "print", "rejected"}
        /\ pc \in {"check", "handle", "symbols"}
    BY <2>1, WalkKeeps
  <2>3. NmInv'
    BY <2>1, <2>2 DEF NmInv
  <2>4. CASE pc' # "rejected"
    <3>1. status' = status
      BY <1>0, <2>2, <2>4
    <3> QED BY <2>1, <2>2, <2>3, <3>1 DEF Listing!avars
  <2>5. CASE pc' = "rejected"
    <3>1. ~(WellFormed(file) /\ file.wanted)
      <4>1. NoWrap(file)
        BY <2>1 DEF NumbersFit
      <4>2. CASE bin' = "nm"
        BY <2>2, <2>5, <4>1, <4>2 DEF WalkInv, Judged
      <4>3. CASE bin' # "nm"
        BY <2>1, <2>2, <2>5, <4>3
           DEF Walk, Skip, SkipCheck, CheckCommand, EndCheck, HandleSegment, input,
               HandleSymtab, HandleSymbol, EndSymtab, HandleOther, EndHandle, WalkInv, Position
      <4> QED BY <4>2, <4>3
    <3>2. Listing!Refuse
      BY <1>0, <2>1, <2>2, <2>5, <3>1, SameWellFormed DEF Listing!Refuse
    <3> QED BY <2>3, <3>2 DEF Listing!Next
  <2> QED BY <2>3, <2>4, <2>5
<1>2. CASE StartPrint
  <2>1. NmInv'
    BY <1>2, StartPrintKeeps
  <2>2. UNCHANGED Listing!avars
    BY <1>0, <1>2 DEF StartPrint, Listing!avars, input
  <2> QED BY <2>1, <2>2
<1>3. CASE sort_symtab
  <2>1. NmInv'
    BY <1>3, SortKeeps
  <2>2. UNCHANGED Listing!avars
    BY <1>0, <1>3 DEF sort_symtab, Listing!avars, input
  <2> QED BY <2>1, <2>2
<1>4. CASE assign_symbol
  <2>1. /\ pc = "assign" /\ pc' = "done" /\ out' = symtab /\ file' = file /\ opt' = opt
        /\ file \in Files /\ WellFormed(file) /\ file.wanted
        /\ Listing!IsListing(symtab, file, opt)
    BY <1>4 DEF assign_symbol, input, NmInv
  <2>2. NmInv'
    BY <2>1 DEF NmInv
  <2>3. Listing!List
    BY <1>0, <2>1, SameWellFormed DEF Listing!List
  <2> QED BY <2>2, <2>3 DEF Listing!Next
<1>5. CASE UNCHANGED nmvars
  <2>1. /\ UNCHANGED <<file, opt, bin, pc, i, finalSize, sectab, seccap>>
        /\ UNCHANGED <<symtab, symcap, nsyms, sectionStart, out>>
    BY <1>5 DEF nmvars, vars
  <2>2. WalkInv => WalkInv'
    BY <2>1 DEF WalkInv, TypeOK, Position, Checked, InOrder, SectionsInOrder, Judged,
                ncmds, cmd
  <2>3. Gathered => Gathered'
    BY <2>1 DEF Gathered, LinesTo, EntriesTo, EntriesRead, Asked, Marked, MarkedIn,
                ncmds, cmd
  <2>4. Promised' = Promised
    BY <2>1 DEF Promised
  <2>5. NmInv'
    BY <2>1, <2>2, <2>3, <2>4 DEF NmInv
  <2>6. UNCHANGED Listing!avars
    BY <2>1 DEF Listing!avars, status
  <2> QED BY <2>5, <2>6
<1> QED
  BY <1>1, <1>2, <1>3, <1>4, <1>5 DEF NmNext, Printing

\* nm implements the listing: whatever the walk, the filter, the added line, the
\* sort and the printing do in their many steps, an image is refused or listed in
\* one step of NmListing, and nothing else happens to what is printed
\* (handle_macho_file and print_nm together).
THEOREM ListsAsPromised ==
  ASSUME NumbersFit
  PROVE  NmSpec => Listing!Init /\ [][Listing!Next]_(Listing!avars)
<1>1. NmInit => NmInv
  BY NmInvInit
<1>2. NmInv /\ [NmNext]_nmvars => NmInv'
  BY NmStep
<1>3. NmInv /\ [NmNext]_nmvars => [Listing!Next]_(Listing!avars)
  BY NmStep
<1>4. NmInit => Listing!Init
  BY FilesAssumption, OptionsAssumption, SameTypes, StatusIs DEF NmInit, Init, Listing!Init
<1> QED BY <1>1, <1>2, <1>3, <1>4, PTL DEF NmSpec

-----------------------------------------------------------------------------
(* Letters, and the start of the section *)

\* A letter read from the sections gathered so far is the final one, or an S.
LEMMA LetterSoFar ==
  ASSUME NEW sym \in Nlist, NEW some \in Seq(Section), NEW all \in Seq(Section),
         Len(some) <= Len(all), \A j \in 1..Len(some) : all[j] = some[j]
  PROVE  GetSymbol(sym, some) = GetSymbol(sym, all) \/ GetSymbol(sym, some) \in {"S", "s"}
<1>1. sym.sect \in Nat /\ Len(some) \in Nat /\ sym.ext \in BOOLEAN /\ sym.stab \in BOOLEAN
      /\ sym.type \in TypeBits
  BY ByteAssumption DEF Nlist
<1>2. CASE Resolves(sym.sect, some)
  <2>1. sym.sect \in 1..Len(some) /\ all[sym.sect] = some[sym.sect]
        /\ Resolves(sym.sect, all)
    BY <1>1, <1>2 DEF Resolves
  <2>2. SectionLetter(sym.sect, some) = SectionLetter(sym.sect, all)
    BY <1>2, <2>1 DEF SectionLetter
  <2> QED BY <2>2 DEF GetSymbol
<1>3. CASE ~Resolves(sym.sect, some)
  <2>1. SectionLetter(sym.sect, some) = "S"
    BY <1>3 DEF SectionLetter
  <2>2. CASE ~sym.stab /\ sym.type = "SECT"
    <3> DEFINE upper == CASE sym.stab          -> "-"
                   [] ~sym.stab /\ sym.type = "UNDF" -> IF sym.value # 0 THEN "C" ELSE "U"
                   [] ~sym.stab /\ sym.type = "ABS"  -> "A"
                   [] ~sym.stab /\ sym.type = "SECT" -> SectionLetter(sym.sect, some)
                   [] ~sym.stab /\ sym.type = "INDR" -> "I"
                   [] ~sym.stab /\ sym.type = "PBUD" -> "U"
                   [] ~sym.stab /\ sym.type = "OTHER" -> "?"
    <3>1. upper = "S"
      BY <2>1, <2>2
    <3>2. GetSymbol(sym, some) = IF upper \in {"?", "-"} \/ sym.ext THEN upper ELSE Lower[upper]
      BY DEF GetSymbol
    <3> HIDE DEF upper
    <3> QED BY <3>1, <3>2 DEF Lower
  <2>3. CASE sym.stab \/ sym.type # "SECT"
    <3> DEFINE upper(secs) ==
                   CASE sym.stab          -> "-"
                   [] ~sym.stab /\ sym.type = "UNDF" -> IF sym.value # 0 THEN "C" ELSE "U"
                   [] ~sym.stab /\ sym.type = "ABS"  -> "A"
                   [] ~sym.stab /\ sym.type = "SECT" -> SectionLetter(sym.sect, secs)
                   [] ~sym.stab /\ sym.type = "INDR" -> "I"
                   [] ~sym.stab /\ sym.type = "PBUD" -> "U"
                   [] ~sym.stab /\ sym.type = "OTHER" -> "?"
    <3>1. upper(some) = upper(all)
      BY <1>1, <2>3 DEF TypeBits
    <3>2. \A secs : GetSymbol(sym, secs) =
            IF upper(secs) \in {"?", "-"} \/ sym.ext THEN upper(secs) ELSE Lower[upper(secs)]
      BY DEF GetSymbol
    <3> HIDE DEF upper
    <3> QED BY <3>1, <3>2
  <2> QED BY <2>2, <2>3
<1> QED BY <1>2, <1>3

\* Where nm stands, without any assumption on the widths.
NmBase ==
  /\ pc \in {"check", "handle", "symbols", "print", "rejected", "sort", "assign", "done"}
  /\ pc \in {"check", "handle", "symbols", "print", "rejected"} => WalkInv
  /\ symtab \in Seq(Row) /\ sectab \in Seq(Section)

LEMMA NmBaseInit == NmInit => NmBase
<1> SUFFICES ASSUME NmInit PROVE NmBase
  OBVIOUS
<1>1. TypeOK /\ Position /\ Checked /\ InOrder /\ Judged
  BY TypeInit, CheckedInit, InOrderInit, JudgedInit DEF NmInit
<1> QED BY <1>1 DEF NmBase, WalkInv, NmInit, Init

LEMMA WalkMoves ==
  ASSUME WalkInv, Walk
  PROVE  /\ WalkInv' /\ UNCHANGED input
         /\ pc \in {"check", "handle", "symbols"}
         /\ pc' \in {"check", "handle", "symbols", "print", "rejected"}
<1>1. [Next]_vars
  BY DEF Next
<1>2. WalkInv'
  BY <1>1, TypeStep, CheckedStep, InOrderStep, JudgedStep DEF WalkInv
<1>3. UNCHANGED input /\ pc \in {"check", "handle", "symbols"}
  BY DEF Walk, Skip, SkipCheck, CheckCommand, EndCheck, HandleSegment, input,
         HandleSymtab, HandleSymbol, EndSymtab, HandleOther, EndHandle
<1> QED BY <1>2, <1>3 DEF WalkInv, TypeOK

\* StartPrint appends the start's line or nothing.
LEMMA StartPrintAdds ==
  ASSUME NmBase, StartPrint
  PROVE  LET n == StartSection(opt, sectab)
             added == Asked /\ ~sectionStart /\ n # 0 /\ sectab[n].size # 0
         IN /\ symtab' = IF added THEN Append(symtab, StartEntry(n, sectab)) ELSE symtab
            /\ added => StartEntry(n, sectab) \in Row
            /\ symtab' \in Seq(Row)
<1> DEFINE n == StartSection(opt, sectab)
           added == Asked /\ ~sectionStart /\ n # 0 /\ sectab[n].size # 0
<1>1. symtab' = IF added THEN Append(symtab, StartEntry(n, sectab)) ELSE symtab
  BY DEF StartPrint, create_section_start, Asked
<1>2. added => StartEntry(n, sectab) \in Row
  BY StartEntryType DEF NmBase
<1> HIDE DEF n, added
<1>3. symtab' \in Seq(Row)
  BY <1>1, <1>2 DEF NmBase
<1> QED BY <1>1, <1>2, <1>3 DEF n, added

\* The sort moves rows and neither adds nor drops one.
LEMMA SortMoves ==
  ASSUME NmBase, sort_symtab
  PROVE  /\ symtab' \in Seq(Row) /\ Len(symtab') = Len(symtab)
         /\ \A k \in 1..Len(symtab) : \E j \in 1..Len(symtab) : symtab'[k] = symtab[j]
         /\ \A j \in 1..Len(symtab) : \E k \in 1..Len(symtab) : symtab'[k] = symtab[j]
<1>0. symtab \in Seq(Row) /\ Len(symtab) \in Nat
  BY DEF NmBase
<1>1. CASE symtab' = symtab
  BY <1>0, <1>1
<1>2. CASE symtab' \in Arrangements(symtab)
  <2>1. PICK p \in [1..Len(symtab) -> 1..Len(symtab)] :
          /\ \A j \in 1..Len(symtab) : \E k \in 1..Len(symtab) : p[k] = j
          /\ symtab' = [k \in 1..Len(symtab) |-> symtab[p[k]]]
    BY <1>2 DEF Arrangements
  <2>2. \A k \in 1..Len(symtab) : symtab[p[k]] \in Row
    <3>1. \A j \in 1..Len(symtab) : symtab[j] \in Row
      BY <1>0
    <3>2. \A k \in 1..Len(symtab) : p[k] \in 1..Len(symtab)
      BY <2>1
    <3> QED BY <3>1, <3>2, Zenon
  <2>3. symtab' \in Seq(Row) /\ Len(symtab') = Len(symtab)
    BY <1>0, <2>1, <2>2
  <2> QED BY <2>1, <2>3
<1> QED BY <1>1, <1>2 DEF sort_symtab

LEMMA NmBaseStep == NmBase /\ [NmNext]_nmvars => NmBase'
<1> SUFFICES ASSUME NmBase, [NmNext]_nmvars PROVE NmBase'
  OBVIOUS
<1>1. CASE WalkStep
  <2>1. Walk /\ WalkInv
    BY <1>1 DEF WalkStep, NmBase, Walk, Skip, SkipCheck, CheckCommand, EndCheck,
         HandleSegment, HandleSymtab, HandleSymbol, EndSymtab, HandleOther, EndHandle
  <2>2. WalkInv' /\ pc' \in {"check", "handle", "symbols", "print", "rejected"}
    BY <2>1, WalkMoves
  <2> QED BY <2>2 DEF NmBase, WalkInv, TypeOK
<1>2. CASE StartPrint
  BY <1>2, StartPrintAdds DEF StartPrint, NmBase
<1>3. CASE sort_symtab
  BY <1>3, SortMoves DEF sort_symtab, NmBase
<1>4. CASE assign_symbol
  BY <1>4 DEF assign_symbol, NmBase, tables
<1>5. CASE UNCHANGED nmvars
  BY <1>5 DEF nmvars, vars, NmBase, WalkInv, TypeOK, Position, Checked,
       InOrder, SectionsInOrder, Judged, ncmds, cmd
<1> QED BY <1>1, <1>2, <1>3, <1>4, <1>5 DEF NmNext, Printing

FinalRow(row) ==
  \/ row.symbol = GetSymbol(row.sym, SectionsOf(file)[ncmds])
  \/ ~SegmentsFirst(file) /\ row.symbol \in {"S", "s"}

AllFinal == \A k \in 1..Len(symtab) : FinalRow(symtab[k])

\* What HandleSymbol appends is final.
LEMMA EntryIsFinal ==
  ASSUME WalkInv, pc = "symbols", nsyms > 0
  PROVE  FinalRow(Listed(entry, GetSymbol(entry, sectab), cmd))
<1>1. /\ file \in File /\ i < Len(file.cmds) /\ i \in 0..Len(file.cmds) /\ Len(file.cmds) \in Nat
      /\ ncmds = Len(file.cmds) /\ cmd = file.cmds[i + 1] /\ cmd.cmd = "SYMTAB"
      /\ i + 1 \in 1..Len(file.cmds)
  BY DEF WalkInv, TypeOK, File, Position, ncmds, cmd
<1>2. entry \in Nlist /\ sectab \in Seq(Section) /\ sectab = SectionsOf(file)[i]
  BY EntryType DEF WalkInv, TypeOK, InOrder, SectionsInOrder
<1> DEFINE all == SectionsOf(file)[Len(file.cmds)]
           letter == GetSymbol(entry, sectab)
<1>3. all \in Seq(Section)
  <2>1. Len(file.cmds) \in 0..Len(file.cmds)
    BY <1>1
  <2> QED BY <1>1, <2>1, SectionsOfIs
<1>4. /\ Len(sectab) <= Len(all) /\ \A j \in 1..Len(sectab) : all[j] = sectab[j]
      /\ (\A n \in (i + 1)..Len(file.cmds) : file.cmds[n].cmd \notin SegmentCmds) => all = sectab
  BY <1>1, <1>2, SectionsGrow
<1>5. SegmentsFirst(file) => all = sectab
  <2> SUFFICES ASSUME SegmentsFirst(file), NEW n \in (i + 1)..Len(file.cmds),
                      file.cmds[n].cmd \in SegmentCmds
               PROVE  FALSE
    BY <1>4
  <2>1. n \in 1..Len(file.cmds)
    BY <1>1
  <2>2. n < i + 1
    BY <1>1, <2>1 DEF SegmentsFirst
  <2> QED BY <1>1, <2>2
<1>6. letter = GetSymbol(entry, all) \/ letter \in {"S", "s"}
  <2> HIDE DEF all
  <2> QED BY <1>2, <1>3, <1>4, LetterSoFar
<1>7. Listed(entry, letter, cmd).sym = entry /\ Listed(entry, letter, cmd).symbol = letter
  BY DEF Listed
<1> HIDE DEF letter
<1>8. FinalRow(Listed(entry, letter, cmd))
  BY <1>1, <1>5, <1>6, <1>7 DEF FinalRow, letter
<1> QED BY <1>8 DEF letter

LEMMA AllFinalStep == NmBase /\ AllFinal /\ [NmNext]_nmvars => AllFinal'
<1> SUFFICES ASSUME NmBase, AllFinal, [NmNext]_nmvars PROVE AllFinal'
  OBVIOUS
<1>0. file' = file
  BY DEF NmNext, WalkStep, Printing, Walk, Skip, SkipCheck, CheckCommand, EndCheck, input,
         HandleSegment, HandleSymtab, HandleSymbol, EndSymtab, HandleOther, EndHandle,
         StartPrint, sort_symtab, assign_symbol, nmvars, vars
<1>same. \A row : FinalRow(row)' <=> FinalRow(row)
  BY <1>0 DEF FinalRow, ncmds
<1>1. ASSUME NEW row \in Row, symtab' = Append(symtab, row), FinalRow(row) PROVE AllFinal'
  <2>1. symtab \in Seq(Row)
    BY DEF NmBase
  <2>2. \A k \in 1..Len(symtab') : symtab'[k] = row \/ (k \in 1..Len(symtab) /\ symtab'[k] = symtab[k])
    BY <1>1, <2>1
  <2>3. \A k \in 1..Len(symtab') : FinalRow(symtab'[k])
    BY <1>1, <2>2 DEF AllFinal
  <2> QED BY <1>0, <2>3 DEF AllFinal, FinalRow, ncmds
<1>2. ASSUME symtab' = symtab PROVE AllFinal'
  BY <1>0, <1>2 DEF AllFinal, FinalRow, ncmds
<1>3. CASE WalkStep
  <2>1. Walk /\ WalkInv
    BY <1>3 DEF WalkStep, NmBase, Walk, Skip, SkipCheck, CheckCommand, EndCheck,
         HandleSegment, HandleSymtab, HandleSymbol, EndSymtab, HandleOther, EndHandle
  <2>2. CASE HandleSymbol
    <3> DEFINE line == Listed(entry, GetSymbol(entry, sectab), cmd)
    <3>1. symtab' = Append(symtab, line) \/ symtab' = symtab
      BY <2>2 DEF HandleSymbol
    <3>2. line \in Row /\ FinalRow(line)
      BY <2>1, <2>2, ListedType, EntryIsFinal DEF WalkInv, HandleSymbol
    <3> HIDE DEF line
    <3> QED BY <1>1, <1>2, <3>1, <3>2
  <2>3. CASE ~HandleSymbol
    <3>1. symtab' = symtab
      BY <2>1, <2>3 DEF Walk, Skip, SkipCheck, CheckCommand, EndCheck, tables,
         HandleSegment, HandleSymtab, EndSymtab, HandleOther, EndHandle
    <3> QED BY <1>2, <3>1
  <2> QED BY <2>2, <2>3
<1>4. CASE StartPrint
  <2> DEFINE n == StartSection(opt, sectab)
  <2>1. symtab' = symtab \/ (symtab' = Append(symtab, StartEntry(n, sectab))
                             /\ StartEntry(n, sectab) \in Row)
    BY <1>4, StartPrintAdds
  <2>2. sectab = SectionsOf(file)[ncmds]
    BY <1>4, AtTheEnd DEF NmBase, StartPrint, ncmds
  <2>3. FinalRow(StartEntry(n, sectab))
    BY <2>2 DEF FinalRow, StartEntry
  <2> HIDE DEF n
  <2> QED BY <1>1, <1>2, <2>1, <2>3
<1>5. CASE sort_symtab
  <2>1. /\ Len(symtab') = Len(symtab)
        /\ \A k \in 1..Len(symtab) : \E j \in 1..Len(symtab) : symtab'[k] = symtab[j]
    BY <1>5, SortMoves
  <2>2. \A k \in 1..Len(symtab') : FinalRow(symtab'[k])
    BY <2>1 DEF AllFinal
  <2> QED BY <1>0, <2>2 DEF AllFinal, FinalRow, ncmds
<1>6. CASE assign_symbol \/ UNCHANGED nmvars
  BY <1>2, <1>6 DEF assign_symbol, tables, nmvars, vars
<1> QED BY <1>3, <1>4, <1>5, <1>6 DEF NmNext, Printing

\* get_sect_names reads the table gathered so far, and nm prints no letter from
\* it that the complete table would not give, except the S of a symbol in front
\* of its segment; no matter how many commands and entries there are.
THEOREM LettersAlwaysFinal == NmSpec => []LettersFinal
<1>1. NmInit => NmBase /\ AllFinal
  BY NmBaseInit DEF NmInit, Init, AllFinal
<1>2. NmBase /\ AllFinal /\ [NmNext]_nmvars => (NmBase /\ AllFinal)'
  BY NmBaseStep, AllFinalStep
<1>3. AllFinal => LettersFinal
  BY DEF AllFinal, FinalRow, LettersFinal
<1> QED BY <1>1, <1>2, <1>3, PTL DEF NmSpec

-----------------------------------------------------------------------------
(* The start of the section *)

\* The settings under which nothing but the section decides what is listed.
Showing == /\ {"l", "s"} \subseteq opt.flags
           /\ opt.flags \cap {"g", "u", "U"} = {} /\ "a" \in opt.flags

ShowsStart(o, row, secs) == /\ row.sym.sect \in Named(o, secs)
                            /\ row.sym.value = secs[row.sym.sect].addr

AnyShows(o, rows, secs) == \E k \in 1..Len(rows) : ShowsStart(o, rows[k], secs)

LastGood == /\ Named(opt, sectab) # {} /\ Len(sectab) < U8
            /\ sectab[StartSection(opt, sectab)].size # 0

\* section_start is set only when the entry found at the start is also kept;
\* otherwise create_section_start adds one.
StartInv ==
  /\ pc = "check" => ~sectionStart
  /\ pc \in {"handle", "symbols", "print"} /\ Showing /\ sectionStart => AnyShows(opt, symtab, sectab)
  /\ pc \in {"sort", "assign"} /\ Showing /\ LastGood => AnyShows(opt, symtab, sectab)
  /\ pc = "done" /\ Showing /\ LastGood => AnyShows(opt, out, sectab)

\* A longer table of sections still shows what the shorter one did.
LEMMA ShowsMore ==
  ASSUME NEW rows, NEW s \in Seq(Section), NEW t \in Seq(Section), AnyShows(opt, rows, s)
  PROVE  AnyShows(opt, rows, s \o t)
<1>1. \A j \in 1..Len(s) : j \in 1..Len(s \o t) /\ (s \o t)[j] = s[j]
  OBVIOUS
<1>2. Named(opt, s) \subseteq Named(opt, s \o t) /\ Named(opt, s) \subseteq 1..Len(s)
  BY <1>1 DEF Named
<1> QED BY <1>1, <1>2 DEF AnyShows, ShowsStart

\* One more row hides nothing.
LEMMA ShowsAppend ==
  ASSUME NEW rows \in Seq(Row), NEW row \in Row, NEW secs,
         AnyShows(opt, rows, secs) \/ ShowsStart(opt, row, secs)
  PROVE  AnyShows(opt, Append(rows, row), secs)
<1>1. /\ Len(rows) + 1 \in 1..Len(Append(rows, row))
      /\ Append(rows, row)[Len(rows) + 1] = row
      /\ \A k \in 1..Len(rows) : k \in 1..Len(Append(rows, row)) /\ Append(rows, row)[k] = rows[k]
  OBVIOUS
<1> QED BY <1>1 DEF AnyShows

\* The entry at the start of the section is kept and shows it.
LEMMA EntryShows ==
  ASSUME TypeOK, Position, pc = "symbols", nsyms > 0, Showing,
         SectionSelected(entry, sectab, opt), entry.value = sectab[entry.sect].addr
  PROVE  LET letter == GetSymbol(entry, sectab) IN
         /\ Kept(entry, letter, sectab, opt)
         /\ ShowsStart(opt, Listed(entry, letter, cmd), sectab)
<1>1. entry \in Nlist /\ sectab \in Seq(Section)
  BY EntryType DEF TypeOK
<1>2. entry.sect \in Nat
  BY <1>1, ByteAssumption DEF Nlist
<1>3. entry.sect \in Named(opt, sectab)
  BY <1>1, <1>2 DEF SectionSelected, Resolves, Named
<1>4. Listed(entry, GetSymbol(entry, sectab), cmd).sym = entry
  BY DEF Listed
<1>5. Kept(entry, GetSymbol(entry, sectab), sectab, opt)
  BY Zenon DEF Kept, Showing
<1> QED BY <1>3, <1>4, <1>5 DEF ShowsStart

LEMMA StartInvStep == NmBase /\ StartInv /\ [NmNext]_nmvars => StartInv'
<1> SUFFICES ASSUME NmBase, StartInv, [NmNext]_nmvars PROVE StartInv'
  OBVIOUS
<1>0. opt' = opt
  BY DEF NmNext, WalkStep, Printing, Walk, Skip, SkipCheck, CheckCommand, EndCheck, input,
         HandleSegment, HandleSymtab, HandleSymbol, EndSymtab, HandleOther, EndHandle,
         StartPrint, sort_symtab, assign_symbol, nmvars, vars
<1>same. /\ Showing' <=> Showing
   BY <1>0 DEF Showing, AnyShows, ShowsStart, Named
<1>types. symtab \in Seq(Row) /\ sectab \in Seq(Section)
  BY DEF NmBase
<1>1. CASE WalkStep
  <2>1. Walk /\ WalkInv
    BY <1>1 DEF WalkStep, NmBase, Walk, Skip, SkipCheck, CheckCommand, EndCheck,
         HandleSegment, HandleSymtab, HandleSymbol, EndSymtab, HandleOther, EndHandle
  <2>2. pc \in {"check", "handle", "symbols"}
        /\ pc' \in {"check", "handle", "symbols", "print", "rejected"}
    BY <2>1, WalkMoves
  <2>3. ASSUME pc = "check"
        PROVE  /\ sectionStart' = sectionStart
    BY <2>1, <2>3 DEF Walk, Skip, SkipCheck, CheckCommand, EndCheck, tables,
         HandleSegment, HandleSymtab, HandleSymbol, EndSymtab, HandleOther, EndHandle
  <2>4. pc \in {"handle", "symbols"} => pc' \in {"handle", "symbols", "print"}
    BY <2>1 DEF Walk, Skip, SkipCheck, CheckCommand, EndCheck, tables,
         HandleSegment, HandleSymtab, HandleSymbol, EndSymtab, HandleOther, EndHandle
  <2>5. CASE pc = "check"
    BY <2>2, <2>3, <2>5 DEF StartInv
  <2>6. CASE pc \in {"handle", "symbols"}
    <3>1. SUFFICES ASSUME Showing', sectionStart' PROVE AnyShows(opt, symtab', sectab')
      BY <1>0, <2>4, <2>6, Zenon DEF StartInv
    <3>3. Showing
      BY <1>same, <3>1
    <3>4. CASE HandleSegment
      <4>1. symtab' = symtab /\ sectab' = sectab \o cmd.sects /\ sectionStart' = sectionStart
        BY <3>4 DEF HandleSegment
      <4>2. cmd.sects \in Seq(Section)
        <5>1. file \in File /\ i \in 0..ncmds /\ i < ncmds /\ ncmds \in Nat
          BY <2>1, <3>4 DEF WalkInv, TypeOK, HandleSegment, File, ncmds
        <5> QED BY <2>1, <5>1, CmdType DEF WalkInv
      <4>3. AnyShows(opt, symtab, sectab)
        BY <2>6, <3>1, <3>3, <4>1 DEF StartInv
      <4> QED BY <1>types, <4>1, <4>2, <4>3, ShowsMore
    <3>5. CASE HandleSymbol
      <4> DEFINE letter == GetSymbol(entry, sectab)
                 line == Listed(entry, letter, cmd)
                 starts == /\ SectionSelected(entry, sectab, opt)
                           /\ entry.value = sectab[entry.sect].addr
      <4>1. /\ pc = "symbols" /\ nsyms > 0 /\ sectab' = sectab
            /\ symtab' = IF Kept(entry, letter, sectab, opt) THEN Append(symtab, line) ELSE symtab
            /\ sectionStart' = (sectionStart \/ (Asked /\ starts))
        BY <3>5 DEF HandleSymbol, Asked
      <4>2. line \in Row
        BY <2>1, <4>1, ListedType DEF WalkInv
      <4>3. starts => Kept(entry, letter, sectab, opt) /\ ShowsStart(opt, line, sectab)
        BY <2>1, <3>3, <4>1, EntryShows DEF WalkInv
      <4>4. sectionStart => AnyShows(opt, symtab, sectab)
        BY <3>3, <4>1 DEF StartInv
      <4> HIDE DEF letter, line, starts
      <4>5. sectionStart \/ starts
        BY <3>1, <4>1
      <4>6. CASE Kept(entry, letter, sectab, opt)
        <5>1. AnyShows(opt, Append(symtab, line), sectab)
          BY <1>types, <4>2, <4>3, <4>4, <4>5, ShowsAppend
        <5> QED BY <4>1, <4>6, <5>1
      <4>7. CASE ~Kept(entry, letter, sectab, opt)
        BY <4>1, <4>3, <4>4, <4>5, <4>7
      <4> QED BY <4>6, <4>7
    <3>6. CASE ~HandleSegment /\ ~HandleSymbol
      <4>1. symtab' = symtab /\ sectab' = sectab /\ sectionStart' = sectionStart
        BY <2>1, <2>6, <3>6 DEF Walk, Skip, SkipCheck, CheckCommand, EndCheck, tables,
             HandleSymtab, EndSymtab, HandleOther, EndHandle
      <4> QED BY <2>6, <3>1, <3>3, <4>1 DEF StartInv
    <3> QED BY <3>4, <3>5, <3>6
  <2> QED BY <2>2, <2>5, <2>6
<1>2. CASE StartPrint
  <2> DEFINE n == StartSection(opt, sectab)
             added == Asked /\ ~sectionStart /\ n # 0 /\ sectab[n].size # 0
  <2>1. /\ symtab' = IF added THEN Append(symtab, StartEntry(n, sectab)) ELSE symtab
        /\ added => StartEntry(n, sectab) \in Row
    BY <1>2, StartPrintAdds
  <2>2. pc = "print" /\ pc' = "sort" /\ sectab' = sectab
    BY <1>2 DEF StartPrint
  <2>3. LastGood' <=> LastGood
    BY <1>0, <2>2 DEF LastGood, Named, StartSection
  <2>4. Showing /\ LastGood => AnyShows(opt, symtab', sectab)
    <3> SUFFICES ASSUME Showing, LastGood PROVE AnyShows(opt, symtab', sectab)
      OBVIOUS
    <3>1. CASE sectionStart
      <4>1. AnyShows(opt, symtab, sectab)
        BY <2>2, <3>1 DEF StartInv
      <4> QED BY <2>1, <3>1, <4>1
    <3>2. CASE ~sectionStart
      <4>1. n \in Named(opt, sectab) /\ n # 0
        <5>1. n \in Named(opt, sectab) /\ n \in 1..Len(sectab)
          BY <1>types, StartIs DEF LastGood
        <5> QED BY <5>1
      <4>2. added
        BY <3>2, <4>1 DEF LastGood, Showing, Asked
      <4>3. ShowsStart(opt, StartEntry(n, sectab), sectab)
        BY <4>1 DEF ShowsStart, StartEntry
      <4> HIDE DEF n, added
      <4>4. AnyShows(opt, Append(symtab, StartEntry(n, sectab)), sectab)
        BY <1>types, <2>1, <4>2, <4>3, ShowsAppend
      <4> QED BY <2>1, <4>2, <4>4
    <3> QED BY <3>1, <3>2
  <2> HIDE DEF n, added
  <2> QED BY <1>0, <1>same, <2>2, <2>3, <2>4, Zenon DEF StartInv
<1>3. CASE sort_symtab
  <2>1. /\ Len(symtab') = Len(symtab)
        /\ \A j \in 1..Len(symtab) : \E k \in 1..Len(symtab) : symtab'[k] = symtab[j]
    BY <1>3, SortMoves
  <2>2. pc = "sort" /\ pc' = "assign" /\ sectab' = sectab
    BY <1>3 DEF sort_symtab
  <2>3. LastGood' <=> LastGood
    BY <1>0, <2>2 DEF LastGood, Named, StartSection
  <2>4. AnyShows(opt, symtab, sectab) => AnyShows(opt, symtab', sectab)
    BY <2>1 DEF AnyShows
  <2> QED BY <1>0, <1>same, <2>2, <2>3, <2>4, Zenon DEF StartInv
<1>4. CASE assign_symbol
  <2>1. pc = "assign" /\ pc' = "done" /\ sectab' = sectab /\ out' = symtab
    BY <1>4 DEF assign_symbol, tables
  <2>2. LastGood' <=> LastGood
    BY <1>0, <2>1 DEF LastGood, Named, StartSection
  <2> QED BY <1>0, <1>same, <2>1, <2>2 DEF StartInv
<1>5. CASE UNCHANGED nmvars
  <2>1. /\ opt' = opt /\ pc' = pc /\ sectab' = sectab /\ symtab' = symtab
        /\ sectionStart' = sectionStart /\ out' = out
    BY <1>5 DEF nmvars, vars
  <2>2. (Showing' <=> Showing) /\ (LastGood' <=> LastGood)
    BY <2>1 DEF Showing, LastGood
  <2> QED BY <2>1, <2>2, Zenon DEF StartInv
<1> QED BY <1>1, <1>2, <1>3, <1>4, <1>5 DEF NmNext, Printing

\* nm -l -s shows where the section starts, in every image and for every number
\* of entries: the flag section_start and the line create_section_start adds
\* never miss each other.
THEOREM StartAlwaysShown == NmSpec => []SectionStartShown
<1>1. NmInit => NmBase /\ StartInv
  BY NmBaseInit DEF NmInit, Init, StartInv
<1>2. NmBase /\ StartInv /\ [NmNext]_nmvars => (NmBase /\ StartInv)'
  BY NmBaseStep, StartInvStep
<1>3. NmBase /\ StartInv => SectionStartShown
  <2> SUFFICES ASSUME NmBase, StartInv, pc = "done", Showing, LastGood
               PROVE  \E j \in Named(opt, sectab) :
                        \E k \in 1..Len(out) : /\ out[k].sym.sect = j
                                               /\ out[k].sym.value = sectab[j].addr
    BY DEF SectionStartShown, Showing, LastGood
  <2> QED BY DEF StartInv, AnyShows, ShowsStart
<1> QED BY <1>1, <1>2, <1>3, PTL DEF NmSpec
=============================================================================
