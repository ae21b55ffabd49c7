---------------------------- MODULE MachOProofs ----------------------------
(***************************************************************************)
(* Proofs about MachO for every set of images, every width of the integers *)
(* and every setting of the options: what the passes keep true, and that   *)
(* they compute what the reference of MachOFile says of an image, that is  *)
(* the section table is the sections of the file and the images let through *)
(* are the well-formed ones.                                               *)
(***************************************************************************)
EXTENDS MachO, WellFoundedInduction, TLAPS

-----------------------------------------------------------------------------
(* What the operators on symbols return *)

\* A letter is one of the letters nm prints, whatever the section table.
LEMMA LetterType ==
  ASSUME NEW sym \in Nlist, NEW secs \in Seq(Section)
  PROVE  GetSymbol(sym, secs) \in Letters
<1>1. SectionLetter(sym.sect, secs) \in {"T", "D", "B", "S"}
  BY DEF SectionLetter
<1>2. sym.type \in TypeBits /\ sym.stab \in BOOLEAN
  BY DEF Nlist
<1> DEFINE upper == CASE sym.stab          -> "-"
                 [] ~sym.stab /\ sym.type = "UNDF" -> IF sym.value # 0 THEN "C" ELSE "U"
                 [] ~sym.stab /\ sym.type = "ABS"  -> "A"
                 [] ~sym.stab /\ sym.type = "SECT" -> SectionLetter(sym.sect, secs)
                 [] ~sym.stab /\ sym.type = "INDR" -> "I"
                 [] ~sym.stab /\ sym.type = "PBUD" -> "U"
                 [] ~sym.stab /\ sym.type = "OTHER" -> "?"
<1>3. upper \in {"-", "?", "C", "U", "A", "T", "D", "B", "S", "I"}
  <2>1. CASE sym.stab
    BY <2>1, <1>2 DEF TypeBits
  <2>2. CASE ~sym.stab
    BY <2>2, <1>1, <1>2 DEF TypeBits
  <2> QED BY <2>1, <2>2
<1>4. GetSymbol(sym, secs) = IF upper \in {"?", "-"} \/ sym.ext THEN upper ELSE Lower[upper]
  BY DEF GetSymbol
<1> HIDE DEF upper
<1> QED BY <1>3, <1>4 DEF Lower, Letters

\* The strings of a listed symbol are strings.
LEMMA NameTypes ==
  ASSUME NEW sym \in Nlist, NEW letter, NEW stroff \in Int, NEW strsize \in Int,
         NEW fsize \in Int
  PROVE  NameOf(sym, stroff, strsize, fsize) \in Name
         /\ IndrOf(sym, letter, strsize) \in Name
<1>1. sym.name \in Name /\ sym.indr \in Name /\ sym.strx \in Nat /\ sym.value \in Nat
  BY DEF Nlist
<1>0. EmptyName \in Name /\ BadIndex \in Name /\ NoString \in Name
  BY NamesAssumption
<1>2. NameOf(sym, stroff, strsize, fsize) \in Name
  <2>1. CASE sym.strx = 0
    BY <1>0, <1>1, <2>1 DEF NameOf
  <2>2. CASE sym.strx > strsize
    BY <1>0, <1>1, <2>2 DEF NameOf
  <2>3. CASE sym.strx # 0 /\ sym.strx <= strsize
    BY <1>0, <1>1, <2>3 DEF NameOf
  <2> QED BY <1>1, <2>1, <2>2, <2>3
<1>3. IndrOf(sym, letter, strsize) \in Name
  <2>1. CASE letter \notin {"I", "i"}
    BY <1>0, <2>1 DEF IndrOf
  <2>2. CASE letter \in {"I", "i"} /\ sym.value = 0
    BY <1>0, <1>1, <2>2 DEF IndrOf
  <2>3. CASE letter \in {"I", "i"} /\ sym.value > strsize
    BY <1>0, <1>1, <2>3 DEF IndrOf
  <2>4. CASE letter \in {"I", "i"} /\ sym.value # 0 /\ sym.value <= strsize
    BY <1>0, <1>1, <2>4 DEF IndrOf
  <2> QED BY <1>1, <2>1, <2>2, <2>3, <2>4
<1> QED BY <1>2, <1>3

-----------------------------------------------------------------------------
(* Type correctness *)

\* The walk stays inside the load commands, so `cmd' is one of them.
LEMMA CmdType ==
  ASSUME TypeOK, i < ncmds
  PROVE  /\ i + 1 \in 1..ncmds
         /\ cmd \in LoadCommand
         /\ cmd.sects \in Seq(Section) /\ cmd.syms \in Seq(Nlist)
         /\ Len(cmd.syms) \in Nat /\ Len(cmd.sects) \in Nat
<1>1. file.cmds \in Seq(LoadCommand)
  BY DEF TypeOK, File
<1>2. i + 1 \in 1..ncmds
  BY <1>1 DEF TypeOK, ncmds
<1>3. cmd \in LoadCommand
  BY <1>1, <1>2 DEF cmd, ncmds
<1>4. cmd.sects \in Seq(Section) /\ cmd.syms \in Seq(Nlist)
  BY <1>3 DEF LoadCommand
<1> QED BY <1>2, <1>3, <1>4

\* Where the walk stands: the counter of the entry loop is live only inside a
\* symbol-table command, which only nm enters.
Position ==
  /\ pc = "symbols" => /\ i < ncmds /\ cmd.cmd = "SYMTAB" /\ bin = "nm"
                       /\ nsyms <= Len(cmd.syms)
  /\ pc # "symbols" => nsyms = 0
  /\ pc = "check" => symcap = NULL /\ symtab = << >> /\ seccap = NULL /\ sectab = << >>

LEMMA EntryType ==
  ASSUME TypeOK, Position, pc = "symbols", nsyms > 0
  PROVE  entry \in Nlist
<1>1. cmd.syms \in Seq(Nlist) /\ Len(cmd.syms) \in Nat
  BY CmdType DEF Position
<1>2. Len(cmd.syms) - nsyms + 1 \in 1..Len(cmd.syms)
  BY <1>1 DEF TypeOK, Position
<1> QED BY <1>1, <1>2 DEF entry

LEMMA ListedType ==
  ASSUME TypeOK, Position, pc = "symbols", nsyms > 0
  PROVE  Listed(entry, GetSymbol(entry, sectab), cmd) \in Row
<1>1. entry \in Nlist
  BY EntryType
<1>2. cmd \in LoadCommand
  BY CmdType DEF Position
<1>3. cmd.stroff \in Int /\ cmd.strsize \in Int /\ file.fsize \in Int
  BY <1>2, WordAssumption DEF LoadCommand, TypeOK, File
<1>4. GetSymbol(entry, sectab) \in Letters
  BY <1>1, LetterType DEF TypeOK
<1>5. /\ NameOf(entry, cmd.stroff, cmd.strsize, file.fsize) \in Name
      /\ IndrOf(entry, GetSymbol(entry, sectab), cmd.strsize) \in Name
  BY <1>1, <1>3, NameTypes
<1> QED BY <1>1, <1>4, <1>5 DEF Listed, Row

LEMMA TypeInit == Init => TypeOK /\ Position
<1> SUFFICES ASSUME Init PROVE TypeOK /\ Position
  OBVIOUS
<1>1. file \in File /\ opt \in Option /\ bin \in Bins
  BY FilesAssumption, OptionsAssumption DEF Init
<1>2. ncmds \in Nat
  BY <1>1 DEF File, ncmds
<1>3. TypeOK
  <2>1. U32 \in Nat \ {0} /\ 0 \in 0..(U32 - 1)
    BY WordAssumption
  <2>2. i \in 0..ncmds
    BY <1>2 DEF Init
  <2>3. << >> \in Seq(Row) /\ << >> \in Seq(Section)
    OBVIOUS
  <2>4. sectionStart \in BOOLEAN
    BY DEF Init
  <2> QED BY <1>1, <2>1, <2>2, <2>3, <2>4 DEF Init, TypeOK, NULL
<1>4. Position
  BY DEF Init, Position
<1> QED BY <1>3, <1>4

LEMMA TypeStep == TypeOK /\ Position /\ [Next]_vars => TypeOK' /\ Position'
<1> SUFFICES ASSUME TypeOK, Position, [Next]_vars PROVE TypeOK' /\ Position'
  OBVIOUS
<1> USE DEF input, tables
<1>0. ncmds \in Nat /\ i \in 0..ncmds /\ finalSize \in Int
  BY WordAssumption DEF TypeOK, File, ncmds
<1>1. CASE Skip
  BY <1>1 DEF Skip, TypeOK, Position, ncmds, cmd
<1>2. CASE SkipCheck
  BY <1>2 DEF SkipCheck, TypeOK, Position, ncmds, cmd
<1>3. CASE CheckCommand
  <2>1. ncmds' = ncmds /\ i' \in 0..ncmds
    BY <1>0, <1>3 DEF CheckCommand, ncmds
  <2>2. finalSize' \in 0..(U32 - 1)
    <3>1. cmd.cmdsize \in Nat /\ finalSize \in Nat /\ U32 \in Nat \ {0}
      BY <1>3, CmdType, WordAssumption DEF CheckCommand, LoadCommand, TypeOK
    <3>2. (finalSize + cmd.cmdsize) % U32 \in 0..(U32 - 1)
      BY <3>1
    <3> QED BY <1>3, <3>2 DEF CheckCommand, TypeOK
  <2>3. pc' \in {"check", "rejected"}
    BY <1>3 DEF CheckCommand
  <2> QED BY <1>3, <2>1, <2>2, <2>3 DEF CheckCommand, TypeOK, Position
<1>4. CASE EndCheck
  <2>1. ncmds' = ncmds /\ i' \in 0..ncmds /\ pc' \in {"handle", "rejected"}
    BY <1>0, <1>4 DEF EndCheck, ncmds
  <2> QED BY <1>4, <2>1 DEF EndCheck, TypeOK, Position
<1>5. CASE HandleSegment
  <2>1. ncmds' = ncmds /\ i' \in 0..ncmds
    BY <1>0, <1>5 DEF HandleSegment, ncmds
  <2>2. sectab' \in Seq(Section) /\ seccap' \in Int
    BY <1>5, CmdType, WordAssumption DEF HandleSegment, TypeOK
  <2> QED BY <1>5, <2>1, <2>2 DEF HandleSegment, TypeOK, Position
<1>6. CASE HandleSymtab
  <2>1. ncmds' = ncmds /\ cmd' = cmd
    BY <1>6 DEF HandleSymtab, ncmds, cmd
  <2>2. symcap' \in Int /\ nsyms' \in Nat
    BY <1>6, CmdType, WordAssumption DEF HandleSymtab, TypeOK
  <2> QED BY <1>6, <2>1, <2>2 DEF HandleSymtab, TypeOK, Position
<1>7. CASE HandleSymbol
  <2>1. ncmds' = ncmds /\ cmd' = cmd /\ nsyms' \in Nat /\ nsyms' < nsyms
    BY <1>7 DEF HandleSymbol, ncmds, cmd, TypeOK
  <2>2. symtab' \in Seq(Row)
    <3> DEFINE line == Listed(entry, GetSymbol(entry, sectab), cmd)
    <3>1. line \in Row
      BY <1>7, ListedType DEF HandleSymbol
    <3>2. symtab' = Append(symtab, line) \/ symtab' = symtab
      BY <1>7 DEF HandleSymbol
    <3> HIDE DEF line
    <3> QED BY <3>1, <3>2 DEF TypeOK
  <2>3. sectionStart' \in BOOLEAN
    BY <1>7 DEF HandleSymbol, TypeOK
  <2>4. Len(cmd.syms) \in Nat
    BY <1>7, CmdType DEF HandleSymbol, Position
  <2> QED BY <1>7, <2>1, <2>2, <2>3, <2>4 DEF HandleSymbol, TypeOK, Position
<1>8. CASE EndSymtab
  <2>1. ncmds' = ncmds /\ i' \in 0..ncmds
    BY <1>0, <1>8 DEF EndSymtab, ncmds, Position
  <2> QED BY <1>8, <2>1 DEF EndSymtab, TypeOK, Position
<1>9. CASE HandleOther
  <2>1. ncmds' = ncmds /\ i' \in 0..ncmds
    BY <1>0, <1>9 DEF HandleOther, ncmds
  <2> QED BY <1>9, <2>1 DEF HandleOther, TypeOK, Position
<1>10. CASE EndHandle
  <2>1. ncmds' = ncmds
    BY <1>10 DEF EndHandle, ncmds
  <2> QED BY <1>10, <2>1 DEF EndHandle, TypeOK, Position
<1>11. CASE UNCHANGED vars
  BY <1>11 DEF vars, TypeOK, Position, ncmds, cmd
<1> QED
  BY <1>1, <1>2, <1>3, <1>4, <1>5, <1>6, <1>7, <1>8, <1>9, <1>10, <1>11 DEF Next, Walk

\* Every variable keeps its type on every walk, over any images and any width
\* of the integers.
THEOREM TypeCorrect == Spec => [](TypeOK /\ Position)
<1>1. Init => TypeOK /\ Position
  BY TypeInit
<1>2. TypeOK /\ Position /\ [Next]_vars => (TypeOK /\ Position)'
  BY TypeStep
<1> QED BY <1>1, <1>2, PTL DEF Spec

-----------------------------------------------------------------------------
(* What the check pass leaves behind for the handle pass *)

\* The two lists of known commands name the same ones, those with a handler of
\* their own among them.
LEMMA ListsAgree ==
  /\ HandledCmds = CheckedCmds
  /\ SegmentCmds \subseteq CheckedCmds /\ "SYMTAB" \in CheckedCmds
  /\ "UNKNOWN" \notin CheckedCmds
  /\ Cmds = CheckedCmds \cup {"UNKNOWN"}
<1>1. HandledCmds = CheckedCmds
  BY DEF HandledCmds, CheckedCmds
<1>2. SegmentCmds \subseteq CheckedCmds
  BY DEF SegmentCmds, CheckedCmds
<1>3. "SYMTAB" \in CheckedCmds /\ "UNKNOWN" \notin CheckedCmds
  BY DEF CheckedCmds
<1> QED BY <1>1, <1>2, <1>3 DEF Cmds

\* What the handle pass needs to know of a command.
Passed(c, f) ==
  /\ c.cmd = "SYMTAB" => SymbolTableInside(c, f)
  /\ c.cmd \in CheckedCmds

\* The link between the passes: nm has put every command it handles, and while
\* it still checks every command it has walked over, through the checks.
Checked ==
  bin = "nm" =>
    /\ pc = "check" => \A n \in 1..i : Passed(file.cmds[n], file)
    /\ pc \in {"handle", "symbols", "print"} =>
         \A n \in 1..ncmds : Passed(file.cmds[n], file)

\* One command accepted by check_load_command is one the handle pass can use.
LEMMA CheckPasses ==
  ASSUME NEW c, NEW f, check_load_command(c, f)
  PROVE  Passed(c, f)
BY DEF check_load_command, check_lc_symtab, Passed, SymbolTableInside

LEMMA CheckedInit == Init => Checked
<1> SUFFICES ASSUME Init PROVE Checked
  OBVIOUS
<1>1. pc = "check" /\ 1..i = {}
  BY DEF Init
<1> QED BY <1>1 DEF Checked

LEMMA CheckedStep == TypeOK /\ Position /\ Checked /\ [Next]_vars => Checked'
<1> SUFFICES ASSUME TypeOK, Position, Checked, [Next]_vars PROVE Checked'
  OBVIOUS
<1> USE DEF input, tables
<1>0. ncmds \in Nat /\ i \in 0..ncmds
  BY DEF TypeOK, File, ncmds
<1>1. CASE Skip
  BY <1>1 DEF Skip, Checked
<1>2. CASE SkipCheck
  BY <1>2 DEF SkipCheck, Checked
<1>3. CASE CheckCommand
  <2>1. CASE pc' = "rejected"
    BY <2>1 DEF Checked
  <2>2. CASE pc' # "rejected"
    <3>1. check_load_command(cmd, file) /\ i' = i + 1 /\ file' = file /\ pc' = "check"
      BY <1>3, <2>2 DEF CheckCommand
    <3>2. \A n \in 1..i : Passed(file.cmds[n], file)
      BY <1>3 DEF CheckCommand, Checked
    <3>3. Passed(file.cmds[i + 1], file)
      BY <3>1, CheckPasses DEF cmd
    <3>4. \A n \in 1..(i + 1) : n \in 1..i \/ n = i + 1
      BY <1>0
    <3>5. \A n \in 1..(i + 1) : Passed(file.cmds[n], file)
      BY <3>2, <3>3, <3>4
    <3> QED BY <3>1, <3>5 DEF Checked
  <2> QED BY <2>1, <2>2
<1>4. CASE EndCheck
  <2>1. ncmds' = ncmds /\ file' = file /\ i = ncmds /\ pc' \in {"handle", "rejected"}
    BY <1>4 DEF EndCheck, ncmds
  <2>2. \A n \in 1..ncmds : Passed(file.cmds[n], file)
    BY <1>4, <2>1 DEF EndCheck, Checked
  <2> QED BY <2>1, <2>2 DEF Checked
<1>5. CASE HandleSegment
  BY <1>5 DEF HandleSegment, Checked, ncmds
<1>6. CASE HandleSymtab
  BY <1>6 DEF HandleSymtab, Checked, ncmds
<1>7. CASE HandleSymbol
  BY <1>7 DEF HandleSymbol, Checked, ncmds
<1>8. CASE EndSymtab
  BY <1>8 DEF EndSymtab, Checked, ncmds
<1>9. CASE HandleOther
  BY <1>9 DEF HandleOther, Checked, ncmds
<1>10. CASE EndHandle
  BY <1>10 DEF EndHandle, Checked, ncmds
<1>11. CASE UNCHANGED vars
  BY <1>11 DEF vars, Checked, ncmds
<1> QED
  BY <1>1, <1>2, <1>3, <1>4, <1>5, <1>6, <1>7, <1>8, <1>9, <1>10, <1>11 DEF Next, Walk

LEMMA CheckedAlways == Spec => [](TypeOK /\ Position /\ Checked)
<1>1. Init => TypeOK /\ Position /\ Checked
  BY TypeInit, CheckedInit
<1>2. TypeOK /\ Position /\ Checked /\ [Next]_vars => (TypeOK /\ Position /\ Checked)'
  BY TypeStep, CheckedStep
<1> QED BY <1>1, <1>2, PTL DEF Spec

\* handle_lc_symtab reads only symbol entries that lie in the file and in front
\* of the string table, in every image nm is given.
THEOREM EntriesInside == Spec => []EntryInsideFile
<1>1. TypeOK /\ Position /\ Checked => EntryInsideFile
  <2> SUFFICES ASSUME TypeOK, Position, Checked, pc = "symbols", nsyms > 0
               PROVE  LET end == cmd.symoff
                                 + (Len(cmd.syms) - nsyms + 1) * NlistSize(file.arch)
                      IN  end <= file.fsize /\ end <= cmd.stroff
    BY DEF EntryInsideFile
  <2>1. /\ i < ncmds /\ cmd.cmd = "SYMTAB" /\ bin = "nm"
        /\ nsyms \in Nat /\ nsyms <= Len(cmd.syms)
    BY DEF Position, TypeOK
  <2>2. i + 1 \in 1..ncmds /\ cmd \in LoadCommand /\ Len(cmd.syms) \in Nat
    BY <2>1, CmdType
  <2>3. SymbolTableInside(cmd, file)
    BY <2>1, <2>2 DEF Checked, Passed, cmd
  <2>4. cmd.symoff \in Int /\ cmd.stroff \in Int /\ file.fsize \in Int
    BY <2>2, WordAssumption DEF LoadCommand, TypeOK, File
  <2>5. CASE file.arch = 64
    BY <2>1, <2>2, <2>3, <2>4, <2>5 DEF SymbolTableInside, SymtabEnd, NlistSize
  <2>6. CASE file.arch # 64
    BY <2>1, <2>2, <2>3, <2>4, <2>6 DEF SymbolTableInside, SymtabEnd, NlistSize
  <2> QED BY <2>5, <2>6
<1> QED BY <1>1, CheckedAlways, PTL

\* The handle pass of nm walks over every load command of every image: nothing
\* the check pass accepts is unknown to handle_load_command.
THEOREM ReachesTheEnd == Spec => []NmReachesTheEnd
<1> DEFINE Reaches == bin = "nm" /\ pc = "print" => i = ncmds
           Inv == TypeOK /\ Position /\ Checked
<1>1. Init => Reaches
  BY DEF Init
<1>2. Inv /\ Reaches /\ [Next]_vars => Reaches'
  <2> SUFFICES ASSUME Inv, Reaches, [Next]_vars, bin' = "nm", pc' = "print"
               PROVE  i' = ncmds'
    OBVIOUS
  <2>1. CASE EndHandle
    <3>1. bin = "nm" /\ pc = "handle" /\ i' = i /\ ncmds' = ncmds
      BY <2>1 DEF EndHandle, input, ncmds
    <3>2. i \in 0..ncmds /\ ncmds \in Nat
      BY DEF TypeOK, File, ncmds
    <3>3. i < ncmds => cmd.cmd \in HandledCmds
      BY <3>1, CmdType, ListsAgree DEF Checked, Passed, cmd
    <3> QED BY <2>1, <3>1, <3>2, <3>3 DEF EndHandle
  <2>2. CASE Next /\ ~EndHandle
    BY <2>2 DEF Next, Walk, Skip, SkipCheck, CheckCommand, EndCheck, HandleSegment,
                HandleSymtab, HandleSymbol, EndSymtab, HandleOther, vars, ncmds
  <2>3. CASE UNCHANGED vars
    BY <2>3 DEF vars, ncmds
  <2> QED BY <2>1, <2>2, <2>3
<1>3. Reaches => NmReachesTheEnd
  BY DEF NmReachesTheEnd
<1> HIDE DEF Reaches
<1> QED BY <1>1, <1>2, <1>3, CheckedAlways, PTL DEF Spec

-----------------------------------------------------------------------------
(* What is stored fits what was allocated *)

\* No table of an image has more than m entries, and m entries for every load
\* command can be counted in a uint32_t (pinfo->secid and pinfo->symid, and the
\* argument of ft_memalloc, are sums in that width).
Countable(m) ==
  \A f \in Files :
    /\ Len(f.cmds) * m < U32
    /\ \A n \in 1..Len(f.cmds) : Len(f.cmds[n].sects) <= m /\ Len(f.cmds[n].syms) <= m

\* The tables grow by at most m entries at each command, and each was allocated
\* with room for what it holds.
Fits(m) ==
  /\ file \in Files
  /\ Len(sectab) <= i * m
  /\ Len(symtab) + nsyms <= (IF pc = "symbols" THEN i + 1 ELSE i) * m
  /\ TablesFit

LEMMA Product == \A a, b \in Nat : a * b \in Nat
OBVIOUS

LEMMA OneMore ==
  ASSUME NEW m \in Nat, NEW k \in Nat, NEW n \in Nat, k < n
  PROVE  (k + 1) * m = k * m + m /\ (k + 1) * m <= n * m
<1>1. PICK d \in Nat : n = (k + 1) + d
  <2>1. n - (k + 1) \in Nat /\ n = (k + 1) + (n - (k + 1))
    OBVIOUS
  <2> QED BY <2>1
<1>2. n * m = (k + 1) * m + d * m /\ d * m \in Nat
  BY <1>1
<1>3. (k + 1) * m = k * m + m /\ (k + 1) * m \in Nat
  OBVIOUS
<1> QED BY <1>2, <1>3

\* Room made for one more command is counted exactly.
LEMMA NoCut ==
  ASSUME NEW m \in Nat, Countable(m), TypeOK, file \in Files, i < ncmds,
         NEW k \in Nat, NEW d \in Nat, k <= i * m, d <= m
  PROVE  (k + d) % U32 = k + d /\ k + d <= (i + 1) * m
<1>1. i \in Nat /\ ncmds \in Nat /\ U32 \in Nat \ {0}
  BY WordAssumption DEF TypeOK, File, ncmds
<1>2. (i + 1) * m = i * m + m /\ (i + 1) * m <= ncmds * m
  BY <1>1, OneMore
<1>3. ncmds * m < U32
  BY DEF Countable, ncmds
<1>4. i * m \in Nat /\ ncmds * m \in Nat
  BY <1>1
<1>5. k + d <= (i + 1) * m /\ k + d < U32 /\ k + d \in Nat
  BY <1>1, <1>2, <1>3, <1>4
<1>6. (k + d) % U32 = k + d
  BY <1>1, <1>5
<1> QED BY <1>4, <1>5, <1>6

LEMMA FitsStep ==
  ASSUME NEW m \in Nat, Countable(m), TypeOK, Position, Fits(m), [Next]_vars
  PROVE  Fits(m)'
<1> USE DEF input, tables, Room
<1>0. /\ i \in Nat /\ i * m \in Nat /\ nsyms \in Nat /\ Len(sectab) \in Nat
      /\ Len(symtab) \in Nat /\ symcap \in Int /\ seccap \in Int
  BY DEF TypeOK, File, ncmds
<1>a. ASSUME i < ncmds
      PROVE  /\ Len(cmd.sects) \in Nat /\ Len(cmd.sects) <= m
             /\ Len(cmd.syms) \in Nat /\ Len(cmd.syms) <= m
             /\ (i + 1) * m = i * m + m
  <2>1. i + 1 \in 1..Len(file.cmds) /\ Len(cmd.sects) \in Nat /\ Len(cmd.syms) \in Nat
    BY <1>a, CmdType DEF ncmds
  <2>2. Len(cmd.sects) <= m /\ Len(cmd.syms) <= m
    BY <2>1 DEF Countable, Fits, cmd
  <2> QED BY <2>1, <2>2, <1>0
<1>1. CASE Skip
  BY <1>1 DEF Skip, Fits, TablesFit
<1>2. CASE SkipCheck
  BY <1>2 DEF SkipCheck, Fits, TablesFit
<1>3. CASE CheckCommand
  <2>1. i' = i \/ (i' = i + 1 /\ i < ncmds)
    BY <1>3 DEF CheckCommand
  <2>2. i' * m >= i * m
    BY <2>1, <1>0, <1>a
  <2>3. Len(sectab) = 0 /\ Len(symtab) = 0 /\ nsyms = 0 /\ i' * m \in Nat
    BY <1>0, <1>3, <2>1 DEF CheckCommand, Position
  <2>4. pc' # "symbols"
    BY <1>3 DEF CheckCommand
  <2> QED BY <1>0, <1>3, <2>2, <2>3, <2>4 DEF CheckCommand, Fits, TablesFit
<1>4. CASE EndCheck
  <2>1. Len(sectab) = 0 /\ Len(symtab) = 0 /\ nsyms = 0 /\ i' \in Nat /\ pc' # "symbols"
    BY <1>0, <1>4 DEF EndCheck, Position
  <2>2. i' * m \in Nat
    BY <2>1, Product
  <2>3. file \in Files /\ TablesFit
    BY DEF Fits
  <2>4. (IF pc' = "symbols" THEN i' + 1 ELSE i') = i'
    BY <2>1
  <2>5. Len(sectab') = 0 /\ Len(symtab') = 0 /\ nsyms' = 0 /\ file' = file /\ TablesFit'
    BY <1>4, <2>1, <2>3 DEF EndCheck, TablesFit
  <2>6. 0 <= i' * m /\ 0 + 0 <= i' * m
    BY <2>2
  <2> QED BY <2>3, <2>4, <2>5, <2>6 DEF Fits
<1>5. CASE HandleSegment
  <2>1. i < ncmds /\ pc # "symbols" /\ pc' = pc /\ nsyms = 0
    BY <1>5 DEF HandleSegment, Position
  <2>2. /\ seccap' = Len(sectab) + Len(cmd.sects)
        /\ Len(sectab) + Len(cmd.sects) <= (i + 1) * m
    <3>1. file \in Files /\ Len(sectab) <= i * m
      BY DEF Fits
    <3>2. seccap' = (Len(sectab) + Len(cmd.sects)) % U32
      BY <1>5 DEF HandleSegment
    <3>3. Len(sectab) + Len(cmd.sects) = (Len(sectab) + Len(cmd.sects)) % U32
          /\ Len(sectab) + Len(cmd.sects) <= (i + 1) * m
      <4> DEFINE k == Len(sectab)
                 d == Len(cmd.sects)
      <4>1. k \in Nat /\ d \in Nat /\ k <= i * m /\ d <= m
        BY <1>0, <1>a, <2>1, <3>1
      <4> HIDE DEF k, d
      <4>2. (k + d) % U32 = k + d /\ k + d <= (i + 1) * m
        BY <2>1, <3>1, <4>1, NoCut
      <4> QED BY <4>2 DEF k, d
    <3> QED BY <3>2, <3>3
  <2>3. Len(sectab') = Len(sectab) + Len(cmd.sects)
    BY <1>5, <2>1, CmdType DEF HandleSegment, TypeOK
  <2> QED BY <1>0, <1>5, <1>a, <2>1, <2>2, <2>3 DEF HandleSegment, Fits, TablesFit, NULL
<1>6. CASE HandleSymtab
  <2>1. i < ncmds /\ pc # "symbols" /\ pc' = "symbols" /\ nsyms = 0 /\ nsyms' = Len(cmd.syms)
    BY <1>6 DEF HandleSymtab, Position
  <2>2. /\ symcap' = Len(symtab) + Len(cmd.syms)
        /\ Len(symtab) + Len(cmd.syms) <= (i + 1) * m
    <3>1. file \in Files /\ Len(symtab) <= i * m
      BY <1>0, <2>1 DEF Fits
    <3>2. symcap' = (Len(symtab) + Len(cmd.syms)) % U32
      BY <1>6 DEF HandleSymtab
    <3>3. Len(symtab) + Len(cmd.syms) = (Len(symtab) + Len(cmd.syms)) % U32
          /\ Len(symtab) + Len(cmd.syms) <= (i + 1) * m
      <4> DEFINE k == Len(symtab)
                 d == Len(cmd.syms)
      <4>1. k \in Nat /\ d \in Nat /\ k <= i * m /\ d <= m
        BY <1>0, <1>a, <2>1, <3>1
      <4> HIDE DEF k, d
      <4>2. (k + d) % U32 = k + d /\ k + d <= (i + 1) * m
        BY <2>1, <3>1, <4>1, NoCut
      <4> QED BY <4>2 DEF k, d
    <3> QED BY <3>2, <3>3
  <2> QED BY <1>0, <1>6, <1>a, <2>1, <2>2 DEF HandleSymtab, Fits, TablesFit, NULL
<1>7. CASE HandleSymbol
  <2>1. Len(symtab') + nsyms' <= Len(symtab) + nsyms
    <3> DEFINE line == Listed(entry, GetSymbol(entry, sectab), cmd)
    <3>1. symtab' = Append(symtab, line) \/ symtab' = symtab
      BY <1>7 DEF HandleSymbol
    <3>2. Len(symtab') <= Len(symtab) + 1
      <4> HIDE DEF line
      <4> QED BY <1>0, <3>1 DEF TypeOK
    <3>3. nsyms' = nsyms - 1
      BY <1>7 DEF HandleSymbol
    <3>4. Len(symtab') \in Nat
      <4> HIDE DEF line
      <4> QED BY <1>0, <3>1 DEF TypeOK
    <3> QED BY <1>0, <3>2, <3>3, <3>4
  <2>2. Len(symtab') + nsyms' \in Int
    BY <1>7, TypeStep DEF TypeOK
  <2>3. (i + 1) * m \in Nat
    BY <1>0
  <2> QED BY <1>0, <1>7, <2>1, <2>2, <2>3 DEF HandleSymbol, Fits, TablesFit
<1>8. CASE EndSymtab
  <2>1. (i + 1) * m = i * m + m
    BY <1>0
  <2> QED BY <1>0, <1>8, <2>1 DEF EndSymtab, Fits, TablesFit
<1>9. CASE HandleOther
  <2>1. (i + 1) * m = i * m + m
    BY <1>0
  <2> QED BY <1>0, <1>9, <2>1 DEF HandleOther, Fits, TablesFit
<1>10. CASE EndHandle
  BY <1>10 DEF EndHandle, Fits, TablesFit
<1>11. CASE UNCHANGED vars
  BY <1>11 DEF vars, Fits, TablesFit
<1> QED
  BY <1>1, <1>2, <1>3, <1>4, <1>5, <1>6, <1>7, <1>8, <1>9, <1>10, <1>11 DEF Next, Walk

\* The growing tables never overrun their allocation, as long as the entry
\* counts of the images can be summed in a uint32_t.
THEOREM TablesAlwaysFit ==
  ASSUME NEW CONSTANT m \in Nat, Countable(m)
  PROVE  Spec => []TablesFit
<1> DEFINE Inv == TypeOK /\ Position
<1>1. Init => Fits(m)
  <2>1. 0 * m = 0
    OBVIOUS
  <2> QED BY <2>1 DEF Init, Fits, TablesFit, Room, NULL
<1>2. Inv /\ Fits(m) /\ [Next]_vars => Fits(m)'
  BY FitsStep
<1>3. Fits(m) => TablesFit
  BY DEF Fits
<1>4. Spec => []Inv
  BY TypeCorrect
<1> HIDE DEF Inv
<1> QED BY <1>1, <1>2, <1>3, <1>4, PTL DEF Spec

-----------------------------------------------------------------------------
(* Induction and recursion *)

\* A set of numbers has a least element: a statement about all numbers is
\* proved from the least number it could fail for.
LEMMA LeastNumber ==
  ASSUME NEW T \in SUBSET Nat, T # {}
  PROVE  \E x \in T : \A y \in T : x <= y
<1>1. PICK x \in T : \A y \in T : ~(<<y, x>> \in OpToRel(<, Nat))
  BY WFMin, NatLessThanWellFounded, Zenon
<1>2. \A y \in T : ~(y < x)
  BY <1>1, Zenon DEF OpToRel
<1> QED BY <1>2

\* Induction up to a number, over the set of the numbers a statement holds for.
LEMMA InductionUpTo ==
  ASSUME NEW N \in Nat, NEW P, 0 \in P,
         \A n \in 1..N : n - 1 \in P => n \in P
  PROVE  0..N \subseteq P
<1> DEFINE Bad == (0..N) \ P
<1> SUFFICES ASSUME Bad # {} PROVE FALSE
  OBVIOUS
<1>1. PICK m \in Bad : \A y \in Bad : m <= y
  <2>1. Bad \in SUBSET Nat
    OBVIOUS
  <2> HIDE DEF Bad
  <2> QED BY <2>1, LeastNumber
<1>2. m \in 1..N /\ m - 1 \in 0..N /\ m - 1 < m
  BY <1>1
<1>3. m - 1 \notin Bad
  BY <1>1, <1>2
<1> QED BY <1>1, <1>2, <1>3

Recursive(g, N, S, zero, step) ==
  /\ g \in [0..N -> S] /\ g[0] = zero
  /\ \A n \in 1..N : g[n] = step[<<n, g[n - 1]>>]

\* A recursive function exists: each value is what a step makes of the one before.
LEMMA Recursion ==
  ASSUME NEW N \in Nat, NEW S, NEW zero \in S, NEW step \in [(1..N) \X S -> S]
  PROVE  \E g : Recursive(g, N, S, zero, step)
<1> DEFINE Is(g, m) == /\ g \in [0..m -> S] /\ g[0] = zero
                       /\ \A n \in 1..m : g[n] = step[<<n, g[n - 1]>>]
           Has(m) == \E g : Is(g, m)
           P == {m \in 0..N : Has(m)}
<1>1. 0 \in P
  <2>1. Is([n \in 0..0 |-> zero], 0)
    OBVIOUS
  <2>2. Has(0)
    <3> HIDE DEF Is
    <3> QED BY <2>1
  <2> HIDE DEF Has
  <2> QED BY <2>2
<1>2. ASSUME NEW m \in 1..N, m - 1 \in P PROVE m \in P
  <2>1. PICK g : Is(g, m - 1)
    BY <1>2
  <2> DEFINE h == [n \in 0..m |-> IF n = m THEN step[<<m, g[m - 1]>>] ELSE g[n]]
  <2>2. m - 1 \in 0..(m - 1) /\ 0 \in 0..(m - 1) /\ 0 # m
    OBVIOUS
  <2>3. g[m - 1] \in S
    BY <2>1, <2>2
  <2>4. step[<<m, g[m - 1]>>] \in S
    BY <2>3
  <2>5. \A n \in 0..m : n # m => n \in 0..(m - 1)
    OBVIOUS
  <2>6. h \in [0..m -> S] /\ h[0] = zero
    BY <2>1, <2>2, <2>4, <2>5
  <2>7. ASSUME NEW n \in 1..m PROVE h[n] = step[<<n, h[n - 1]>>]
    <3>1. n \in 0..m /\ n - 1 \in 0..m /\ n - 1 # m
      OBVIOUS
    <3>2. h[n - 1] = g[n - 1]
      BY <3>1
    <3>3. CASE n = m
      BY <3>1, <3>2, <3>3
    <3>4. CASE n # m
      <4>1. n \in 1..(m - 1)
        BY <3>4
      <4>2. h[n] = g[n]
        BY <3>1, <3>4
      <4> QED BY <2>1, <3>2, <4>1, <4>2
    <3> QED BY <3>3, <3>4
  <2> HIDE DEF h
  <2>8. Is(h, m)
    BY <2>6, <2>7
  <2> QED BY <2>8
<1>3. 0..N \subseteq P
  <2> HIDE DEF P
  <2> QED BY <1>1, <1>2, InductionUpTo
<1>4. Has(N)
  <2>1. N \in 0..N
    OBVIOUS
  <2> HIDE DEF Has
  <2> QED BY <1>3, <2>1
<1> QED BY <1>4 DEF Recursive

-----------------------------------------------------------------------------
(* The recursive functions of the reference *)

Added(c) == IF c.cmd \in SegmentCmds THEN c.sects ELSE << >>

LEMMA CommandsOf ==
  ASSUME NEW f \in File
  PROVE  /\ Len(f.cmds) \in Nat
         /\ \A n \in 1..Len(f.cmds) :
              /\ f.cmds[n] \in LoadCommand
              /\ f.cmds[n].sects \in Seq(Section) /\ f.cmds[n].syms \in Seq(Nlist)
              /\ Added(f.cmds[n]) \in Seq(Section)
              /\ f.cmds[n].cmdsize \in Nat
<1>1. f.cmds \in Seq(LoadCommand)
  BY DEF File
<1>2. \A n \in 1..Len(f.cmds) : f.cmds[n] \in LoadCommand
  BY <1>1
<1>3. \A c \in LoadCommand : /\ c.sects \in Seq(Section) /\ c.syms \in Seq(Nlist)
                             /\ c.cmdsize \in Nat
  BY WordAssumption DEF LoadCommand
<1>4. \A c \in LoadCommand : Added(c) \in Seq(Section)
  BY <1>3 DEF Added
<1> QED BY <1>1, <1>2, <1>3, <1>4

\* SectionsOf is what its definition describes: the sections grow by those of
\* each segment command.
LEMMA SectionsOfIs ==
  ASSUME NEW f \in File
  PROVE  /\ SectionsOf(f)[0] = << >>
         /\ \A n \in 1..Len(f.cmds) :
              SectionsOf(f)[n] = SectionsOf(f)[n - 1] \o Added(f.cmds[n])
         /\ \A n \in 0..Len(f.cmds) : SectionsOf(f)[n] \in Seq(Section)
<1> DEFINE N == Len(f.cmds)
           Is(g) == g = [n \in 0..N |-> IF n = 0 THEN << >>
                                        ELSE g[n - 1] \o Added(f.cmds[n])]
           step == [p \in (1..N) \X Seq(Section) |-> p[2] \o Added(f.cmds[p[1]])]
<1>1. N \in Nat /\ \A n \in 1..N : Added(f.cmds[n]) \in Seq(Section)
  BY CommandsOf
<1>2. step \in [(1..N) \X Seq(Section) -> Seq(Section)]
  BY <1>1
<1>3. << >> \in Seq(Section)
  OBVIOUS
<1>4. PICK g : Recursive(g, N, Seq(Section), << >>, step)
  <2>1. N \in Nat
    BY <1>1
  <2> HIDE DEF step, N, Is
  <2> QED BY <2>1, <1>2, <1>3, Recursion
<1>5. \A n \in 1..N : g[n] = g[n - 1] \o Added(f.cmds[n])
  <2>1. \A n \in 1..N : n - 1 \in 0..N
    BY <1>1
  <2> QED BY <1>4, <2>1 DEF Recursive
<1>6. Is(g)
  <2>1. \A n \in 0..N : n # 0 => n \in 1..N
    BY <1>1
  <2> QED BY <1>4, <1>5, <2>1 DEF Recursive
<1>7. SectionsOf(f) = CHOOSE h : Is(h)
  BY DEF SectionsOf, Added
<1>8. Is(SectionsOf(f))
  BY <1>6, <1>7, Zenon
<1>9. \A n \in 0..N : SectionsOf(f)[n] = IF n = 0 THEN << >>
                         ELSE SectionsOf(f)[n - 1] \o Added(f.cmds[n])
  BY <1>8, Zenon
<1>10. 0 \in 0..N /\ \A n \in 1..N : n \in 0..N /\ n # 0
  BY <1>1
<1> HIDE DEF Is
<1>11. /\ SectionsOf(f)[0] = << >>
       /\ \A n \in 1..N : SectionsOf(f)[n] = SectionsOf(f)[n - 1] \o Added(f.cmds[n])
  BY <1>9, <1>10, Zenon
<1>12. \A n \in 0..N : SectionsOf(f)[n] \in Seq(Section)
  <2> DEFINE P == {n \in 0..N : SectionsOf(f)[n] \in Seq(Section)}
  <2>1. 0 \in P
    <3>1. << >> \in Seq(Section) /\ 0 \in Nat
      OBVIOUS
    <3> QED BY <1>10, <1>11, <3>1, Zenon
  <2>2. ASSUME NEW n \in 1..N, n - 1 \in P PROVE n \in P
    <3>1. SectionsOf(f)[n] = SectionsOf(f)[n - 1] \o Added(f.cmds[n])
      BY <1>11
    <3>2. SectionsOf(f)[n - 1] \in Seq(Section) /\ Added(f.cmds[n]) \in Seq(Section)
      BY <1>1, <2>2
    <3>3. SectionsOf(f)[n - 1] \o Added(f.cmds[n]) \in Seq(Section)
      BY <3>2
    <3> QED BY <1>10, <3>1, <3>3, Zenon
  <2>3. 0..N \subseteq P
    <3> HIDE DEF P
    <3> QED BY <1>1, <2>1, <2>2, InductionUpTo
  <2> QED BY <2>3
<1> QED BY <1>11, <1>12

\* SizesOf is the running sum of the sizes.
LEMMA SizesOfIs ==
  ASSUME NEW f \in File
  PROVE  /\ SizesOf(f)[0] = 0
         /\ \A n \in 1..Len(f.cmds) :
              SizesOf(f)[n] = SizesOf(f)[n - 1] + f.cmds[n].cmdsize
         /\ \A n \in 0..Len(f.cmds) : SizesOf(f)[n] \in Nat /\ SizesOf(f)[n] <= TotalSize(f)
<1> DEFINE N == Len(f.cmds)
           Is(g) == g = [n \in 0..N |-> IF n = 0 THEN 0
                                        ELSE g[n - 1] + f.cmds[n].cmdsize]
           step == [p \in (1..N) \X Nat |-> p[2] + f.cmds[p[1]].cmdsize]
<1>1. N \in Nat /\ \A n \in 1..N : f.cmds[n].cmdsize \in Nat
  BY CommandsOf
<1>2. step \in [(1..N) \X Nat -> Nat]
  BY <1>1
<1>4. PICK g : Recursive(g, N, Nat, 0, step)
  <2>1. N \in Nat /\ 0 \in Nat
    BY <1>1
  <2> HIDE DEF step, N, Is
  <2> QED BY <2>1, <1>2, Recursion
<1>5. \A n \in 1..N : g[n] = g[n - 1] + f.cmds[n].cmdsize
  <2>1. \A n \in 1..N : n - 1 \in 0..N
    BY <1>1
  <2> QED BY <1>4, <2>1 DEF Recursive
<1>6. Is(g)
  <2>1. \A n \in 0..N : n # 0 => n \in 1..N
    BY <1>1
  <2> QED BY <1>4, <1>5, <2>1 DEF Recursive
<1>7. SizesOf(f) = CHOOSE h : Is(h)
  BY DEF SizesOf
<1>8. Is(SizesOf(f))
  BY <1>6, <1>7, Zenon
<1>9. \A n \in 0..N : SizesOf(f)[n] = IF n = 0 THEN 0
                         ELSE SizesOf(f)[n - 1] + f.cmds[n].cmdsize
  BY <1>8, Zenon
<1>10. 0 \in 0..N /\ \A n \in 1..N : n \in 0..N /\ n # 0
  BY <1>1
<1> HIDE DEF Is
<1>11. /\ SizesOf(f)[0] = 0
       /\ \A n \in 1..N : SizesOf(f)[n] = SizesOf(f)[n - 1] + f.cmds[n].cmdsize
  BY <1>9, <1>10, Zenon
<1>12. \A n \in 0..N : SizesOf(f)[n] \in Nat
  <2> DEFINE P == {n \in 0..N : SizesOf(f)[n] \in Nat}
  <2>1. 0 \in P
    <3>1. << >> \in Seq(Section) /\ 0 \in Nat
      OBVIOUS
    <3> QED BY <1>10, <1>11, <3>1, Zenon
  <2>2. ASSUME NEW n \in 1..N, n - 1 \in P PROVE n \in P
    <3>1. SizesOf(f)[n] = SizesOf(f)[n - 1] + f.cmds[n].cmdsize
      BY <1>11
    <3>2. SizesOf(f)[n - 1] \in Nat /\ f.cmds[n].cmdsize \in Nat
      BY <1>1, <2>2
    <3>3. SizesOf(f)[n - 1] + f.cmds[n].cmdsize \in Nat
      BY <3>2
    <3> QED BY <1>10, <3>1, <3>3, Zenon
  <2>3. 0..N \subseteq P
    <3> HIDE DEF P
    <3> QED BY <1>1, <2>1, <2>2, InductionUpTo
  <2> QED BY <2>3
<1>13. \A n \in 0..N : SizesOf(f)[n] <= SizesOf(f)[N]
  <2> DEFINE P == {d \in 0..N : SizesOf(f)[N - d] <= SizesOf(f)[N]}
  <2>1. 0 \in P
    BY <1>1, <1>12
  <2>2. ASSUME NEW d \in 1..N, d - 1 \in P PROVE d \in P
    <3>1. N - d \in 0..N /\ N - d + 1 \in 1..N /\ N - (d - 1) = N - d + 1 /\ N - d + 1 - 1 = N - d
      BY <1>1
    <3>2. SizesOf(f)[N - d + 1] = SizesOf(f)[N - d] + f.cmds[N - d + 1].cmdsize
      BY <1>11, <3>1
    <3>3. SizesOf(f)[N - d + 1] <= SizesOf(f)[N]
      BY <2>2, <3>1
    <3>4. SizesOf(f)[N - d] \in Nat /\ SizesOf(f)[N] \in Nat /\ f.cmds[N - d + 1].cmdsize \in Nat
      BY <1>1, <1>12, <3>1
    <3> QED BY <3>1, <3>2, <3>3, <3>4
  <2>3. 0..N \subseteq P
    <3> HIDE DEF P
    <3> QED BY <1>1, <2>1, <2>2, InductionUpTo
  <2>4. ASSUME NEW n \in 0..N PROVE SizesOf(f)[n] <= SizesOf(f)[N]
    <3>1. N - n \in 0..N /\ N - (N - n) = n
      BY <1>1
    <3> QED BY <2>3, <3>1
  <2> QED BY <2>4
<1> QED BY <1>11, <1>12, <1>13 DEF TotalSize

\* The sections gathered so far begin the complete table, and are all of it
\* when no segment command follows.
LEMMA SectionsGrow ==
  ASSUME NEW f \in File, NEW m \in 0..Len(f.cmds)
  PROVE  LET N == Len(f.cmds)
             S == SectionsOf(f)
         IN /\ Len(S[m]) <= Len(S[N])
            /\ \A j \in 1..Len(S[m]) : S[N][j] = S[m][j]
            /\ (\A n \in (m + 1)..N : f.cmds[n].cmd \notin SegmentCmds) => S[N] = S[m]
<1> DEFINE N == Len(f.cmds)
           S == SectionsOf(f)
           Begins(n) == /\ Len(S[m]) <= Len(S[n])
                        /\ \A j \in 1..Len(S[m]) : S[n][j] = S[m][j]
                        /\ (\A l \in (m + 1)..n : f.cmds[l].cmd \notin SegmentCmds) => S[n] = S[m]
           P == {d \in 0..(N - m) : Begins(m + d)}
<1>1. N \in Nat /\ m \in Nat /\ N - m \in Nat
  BY CommandsOf
<1>2. /\ \A n \in 0..N : S[n] \in Seq(Section)
      /\ \A n \in 1..N : S[n] = S[n - 1] \o Added(f.cmds[n]) /\ Added(f.cmds[n]) \in Seq(Section)
  BY SectionsOfIs, CommandsOf
<1> HIDE DEF S
<1>3. 0 \in P
  <2>1. Begins(m)
    BY <1>1, <1>2
  <2>2. m + 0 = m
    BY <1>1
  <2> QED BY <1>1, <2>1, <2>2
<1>4. ASSUME NEW d \in 1..(N - m), d - 1 \in P PROVE d \in P
  <2>1. PICK n \in 1..N : n = m + d /\ n - 1 = m + (d - 1) /\ n - 1 \in 0..N
    BY <1>1
  <2>2. Begins(n - 1)
    BY <1>4, <2>1
  <2>3. /\ S[n] = S[n - 1] \o Added(f.cmds[n])
        /\ S[n - 1] \in Seq(Section) /\ Added(f.cmds[n]) \in Seq(Section) /\ S[m] \in Seq(Section)
    BY <1>2, <2>1
  <2> DEFINE a == S[n - 1]
             b == Added(f.cmds[n])
  <2>a. Len(S[m]) <= Len(a) /\ \A j \in 1..Len(S[m]) : a[j] = S[m][j]
    BY <2>2
  <2>b. a \in Seq(Section) /\ b \in Seq(Section) /\ S[n] = a \o b /\ Len(S[m]) \in Nat
    BY <2>3
  <2>4. Len(S[m]) <= Len(S[n]) /\ \A j \in 1..Len(S[m]) : S[n][j] = S[m][j]
    <3> HIDE DEF a, b, Begins
    <3>1. Len(a \o b) = Len(a) + Len(b) /\ Len(a) \in Nat /\ Len(b) \in Nat
      BY <2>b
    <3>2. \A j \in 1..Len(a) : (a \o b)[j] = a[j]
      BY <2>b
    <3> QED BY <2>a, <2>b, <3>1, <3>2
  <2>5. ASSUME \A l \in (m + 1)..n : f.cmds[l].cmd \notin SegmentCmds PROVE S[n] = S[m]
    <3>1. \A l \in (m + 1)..(n - 1) : l \in (m + 1)..n
      BY <1>1
    <3>2. n \in (m + 1)..n
      BY <1>1, <2>1
    <3>3. S[n - 1] = S[m]
      BY <2>2, <2>5, <3>1
    <3>4. Added(f.cmds[n]) = << >>
      BY <2>5, <3>2 DEF Added
    <3> QED BY <2>3, <3>3, <3>4
  <2>6. Begins(m + d)
    BY <2>1, <2>4, <2>5
  <2> HIDE DEF Begins
  <2> QED BY <2>6
<1>5. 0..(N - m) \subseteq P
  <2> HIDE DEF P
  <2> QED BY <1>1, <1>3, <1>4, InductionUpTo
<1>6. Begins(N)
  <2>1. N - m \in 0..(N - m) /\ m + (N - m) = N
    BY <1>1
  <2>2. Begins(m + (N - m))
    BY <1>5, <2>1
  <2> HIDE DEF Begins
  <2> QED BY <2>1, <2>2
<1> QED BY <1>6 DEF S

-----------------------------------------------------------------------------
(* The section table *)

InOrder ==
  /\ SectionsInOrder
  /\ pc = "check" /\ bin = "otool" => i = 0

LEMMA InOrderInit == Init => InOrder
BY DEF Init, InOrder, SectionsInOrder

LEMMA InOrderStep == TypeOK /\ Position /\ InOrder /\ [Next]_vars => InOrder'
<1> SUFFICES ASSUME TypeOK, Position, InOrder, [Next]_vars PROVE InOrder'
  OBVIOUS
<1> USE DEF input, tables, InOrder, SectionsInOrder
<1>00. /\ file \in File /\ ncmds = Len(file.cmds) /\ ncmds \in Nat /\ i \in 0..ncmds
  BY DEF TypeOK, File, ncmds
<1>0. /\ ncmds = Len(file.cmds) /\ i \in 0..ncmds /\ ncmds \in Nat
      /\ SectionsOf(file)[0] = << >>
  BY <1>00, SectionsOfIs
<1>a. ASSUME i < ncmds
      PROVE  SectionsOf(file)[i + 1] = SectionsOf(file)[i] \o Added(cmd)
  <2>1. i + 1 \in 1..Len(file.cmds) /\ i + 1 - 1 = i
    BY <1>0, <1>a
  <2>2. \A n \in 1..Len(file.cmds) :
          SectionsOf(file)[n] = SectionsOf(file)[n - 1] \o Added(file.cmds[n])
    BY <1>00, SectionsOfIs, Zenon
  <2>3. PICK n \in 1..Len(file.cmds) : n = i + 1 /\ n - 1 = i
    BY <1>0, <2>1
  <2>4. SectionsOf(file)[n] = SectionsOf(file)[n - 1] \o Added(file.cmds[n])
    BY <2>2
  <2> QED BY <2>3, <2>4, Zenon DEF cmd
<1>b. ASSUME i < ncmds, cmd.cmd \notin SegmentCmds, sectab = SectionsOf(file)[i]
      PROVE  sectab = SectionsOf(file)[i + 1]
  <2>1. Added(cmd) = << >> /\ sectab \in Seq(Section)
    BY <1>b DEF Added, TypeOK
  <2>2. sectab \o << >> = sectab
    BY <2>1
  <2> QED BY <1>a, <1>b, <2>1, <2>2
<1>1. CASE Skip
  BY <1>1 DEF Skip
<1>2. CASE SkipCheck
  BY <1>0, <1>2 DEF SkipCheck, Position
<1>3. CASE CheckCommand
  BY <1>3 DEF CheckCommand
<1>4. CASE EndCheck
  BY <1>0, <1>4 DEF EndCheck, Position
<1>5. CASE HandleSegment
  BY <1>a, <1>5 DEF HandleSegment, Added
<1>6. CASE HandleSymtab
  BY <1>6 DEF HandleSymtab
<1>7. CASE HandleSymbol
  BY <1>7 DEF HandleSymbol
<1>8. CASE EndSymtab
  <2>1. i < ncmds /\ cmd.cmd \notin SegmentCmds
    BY <1>8 DEF EndSymtab, Position, SegmentCmds
  <2> QED BY <1>b, <1>8, <2>1 DEF EndSymtab
<1>9. CASE HandleOther
  <2>1. i < ncmds /\ cmd.cmd \notin SegmentCmds
    BY <1>9 DEF HandleOther, HasHandler
  <2> QED BY <1>b, <1>9, <2>1 DEF HandleOther
<1>10. CASE EndHandle
  <2>1. i < ncmds => cmd.cmd \in Cmds /\ cmd.cmd \notin HandledCmds
    BY <1>10, CmdType DEF EndHandle, LoadCommand
  <2>2. i < ncmds => cmd.cmd = "UNKNOWN"
    BY <2>1, ListsAgree
  <2> QED BY <1>10, <2>2 DEF EndHandle, ncmds, cmd
<1>11. CASE UNCHANGED vars
  BY <1>11 DEF vars, ncmds, cmd
<1> QED
  BY <1>1, <1>2, <1>3, <1>4, <1>5, <1>6, <1>7, <1>8, <1>9, <1>10, <1>11 DEF Next, Walk

\* The table that n_sect of a symbol indexes holds the sections of the segments
\* walked over, in file order, on every image and in both programs
\* (handle_lc_segment appends, update_sectab_size copies).
THEOREM SectionsAlwaysInOrder == Spec => []SectionsInOrder
<1>1. Init => TypeOK /\ Position /\ InOrder
  BY TypeInit, InOrderInit
<1>2. TypeOK /\ Position /\ InOrder /\ [Next]_vars => (TypeOK /\ Position /\ InOrder)'
  BY TypeStep, InOrderStep
<1>3. InOrder => SectionsInOrder
  BY DEF InOrder
<1> QED BY <1>1, <1>2, <1>3, PTL DEF Spec

-----------------------------------------------------------------------------
(* The images the check pass lets through *)

LEMMA ExactEnds ==
  ASSUME NEW f \in File, NoWrap(f), NEW n \in 1..Len(f.cmds)
  PROVE  LET c == f.cmds[n] IN
         /\ c.cmd = "SYMTAB"     => StringEnd(c) = c.stroff + c.strsize
         /\ c.cmd \in SegmentCmds => SegmentEnd(c) = c.fileoff + c.filesize
<1> DEFINE c == f.cmds[n]
<1>1. c \in LoadCommand
  BY CommandsOf
<1>2. /\ c.stroff \in Nat /\ c.strsize \in Nat /\ c.fileoff \in Nat /\ c.filesize \in Nat
      /\ U32 \in Nat \ {0} /\ U64 \in Nat \ {0}
  <2>1. U32 \in Nat \ {0} /\ U64 \in Nat \ {0}
    BY WordAssumption
  <2>2. /\ c.stroff \in 0..(U32 - 1) /\ c.strsize \in 0..(U32 - 1)
        /\ c.fileoff \in Nat /\ c.filesize \in Nat
    <3> HIDE DEF c
    <3> QED BY <1>1 DEF LoadCommand
  <2> QED BY <2>1, <2>2
<1>3. /\ c.cmd = "SYMTAB"     => c.stroff + c.strsize < U32
      /\ c.cmd = "SEGMENT"    => c.fileoff + c.filesize < U32
      /\ c.cmd = "SEGMENT_64" => c.fileoff + c.filesize < U64
  BY DEF NoWrap
<1>4. \A k \in Nat : \A u \in Nat \ {0} : k < u => k % u = k
  OBVIOUS
<1> HIDE DEF c
<1>5. c.cmd = "SYMTAB" => StringEnd(c) = c.stroff + c.strsize
  <2>1. c.stroff + c.strsize \in Nat
    BY <1>2
  <2> QED BY <1>2, <1>3, <1>4, <2>1 DEF StringEnd
<1>6. c.cmd \in SegmentCmds => SegmentEnd(c) = c.fileoff + c.filesize
  <2>0. c.fileoff + c.filesize \in Nat
    BY <1>2
  <2>1. CASE c.cmd = "SEGMENT"
    BY <1>2, <1>3, <1>4, <2>0, <2>1 DEF SegmentEnd
  <2>2. CASE c.cmd = "SEGMENT_64"
    BY <1>2, <1>3, <1>4, <2>0, <2>2 DEF SegmentEnd
  <2> QED BY <2>1, <2>2 DEF SegmentCmds
<1> QED BY <1>5, <1>6 DEF c

\* On a command whose sums do not wrap, the comparisons the check makes are
\* those of a well-formed command.
LEMMA CheckIsExact ==
  ASSUME TypeOK, Position, pc = "check", i < ncmds, NoWrap(file)
  PROVE  cmd.cmdsize # 0 /\ check_load_command(cmd, file) <=> WellFormedCommand(cmd, file)
<1>1. i + 1 \in 1..Len(file.cmds) /\ file \in File /\ cmd \in LoadCommand
  BY CmdType DEF TypeOK, ncmds
<1>2. /\ cmd.cmd = "SYMTAB"     => StringEnd(cmd) = cmd.stroff + cmd.strsize
      /\ cmd.cmd \in SegmentCmds => SegmentEnd(cmd) = cmd.fileoff + cmd.filesize
  BY <1>1, ExactEnds DEF cmd
<1>3. cmd.cmd \in Cmds /\ cmd.cmdsize \in Nat /\ symcap = NULL /\ Len(cmd.sects) \in Nat
  BY <1>1, CmdType, WordAssumption DEF LoadCommand, Position
<1>4. CASE cmd.cmd = "SYMTAB"
  BY <1>2, <1>3, <1>4, ListsAgree
     DEF check_load_command, check_lc_symtab, WellFormedCommand, SegmentCmds,
         SymtabCommandSize, SymbolTableInside, StringTableInside
<1>5. CASE cmd.cmd \in SegmentCmds
  <2>0. SectionSize(cmd) \in Nat /\ SegmentSize(cmd) \in Nat \ {0}
    BY DEF SectionSize, SegmentSize
  <2>1. SegmentSize(cmd) \in Nat \ {0} /\ Len(cmd.sects) * SectionSize(cmd) \in Nat
    BY <1>3, <2>0, Product
  <2> DEFINE body == Len(cmd.sects) * SectionSize(cmd)
  <2>2. body \in Nat
    BY <2>1
  <2>3. cmd.cmd # "SYMTAB" /\ cmd.cmd \in CheckedCmds
    BY <1>5, ListsAgree DEF SegmentCmds
  <2>4. check_load_command(cmd, file) <=>
          cmd.cmdsize = body + SegmentSize(cmd) /\ cmd.fileoff + cmd.filesize <= file.fsize
    BY <1>2, <1>5, <2>3 DEF check_load_command, check_lc_segment
  <2>5. WellFormedCommand(cmd, file) <=>
          cmd.cmdsize = SegmentSize(cmd) + body /\ cmd.fileoff + cmd.filesize <= file.fsize
    BY <1>5, <2>3 DEF WellFormedCommand, SegmentInside
  <2> HIDE DEF body
  <2> QED BY <1>3, <2>1, <2>2, <2>4, <2>5
<1>6. CASE cmd.cmd \notin SegmentCmds \cup {"SYMTAB"}
  <2>1. cmd.cmd \in CheckedCmds <=> cmd.cmd # "UNKNOWN"
    BY <1>3, ListsAgree
  <2>2. check_load_command(cmd, file) <=> cmd.cmd \in CheckedCmds
    BY <1>6 DEF check_load_command
  <2>3. WellFormedCommand(cmd, file) <=> cmd.cmd # "UNKNOWN" /\ cmd.cmdsize > 0
    BY <1>6 DEF WellFormedCommand
  <2> QED BY <1>3, <2>1, <2>2, <2>3
<1> QED BY <1>4, <1>5, <1>6

\* What the check pass knows at each command, and what its verdict means.
Judged ==
  bin = "nm" /\ NoWrap(file) =>
    /\ pc = "check" => /\ finalSize = SizesOf(file)[i]
                       /\ \A n \in 1..i : WellFormedCommand(file.cmds[n], file)
                       /\ i > 0 => file.wanted
    /\ pc \in {"handle", "symbols", "print"} => WellFormed(file) /\ file.wanted
    /\ pc = "rejected" => ~(WellFormed(file) /\ file.wanted)

LEMMA JudgedInit == Init => Judged
<1> SUFFICES ASSUME Init PROVE Judged
  OBVIOUS
<1>1. pc = "check" /\ i = 0 /\ finalSize = 0 /\ file \in File
  BY FilesAssumption DEF Init
<1>2. SizesOf(file)[0] = 0
  BY <1>1, SizesOfIs
<1>3. 1..i = {} /\ ~(i > 0)
  BY <1>1
<1> QED BY <1>1, <1>2, <1>3 DEF Judged

LEMMA JudgedStep == TypeOK /\ Position /\ Judged /\ [Next]_vars => Judged'
<1> SUFFICES ASSUME TypeOK, Position, Judged, [Next]_vars,
                    bin' = "nm", NoWrap(file')
             PROVE  Judged'
  BY DEF Judged
<1> USE DEF input, tables
<1>0. /\ file' = file /\ bin' = bin /\ NoWrap(file) /\ bin = "nm"
  BY DEF Next, Walk, Skip, SkipCheck, CheckCommand, EndCheck, HandleSegment,
         HandleSymtab, HandleSymbol, EndSymtab, HandleOther, EndHandle, vars
<1>00. file \in File /\ ncmds = Len(file.cmds) /\ ncmds \in Nat /\ i \in 0..ncmds
  BY DEF TypeOK, File, ncmds
<1>1. CASE Skip
  BY <1>0, <1>1 DEF Skip, Judged
<1>2. CASE SkipCheck
  BY <1>0, <1>2 DEF SkipCheck
<1>3. CASE CheckCommand
  <2>1. pc = "check" /\ i < ncmds /\ file.wanted
    BY <1>3 DEF CheckCommand
  <2>2. /\ i + 1 \in 1..Len(file.cmds) /\ i + 1 - 1 = i /\ i + 1 \in 0..Len(file.cmds)
        /\ cmd = file.cmds[i + 1]
    BY <1>00, <2>1 DEF cmd
  <2>3. CASE ~WellFormedCommand(cmd, file)
    <3>1. ~WellFormed(file)
      BY <2>2, <2>3 DEF WellFormed
    <3>2. pc' = "rejected"
      BY <1>0, <1>3, <2>1, <2>3, CheckIsExact DEF CheckCommand
    <3> QED BY <1>0, <3>1, <3>2 DEF Judged
  <2>4. CASE WellFormedCommand(cmd, file)
    <3>1. /\ finalSize' = (finalSize + cmd.cmdsize) % U32
          /\ i' = i + 1 /\ pc' = "check"
      BY <1>0, <1>3, <2>1, <2>4, CheckIsExact DEF CheckCommand
    <3>2. finalSize + cmd.cmdsize = SizesOf(file)[i + 1]
      BY <1>0, <1>00, <2>1, <2>2, SizesOfIs DEF Judged
    <3>3. SizesOf(file)[i + 1] \in Nat /\ SizesOf(file)[i + 1] <= TotalSize(file)
      BY <1>00, <2>2, SizesOfIs
    <3>4. TotalSize(file) < U32 /\ TotalSize(file) \in Nat
      <4>1. ncmds \in 0..Len(file.cmds)
        BY <1>00
      <4> QED BY <1>0, <1>00, <4>1, SizesOfIs DEF NoWrap, TotalSize
    <3>5. finalSize' = SizesOf(file)[i + 1]
      <4>1. \A k \in Nat : \A u \in Nat \ {0} : k < u => k % u = k
        OBVIOUS
      <4>2. SizesOf(file)[i + 1] < U32
        BY <3>3, <3>4, WordAssumption
      <4> QED BY <3>1, <3>2, <3>3, <4>1, <4>2, WordAssumption
    <3>6. \A n \in 1..(i + 1) : n \in 1..i \/ n = i + 1
      BY <1>00
    <3>7. \A n \in 1..i : WellFormedCommand(file.cmds[n], file)
      BY <1>0, <2>1 DEF Judged
    <3>8. \A n \in 1..(i + 1) : WellFormedCommand(file.cmds[n], file)
      BY <2>2, <2>4, <3>6, <3>7
    <3> QED BY <1>0, <2>1, <3>1, <3>5, <3>8 DEF Judged
  <2> QED BY <2>3, <2>4
<1>4. CASE EndCheck
  <2>1. pc = "check" /\ file.wanted /\ i = ncmds
    BY <1>4 DEF EndCheck
  <2>2. finalSize = TotalSize(file)
    BY <1>0, <1>00, <2>1 DEF Judged, TotalSize
  <2>3. \A n \in 1..ncmds : WellFormedCommand(file.cmds[n], file)
    BY <1>0, <2>1 DEF Judged
  <2>4. finalSize = file.sizeofcmds <=> WellFormed(file)
    BY <1>00, <2>2, <2>3 DEF WellFormed
  <2>5. pc' = IF finalSize = file.sizeofcmds THEN "handle" ELSE "rejected"
    BY <1>4 DEF EndCheck
  <2> QED BY <1>0, <2>1, <2>4, <2>5 DEF Judged
<1>5. CASE HandleSegment
  BY <1>0, <1>5 DEF HandleSegment, Judged
<1>6. CASE HandleSymtab
  BY <1>0, <1>6 DEF HandleSymtab, Judged
<1>7. CASE HandleSymbol
  BY <1>0, <1>7 DEF HandleSymbol, Judged
<1>8. CASE EndSymtab
  BY <1>0, <1>8 DEF EndSymtab, Judged
<1>9. CASE HandleOther
  BY <1>0, <1>9 DEF HandleOther, Judged
<1>10. CASE EndHandle
  BY <1>0, <1>10 DEF EndHandle, Judged
<1>11. CASE UNCHANGED vars
  BY <1>0, <1>11 DEF vars, Judged
<1> QED
  BY <1>1, <1>2, <1>3, <1>4, <1>5, <1>6, <1>7, <1>8, <1>9, <1>10, <1>11 DEF Next, Walk

\* nm lists exactly the well-formed images, whatever their number of commands:
\* what check_macho_file adds up command by command is the size of all of them,
\* and none of its comparisons lets a malformed command through or turns a
\* well-formed one away.
THEOREM ExactlyTheWellFormed == Spec => []AcceptedIffWellFormed
<1>1. Init => TypeOK /\ Position /\ Judged
  BY TypeInit, JudgedInit
<1>2. TypeOK /\ Position /\ Judged /\ [Next]_vars => (TypeOK /\ Position /\ Judged)'
  BY TypeStep, JudgedStep
<1>3. Judged => AcceptedIffWellFormed
  BY DEF Judged, AcceptedIffWellFormed
<1> QED BY <1>1, <1>2, <1>3, PTL DEF Spec
=============================================================================
