------------------------------- MODULE MachO -------------------------------
(***************************************************************************)
(* handle_macho_file: the two passes both programs make over the load      *)
(* commands of one Mach-O image.  The check pass (check_macho_file)        *)
(* validates every command before anything is stored; the handle pass      *)
(* walks the same commands again, fills the section table and, for nm, the *)
(* symbol table.  pinfo->print then runs (modules Nm and Otool).   *)
(***************************************************************************)
EXTENDS MachOFile

CONSTANT Bins  \* the programs that run the walk: a subset of {"nm", "otool"}

ASSUME BinsAssumption == Bins \subseteq {"nm", "otool"}

VARIABLES
  file, opt, bin,  \* what handle_macho_file was called with; never change
  pc,              \* "check", "handle", "symbols", "print" or "rejected"
  i,               \* load commands passed over in the current pass
  finalSize,       \* final_size of the check pass
  sectab,          \* pinfo->sectab[0 .. secid-1]
  seccap,          \* entries allocated for sectab, NULL before the first
  symtab,          \* pinfo->symtab[0 .. symid-1]
  symcap,          \* entries allocated for symtab, NULL before the first
  nsyms,           \* entries left to read in the current symbol table
  sectionStart     \* pinfo->section_start

input == <<file, opt, bin>>
vars  == <<file, opt, bin, pc, i, finalSize, sectab, seccap, symtab, symcap,
           nsyms, sectionStart>>

NULL == -1

-----------------------------------------------------------------------------
ncmds == Len(file.cmds)
cmd   == file.cmds[i + 1]

\* The end of a string table and of a 32-bit segment wraps at 2^32, the end of
\* a 64-bit segment at 2^64.
StringEnd(c)  == (c.stroff + c.strsize) % U32
SegmentEnd(c) == (c.fileoff + c.filesize) % (IF c.cmd = "SEGMENT" THEN U32 ELSE U64)

\* Mutant: a symbol table may run into the string table.
check_lc_symtab_Overlap(c, f) ==
  /\ c.cmdsize = SymtabCommandSize
  /\ symcap = NULL
  /\ SymtabEnd(c, f.arch) <= f.fsize
  /\ StringEnd(c) <= f.fsize

check_lc_symtab(c, f) ==
  /\ c.cmdsize = SymtabCommandSize
  /\ symcap = NULL
  /\ SymtabEnd(c, f.arch) <= f.fsize
  /\ StringEnd(c) <= f.fsize
  /\ SymtabEnd(c, f.arch) <= c.stroff

\* Mutant: the size of a segment command is not compared with nsects.
check_lc_segment_AnySize(c, f) == SegmentEnd(c) <= f.fsize

check_lc_segment(c, f) ==
  /\ c.cmdsize = Len(c.sects) * SectionSize(c) + SegmentSize(c)
  /\ SegmentEnd(c) <= f.fsize

check_load_command(c, f) ==
  /\ c.cmd = "SYMTAB" => check_lc_symtab(c, f)
  /\ c.cmd \in SegmentCmds => check_lc_segment(c, f)
  /\ c.cmd \in CheckedCmds

-----------------------------------------------------------------------------
Init ==
  /\ file \in Files /\ opt \in Options /\ bin \in Bins
  /\ pc = "check"
  /\ i = 0 /\ finalSize = 0
  /\ sectab = << >> /\ seccap = NULL
  /\ symtab = << >> /\ symcap = NULL
  /\ nsyms = 0
  /\ sectionStart = FALSE

tables == <<sectab, seccap, symtab, symcap, nsyms, sectionStart>>

\* A file of an architecture nobody asked for is left alone.
Skip ==
  /\ pc = "check" /\ i = 0 /\ ~file.wanted
  /\ pc' = "rejected"
  /\ UNCHANGED <<input, i, finalSize, tables>>

\* otool makes no check pass.
SkipCheck ==
  /\ pc = "check" /\ file.wanted /\ bin = "otool"
  /\ pc' = "handle"
  /\ UNCHANGED <<input, i, finalSize, tables>>

\* Mutants: the running sum has no width; the loop does not move on.
CheckCommand_Wide ==
  /\ pc = "check" /\ file.wanted /\ bin = "nm" /\ i < ncmds
  /\ IF cmd.cmdsize # 0 /\ check_load_command(cmd, file)
       THEN finalSize' = finalSize + cmd.cmdsize /\ i' = i + 1 /\ pc' = pc
       ELSE pc' = "rejected" /\ UNCHANGED <<i, finalSize>>
  /\ UNCHANGED <<input, tables>>

CheckCommand_Stays ==
  /\ pc = "check" /\ file.wanted /\ bin = "nm" /\ i < ncmds
  /\ IF cmd.cmdsize # 0 /\ check_load_command(cmd, file)
       THEN finalSize' = (finalSize + cmd.cmdsize) % U32 /\ i' = i /\ pc' = pc
       ELSE pc' = "rejected" /\ UNCHANGED <<i, finalSize>>
  /\ UNCHANGED <<input, tables>>

CheckCommand ==
  /\ pc = "check" /\ file.wanted /\ bin = "nm" /\ i < ncmds
  /\ IF cmd.cmdsize # 0 /\ check_load_command(cmd, file)
       THEN /\ finalSize' = (finalSize + cmd.cmdsize) % U32
            /\ i' = i + 1
            /\ pc' = pc
       ELSE /\ pc' = "rejected"
            /\ UNCHANGED <<i, finalSize>>
  /\ UNCHANGED <<input, tables>>

\* Mutant: the handle pass does not start again at the first command.
EndCheck_NoRestart ==
  /\ pc = "check" /\ file.wanted /\ bin = "nm" /\ i = ncmds
  /\ pc' = (IF finalSize = file.sizeofcmds THEN "handle" ELSE "rejected")
  /\ UNCHANGED <<input, i, finalSize, tables>>

\* The walk is over: the sizes must add up, and the handle pass starts anew.
EndCheck ==
  /\ pc = "check" /\ file.wanted /\ bin = "nm" /\ i = ncmds
  /\ IF finalSize = file.sizeofcmds
       THEN pc' = "handle" /\ i' = 0
       ELSE pc' = "rejected" /\ i' = i
  /\ UNCHANGED <<input, finalSize, tables>>

\* A command with a handler of its own; otool has none for symbol tables.
HasHandler(c) == c.cmd \in SegmentCmds \/ (c.cmd = "SYMTAB" /\ bin = "nm")

\* Mutant: room for the new sections only.
HandleSegment_NewOnly ==
  /\ pc = "handle" /\ i < ncmds /\ cmd.cmd \in SegmentCmds
  /\ seccap' = Len(cmd.sects)
  /\ sectab' = sectab \o cmd.sects
  /\ i' = i + 1
  /\ UNCHANGED <<input, pc, finalSize, symtab, symcap, nsyms, sectionStart>>

\* Both handlers of a segment command: room for the new sections is made by
\* copying the table, then each section header is appended.
HandleSegment ==
  /\ pc = "handle" /\ i < ncmds /\ cmd.cmd \in SegmentCmds
  /\ seccap' = (Len(sectab) + Len(cmd.sects)) % U32
  /\ sectab' = sectab \o cmd.sects
  /\ i' = i + 1
  /\ UNCHANGED <<input, pc, finalSize, symtab, symcap, nsyms, sectionStart>>

HandleSymtab ==
  /\ pc = "handle" /\ i < ncmds /\ cmd.cmd = "SYMTAB" /\ bin = "nm"
  /\ symcap' = (Len(symtab) + Len(cmd.syms)) % U32
  /\ nsyms' = Len(cmd.syms)
  /\ pc' = "symbols"
  /\ UNCHANGED <<input, i, finalSize, sectab, seccap, symtab, sectionStart>>

entry == cmd.syms[Len(cmd.syms) - nsyms + 1]

Listed(sym, letter, c) ==
  [sym |-> sym, symbol |-> letter,
   name |-> NameOf(sym, c.stroff, c.strsize, file.fsize),
   indr |-> IndrOf(sym, letter, c.strsize)]

\* Mutant: any symbol of the section counts as its start.
HandleSymbol_AnyAddress ==
  /\ pc = "symbols" /\ nsyms > 0
  /\ LET letter == GetSymbol(entry, sectab) IN
       symtab' = IF Kept(entry, letter, sectab, opt)
                   THEN Append(symtab, Listed(entry, letter, cmd))
                   ELSE symtab
  /\ sectionStart' = \/ sectionStart
                     \/ /\ {"l", "s"} \subseteq opt.flags
                        /\ SectionSelected(entry, sectab, opt)
  /\ nsyms' = nsyms - 1
  /\ UNCHANGED <<input, pc, i, finalSize, sectab, seccap, symcap>>

\* One turn of the loop over the entries of the symbol table.
HandleSymbol ==
  /\ pc = "symbols" /\ nsyms > 0
  /\ LET letter == GetSymbol(entry, sectab) IN
       symtab' = IF Kept(entry, letter, sectab, opt)
                   THEN Append(symtab, Listed(entry, letter, cmd))
                   ELSE symtab
  /\ sectionStart' = \/ sectionStart
                     \/ /\ {"l", "s"} \subseteq opt.flags
                        /\ SectionSelected(entry, sectab, opt)
                        /\ entry.value = sectab[entry.sect].addr
  /\ nsyms' = nsyms - 1
  /\ UNCHANGED <<input, pc, i, finalSize, sectab, seccap, symcap>>

EndSymtab ==
  /\ pc = "symbols" /\ nsyms = 0
  /\ pc' = "handle" /\ i' = i + 1
  /\ UNCHANGED <<input, finalSize, tables>>

HandleOther ==
  /\ pc = "handle" /\ i < ncmds
  /\ ~HasHandler(cmd) /\ cmd.cmd \in HandledCmds
  /\ i' = i + 1
  /\ UNCHANGED <<input, pc, finalSize, tables>>

\* The handle pass is over at the last command or at the first unknown one.
EndHandle ==
  /\ pc = "handle"
  /\ i < ncmds => ~HasHandler(cmd) /\ cmd.cmd \notin HandledCmds
  /\ pc' = "print"
  /\ UNCHANGED <<input, i, finalSize, tables>>

Walk == \/ Skip \/ SkipCheck \/ CheckCommand \/ EndCheck
        \/ HandleSegment \/ HandleSymtab \/ HandleSymbol \/ EndSymtab
        \/ HandleOther \/ EndHandle

Stopped == pc \in {"print", "rejected"}

\* The walk takes its next step until it hands over to pinfo->print.
Next == Walk \/ (Stopped /\ UNCHANGED vars)

Spec == Init /\ [][Next]_vars /\ WF_vars(Walk)

-----------------------------------------------------------------------------
(* Properties *)

TypeOK ==
  /\ file \in File /\ opt \in Option /\ bin \in Bins
  /\ pc \in {"check", "handle", "symbols", "print", "rejected"}
  /\ i \in 0..ncmds
  /\ finalSize \in 0..(U32 - 1)
  /\ sectab \in Seq(Section) /\ seccap \in Int
  /\ symtab \in Seq(Row)
  /\ symcap \in Int
  /\ nsyms \in Nat
  /\ sectionStart \in BOOLEAN

\* The handle pass reads no symbol entry that the check pass did not place in
\* the file and in front of the string table (handle_lc_symtab trusts
\* check_lc_symtab, which ran in another pass over other state).
EntryInsideFile ==
  pc = "symbols" /\ nsyms > 0 =>
    LET end == cmd.symoff + (Len(cmd.syms) - nsyms + 1) * NlistSize(file.arch)
    IN  end <= file.fsize /\ end <= cmd.stroff

\* What is stored fits what was allocated, also when a second command makes a
\* table grow, and the entries still to be read fit too (update_sectab_size,
\* update_symtab_size).
Room(cap) == IF cap = NULL THEN 0 ELSE cap
TablesFit == /\ Len(sectab) <= Room(seccap)
             /\ Len(symtab) + nsyms <= Room(symcap)

\* The section table is exactly the sections of the segments walked over, in
\* file order: n_sect of a symbol counts on it.  The walk ends early only at a
\* command neither program knows.
SectionsInOrder ==
  /\ pc \in {"handle", "symbols", "print"} => sectab = SectionsOf(file)[i]
  /\ pc = "print" /\ i < ncmds => cmd.cmd = "UNKNOWN"

\* nm never stops in the middle of the handle pass: what the check pass lets
\* through, handle_load_command recognises, though the two lists of known
\* commands are written out twice.
NmReachesTheEnd == bin = "nm" /\ pc = "print" => i = ncmds

\* The check pass of nm lets through the well-formed images and no others.
\* (Where no sum wraps: the ends of a string table and of a segment are added in
\* 32 bits, and a wrapped sum passes.)
AcceptedIffWellFormed ==
  bin = "nm" /\ NoWrap(file) =>
    /\ pc \in {"handle", "symbols", "print"} => WellFormed(file) /\ file.wanted
    /\ pc = "rejected" => ~(WellFormed(file) /\ file.wanted)

\* "malformed object (more than one LC_SYMTAB command)": an image nm lists has
\* at most one symbol-table command.
AtMostOneSymtab ==
  bin = "nm" /\ pc = "print" =>
    \A m, n \in 1..ncmds :
      file.cmds[m].cmd = "SYMTAB" /\ file.cmds[n].cmd = "SYMTAB" => m = n

\* Every walk comes to an end: each pass moves on at every command.
WalkEnds == <>Stopped
=============================================================================
