----------------------------- MODULE NmListing -----------------------------
(***************************************************************************)
(* What nm promises for one image, in one step: refuse it, or print one    *)
(* line per selected symbol in the chosen order.  The selection is stated  *)
(* by kinds of symbols and by the sections of the file, not by the letters *)
(* and the tables the program computes on its way.                         *)
(***************************************************************************)
EXTENDS MachOFile

VARIABLES file, opt,
          status,  \* "reading", "refused" or "listed"
          out      \* the printed lines

avars == <<file, opt, status, out>>

InSection(sym, secs, o) ==
  /\ sym.type = "SECT" /\ sym.sect \in 1..Len(secs)
  /\ secs[sym.sect].segname = o.segname /\ secs[sym.sect].sectname = o.sectname

\* An external reference to a symbol some other image defines.
Undefined(sym) ==
  /\ sym.ext /\ ~sym.stab /\ ~sym.pext
  /\ sym.type = "PBUD" \/ (sym.type = "UNDF" /\ sym.value = 0)

\* -a adds debug entries unless -g; -g drops local symbols; -u keeps and -U
\* drops the undefined ones; -s keeps those of one section.
Selects(sym, secs, o) ==
  /\ sym.stab                => "a" \in o.flags /\ "g" \notin o.flags
  /\ ~sym.ext                => "g" \notin o.flags
  /\ ~Undefined(sym)         => "u" \notin o.flags
  /\ Undefined(sym)          => "U" \notin o.flags
  /\ ~InSection(sym, secs, o) => "s" \notin o.flags

Line(sym, secs, c, f) ==
  LET letter == GetSymbol(sym, secs) IN
  [sym |-> sym, symbol |-> letter,
   name |-> NameOf(sym, c.stroff, c.strsize, f.fsize),
   indr |-> IndrOf(sym, letter, c.strsize)]

\* TableLines(f, o, n)[k]: the lines of the first k entries of the symbol table
\* of command n.  Its sections are those of the segment commands in front of it.
TableLines(f, o, n) ==
  LET c    == f.cmds[n]
      secs == SectionsOf(f)[n]
      T[k \in 0..Len(c.syms)] ==
        IF k = 0 THEN << >>
        ELSE T[k - 1] \o (IF Selects(c.syms[k], secs, o)
                            THEN <<Line(c.syms[k], secs, c, f)>> ELSE << >>)
  IN  T

\* SymbolLines(f, o)[n]: the lines of the tables among the first n commands.
SymbolLines(f, o) ==
  LET L[n \in 0..Len(f.cmds)] ==
        IF n = 0 THEN << >>
        ELSE L[n - 1] \o (IF f.cmds[n].cmd = "SYMTAB"
                            THEN TableLines(f, o, n)[Len(f.cmds[n].syms)] ELSE << >>)
  IN  L

\* Entry k of the symbol table of command n stands at the start of the section.
MarksStart(f, o, n, k) ==
  LET sym == f.cmds[n].syms[k] IN
  /\ InSection(sym, SectionsOf(f)[n], o)
  /\ sym.value = SectionsOf(f)[n][sym.sect].addr

StartMarked(f, o) ==
  \E n \in 1..Len(f.cmds) :
    /\ f.cmds[n].cmd = "SYMTAB"
    /\ \E k \in 1..Len(f.cmds[n].syms) : MarksStart(f, o, n, k)

Chosen(secs, o) ==
  {j \in 1..Len(secs) : secs[j].segname = o.segname /\ secs[j].sectname = o.sectname}

LastChosen(secs, o) == CHOOSE j \in Chosen(secs, o) : \A k \in Chosen(secs, o) : k <= j

\* The line for the last section of the chosen name, unless that is empty.
StartLine(secs, o) ==
  LET last  == LastChosen(secs, o)
      start == [strx |-> 0, name |-> EmptyName, stab |-> FALSE, pext |-> FALSE,
                type |-> "SECT", ext |-> FALSE, sect |-> last,
                value |-> secs[last].addr, indr |-> EmptyName]
  IN  IF Chosen(secs, o) # {} /\ secs[last].size # 0
        THEN <<[sym |-> start, symbol |-> GetSymbol(start, secs),
                name |-> StartName, indr |-> NoString]>>
        ELSE << >>

\* With -l and -s a line marks the start of the section, unless an entry of
\* that section stands at its address.
StartLines(f, o) ==
  IF {"l", "s"} \subseteq o.flags /\ ~StartMarked(f, o)
    THEN StartLine(SectionsOf(f)[Len(f.cmds)], o) ELSE << >>

\* The same lines, in some order.
SameLines(p, q) ==
  /\ Len(p) = Len(q)
  /\ \E place \in [1..Len(p) -> 1..Len(q)] :
       /\ \A j \in 1..Len(q) : \E k \in 1..Len(p) : place[k] = j
       /\ \A k \in 1..Len(p) : p[k] = q[place[k]]

\* -p keeps the order of the file; otherwise any sorted arrangement may come
\* out, since qsort promises nothing about lines that compare equal.
IsListing(q, f, o) ==
  LET lines == SymbolLines(f, o)[Len(f.cmds)] \o StartLines(f, o) IN
  IF "p" \in o.flags THEN q = lines
  ELSE /\ SameLines(q, lines)
       /\ \A k \in 1..(Len(q) - 1) : ListedLeq(q[k], q[k + 1], o)

Init == /\ file \in File /\ opt \in Option
        /\ status = "reading" /\ out = << >>

Refuse == /\ status = "reading"
          /\ ~(file.wanted /\ WellFormed(file))
          /\ status' = "refused" /\ UNCHANGED <<file, opt, out>>

List == /\ status = "reading"
        /\ file.wanted /\ WellFormed(file)
        /\ status' = "listed"
        /\ IsListing(out', file, opt)
        /\ UNCHANGED <<file, opt>>

Next == Refuse \/ List

\* An image is refused or listed in the end.
Spec == Init /\ [][Next]_avars /\ <>(status # "reading")
=============================================================================
