-------------------------------- MODULE Nm --------------------------------
(***************************************************************************)
(* nm on one Mach-O image: the walk of MachO, then print_nm, which may add *)
(* a line for the start of a section, sorts the table and prints it.       *)
(***************************************************************************)
EXTENDS MachO

VARIABLES
  out,     \* the lines printed
  warned   \* "no name list" was reported

nmvars == <<vars, out, warned>>

NmInit == Init /\ out = << >> /\ warned = FALSE

WalkStep == Walk /\ UNCHANGED <<out, warned>>

-----------------------------------------------------------------------------
(* create_section_start: the last section of that name, its number cut to a *)
(* uint8_t.                                                                 *)

Named(opts, secs) ==
  {j \in 1..Len(secs) : secs[j].segname = opts.segname /\ secs[j].sectname = opts.sectname}

StartSection(opts, secs) ==
  IF Named(opts, secs) = {} THEN 0
  ELSE (CHOOSE j \in Named(opts, secs) : \A k \in Named(opts, secs) : k <= j) % U8

\* Mutant: the letter is looked up under the number counted from zero.
StartEntry_ZeroBased(n, secs) ==
  LET sym == [strx |-> 0, name |-> EmptyName, stab |-> FALSE, pext |-> FALSE,
              type |-> "SECT", ext |-> FALSE, sect |-> n,
              value |-> secs[n].addr, indr |-> EmptyName]
  IN  [sym |-> sym, symbol |-> GetSymbol([sym EXCEPT !.sect = n - 1], secs),
       name |-> StartName, indr |-> NoString]

StartEntry(n, secs) ==
  LET sym == [strx |-> 0, name |-> EmptyName, stab |-> FALSE, pext |-> FALSE,
              type |-> "SECT", ext |-> FALSE, sect |-> n,
              value |-> secs[n].addr, indr |-> EmptyName]
  IN  [sym |-> sym, symbol |-> GetSymbol(sym, secs), name |-> StartName,
       indr |-> NoString]

create_section_start ==
  LET n == StartSection(opt, sectab) IN
  IF n # 0 /\ sectab[n].size # 0
    THEN /\ symtab' = Append(symtab, StartEntry(n, sectab))
         /\ symcap' = Len(symtab) + 2
    ELSE UNCHANGED <<symtab, symcap>>

-----------------------------------------------------------------------------
(* print_nm *)

StartPrint ==
  /\ pc = "print" /\ bin = "nm"
  /\ warned' = (symcap = NULL)
  /\ IF {"l", "s"} \subseteq opt.flags /\ ~sectionStart
       THEN create_section_start
       ELSE UNCHANGED <<symtab, symcap>>
  /\ pc' = "sort"
  /\ UNCHANGED <<input, i, finalSize, sectab, seccap, nsyms, sectionStart, out>>

Arrangements(s) ==
  {[k \in 1..Len(s) |-> s[p[k]]] :
     p \in {p \in [1..Len(s) -> 1..Len(s)] : \A j \in 1..Len(s) : \E k \in 1..Len(s) : p[k] = j}}

Ordered(s) == \A k \in 1..(Len(s) - 1) : ListedLeq(s[k], s[k + 1], opt)

\* qsort: some arrangement the comparator accepts, any one among equals.
sort_symtab ==
  /\ pc = "sort"
  /\ IF "p" \in opt.flags THEN symtab' = symtab
     ELSE symtab' \in {s \in Arrangements(symtab) : Ordered(s)}
  /\ pc' = "assign"
  /\ UNCHANGED <<input, i, finalSize, sectab, seccap, symcap, nsyms, sectionStart,
                 out, warned>>

assign_symbol ==
  /\ pc = "assign"
  /\ out' = symtab
  /\ pc' = "done"
  /\ UNCHANGED <<input, i, finalSize, tables, warned>>

Printing == StartPrint \/ sort_symtab \/ assign_symbol

NmStopped == pc \in {"done", "rejected"}

NmNext == WalkStep \/ Printing \/ (NmStopped /\ UNCHANGED nmvars)

NmSpec == NmInit /\ [][NmNext]_nmvars /\ WF_nmvars(WalkStep \/ Printing)

-----------------------------------------------------------------------------
(* Properties *)

status == CASE pc = "done"     -> "listed"
            [] pc = "rejected" -> "refused"
            [] OTHER           -> "reading"

Listing == INSTANCE NmListing WITH file <- file, opt <- opt, status <- status, out <- out

\* The two passes, the tables that grow, the filter, the added start line, the
\* sort and the printing together do what NmListing does in one step: an image
\* is refused exactly when it is not well formed, nothing of a refused image
\* is printed, every accepted one comes out as one permitted listing, and one of
\* the two happens in the end.
ImplementsListing == Listing!Spec

\* A letter is final: it is the one the complete section table gives.  The only
\* exception is the letter S of a symbol whose section comes from a segment
\* command that stands behind the symbol table (get_sect_names reads the table
\* gathered so far).
LettersFinal ==
  pc \in {"symbols", "handle", "print", "sort"} =>
    \A k \in 1..Len(symtab) :
      LET s == symtab[k] IN
      \/ s.symbol = GetSymbol(s.sym, SectionsOf(file)[ncmds])
      \/ ~SegmentsFirst(file) /\ s.symbol \in {"S", "s"}

\* nm -l -s shows where the section starts: some printed symbol of the named
\* section stands at that section's address, if one of that name exists and
\* the last such section is not empty.  Needed: no other filter may drop the
\* entry found there, debug entries included, and n_sect must be able to hold
\* the section's number.
SectionStartShown ==
  LET shown == {j \in Named(opt, sectab) :
                  \E k \in 1..Len(out) : /\ out[k].sym.sect = j
                                         /\ out[k].sym.value = sectab[j].addr}
      last  == StartSection(opt, sectab)
  IN  /\ pc = "done" /\ {"l", "s"} \subseteq opt.flags
      /\ opt.flags \cap {"g", "u", "U"} = {} /\ "a" \in opt.flags
      /\ Named(opt, sectab) # {} /\ Len(sectab) < U8 /\ sectab[last].size # 0
      => shown # {}

=============================================================================
