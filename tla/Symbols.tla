------------------------------ MODULE Symbols ------------------------------
(***************************************************************************)
(* The pure part of the symbol listing: what one symbol-table entry means  *)
(* against the table of sections gathered so far, which entries the        *)
(* options select, and how the selected ones are ordered.                  *)
(*                                                                         *)
(* An entry is a record.  Its n_type byte is split into the four masks the *)
(* code applies to it: N_STAB, N_PEXT, N_TYPE and N_EXT.  `name' is the    *)
(* string found at n_strx, `indr' the string found at n_value when the     *)
(* entry is indirect.                                                      *)
(***************************************************************************)
EXTENDS Integers, Sequences

CONSTANTS
  U8,    \* number of values of a uint8_t, the width of n_sect
  Rank   \* a function from the strings that occur to their strcmp order

TypeBits == {"UNDF", "ABS", "SECT", "PBUD", "INDR", "OTHER"}

Name == DOMAIN Rank

Nlist == [strx : Nat, name : Name, stab : BOOLEAN, pext : BOOLEAN,
          type : TypeBits, ext : BOOLEAN, sect : 0..(U8 - 1), value : Nat,
          indr : Name]

Section == [segname : STRING, sectname : STRING, addr : Nat, size : Nat,
            offset : Nat]

Flags == {"a", "g", "n", "p", "r", "u", "U", "l", "s"}

Option == [flags : SUBSET Flags, segname : STRING, sectname : STRING]

\* Strings the program supplies itself.
EmptyName == ""
BadIndex  == "bad string index"
StartName == ".section_start"
NoString  == "NULL"

ASSUME ByteAssumption == U8 \in Nat \ {0}
ASSUME NamesAssumption ==
  /\ Rank \in [Name -> Int]
  /\ {EmptyName, BadIndex, StartName, NoString} \subseteq Name

-----------------------------------------------------------------------------
(* Sections and letters *)

\* get_sect_names succeeds: the 1-based section number is one gathered so far.
Resolves(sect, sectab) == sect # 0 /\ sect <= Len(sectab)

SectionSelected(sym, sectab, opt) ==
  /\ sym.type = "SECT"
  /\ Resolves(sym.sect, sectab)
  /\ sectab[sym.sect].segname = opt.segname
  /\ sectab[sym.sect].sectname = opt.sectname

SectionLetter(sect, sectab) ==
  IF ~Resolves(sect, sectab) THEN "S"
  ELSE LET s == sectab[sect] IN
       CASE s.sectname = "__text" /\ s.segname = "__TEXT" -> "T"
         [] s.sectname = "__data" /\ s.segname = "__DATA" -> "D"
         [] s.sectname = "__bss"  /\ s.segname = "__DATA" -> "B"
         [] OTHER -> "S"

Lower == [U |-> "u", C |-> "c", A |-> "a", T |-> "t", D |-> "d", B |-> "b",
          S |-> "s", I |-> "i"]

Letters == {"U", "C", "A", "T", "D", "B", "S", "I",
            "u", "c", "a", "t", "d", "b", "s", "i", "-", "?"}

\* A row of the symbol table nm prints from.
Row == [sym : Nlist, symbol : Letters, name : Name, indr : Name]

GetSymbol(sym, sectab) ==
  LET upper == CASE sym.stab          -> "-"
                 [] ~sym.stab /\ sym.type = "UNDF" -> IF sym.value # 0 THEN "C" ELSE "U"
                 [] ~sym.stab /\ sym.type = "ABS"  -> "A"
                 [] ~sym.stab /\ sym.type = "SECT" -> SectionLetter(sym.sect, sectab)
                 [] ~sym.stab /\ sym.type = "INDR" -> "I"
                 [] ~sym.stab /\ sym.type = "PBUD" -> "U"
                 [] ~sym.stab /\ sym.type = "OTHER" -> "?"
  IN  IF upper \in {"?", "-"} \/ sym.ext THEN upper ELSE Lower[upper]

\* Mutant: -U drops private external references too.
Kept_Private(sym, letter, sectab, opt) ==
  LET plain == ~sym.stab /\ ~sym.pext IN
  /\ letter = "-" => "a" \in opt.flags /\ "g" \notin opt.flags
  /\ "g" \in opt.flags => sym.ext
  /\ "u" \in opt.flags => letter = "U" /\ plain
  /\ "U" \in opt.flags => letter # "U"
  /\ "s" \in opt.flags => SectionSelected(sym, sectab, opt)

\* The five conditions of handle_lc_symtab under which an entry is kept.
\* n_type & ~(N_TYPE | N_EXT) is non-zero when a stab bit or N_PEXT is set.
Kept(sym, letter, sectab, opt) ==
  LET plain == ~sym.stab /\ ~sym.pext IN
  /\ letter = "-" => "a" \in opt.flags /\ "g" \notin opt.flags
  /\ "g" \in opt.flags => sym.ext
  /\ "u" \in opt.flags => letter = "U" /\ plain
  /\ "U" \in opt.flags => ~(letter = "U" /\ plain)
  /\ "s" \in opt.flags => SectionSelected(sym, sectab, opt)

\* The name of an entry: n_strx = 0 is the empty name, an index past the
\* string table or past the end of the file is replaced by a fixed string.
NameOf(sym, stroff, strsize, fsize) ==
  CASE sym.strx = 0       -> EmptyName
    [] sym.strx > strsize -> BadIndex
    [] sym.strx # 0 /\ sym.strx <= strsize ->
         IF stroff + sym.strx < fsize THEN sym.name ELSE BadIndex

IndrOf(sym, letter, strsize) ==
  CASE letter \notin {"I", "i"} -> NoString
    [] letter \in {"I", "i"} /\ sym.value = 0       -> EmptyName
    [] letter \in {"I", "i"} /\ sym.value > strsize -> BadIndex
    [] letter \in {"I", "i"} /\ sym.value # 0 /\ sym.value <= strsize -> sym.indr

-----------------------------------------------------------------------------
(* The order of the listing: the four comparators qsort is given.  Each is *)
(* the "a may stand before b" reading of a comparison result <= 0.         *)

AlphLeq(a, b) == Rank[a.name] <= Rank[b.name]

NumLeq(a, b) == \/ a.sym.value < b.sym.value
                \/ a.sym.value = b.sym.value /\ AlphLeq(a, b)

ListedLeq(a, b, opt) ==
  CASE {"n", "r"} \subseteq opt.flags              -> NumLeq(b, a)
    [] "n" \in opt.flags /\ "r" \notin opt.flags    -> NumLeq(a, b)
    [] "n" \notin opt.flags /\ "r" \in opt.flags    -> AlphLeq(b, a)
    [] opt.flags \cap {"n", "r"} = {}               -> AlphLeq(a, b)

=============================================================================
