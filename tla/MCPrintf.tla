------------------------------ MODULE MCPrintf ------------------------------
(* Printf on single conversions with every combination of flags, widths and  *)
(* precisions, and on rows of three items out of a dozen.                    *)
EXTENDS Printf

Field(how, m) == [how |-> how, n |-> m]
None    == Field("none", 0)
Widths  == <<None, Field("given", 1), Field("given", 7), Field("star", -7), Field("star", 5)>>
Precs   == <<None, Field("given", 0), Field("given", 4), Field("star", -1)>>

Val(m)       == Std!Number(m)
Chars(s)     == [Val(0) EXCEPT !.chars = s]
Codes(s)     == [Val(0) EXCEPT !.codes = s]
NullPointer  == [Val(0) EXCEPT !.null = TRUE]

Item(kind, text, shown, v) ==
  [kind |-> kind, text |-> text, shown |-> shown, flags |-> << >>, width |-> None,
   prec |-> None, mod |-> "none", type |-> "%", v |-> v]
Text(s)    == Item("text", s, s, Val(0))
Conv(t, m, v) == [Item("conv", << >>, << >>, v) EXCEPT !.type = t, !.mod = m]

\* The m-th of all calls of one item with every flag, width and precision.
GridSize(items, row) == Len(items) * 2^Len(row) * Len(Widths) * Len(Precs)
Grid(items, row, m) ==
  LET flags == 2^Len(row)
      f == m % flags
      w == ((m \div flags) % Len(Widths)) + 1
      p == ((m \div (flags * Len(Widths))) % Len(Precs)) + 1
      t == (m \div (flags * Len(Widths) * Len(Precs))) + 1
      chosen == {row[b] : b \in {d \in DOMAIN row : (f \div 2^(d - 1)) % 2 = 1}}
  IN  [to |-> IF m % 3 = 0 THEN "string" ELSE "fd", mb |-> 4, into |-> << >>,
       items |-> <<[items[t] EXCEPT !.flags = SelectSeq(row, LAMBDA g : g \in chosen),
                      !.width = Widths[w], !.prec = Precs[p]]>>]

SignedItems   == <<Conv("d", "none", Val(42)), Conv("i", "hh", Val(200)),
                   Conv("D", "none", Val(-(2^19))), Conv("d", "ll", Val(4096)), Conv("d", "h", Val(0))>>
UnsignedItems == <<Conv("u", "none", Val(42)), Conv("u", "hh", Val(-1)), Conv("U", "none", Val(4096))>>
TaggedItems   == <<Conv("x", "hh", Val(-1)), Conv("X", "h", Val(171)), Conv("x", "none", Val(0)),
                   Conv("o", "l", Val(42)), Conv("o", "none", Val(0))>>
TextItems     == <<Conv("s", "none", Chars(<<"a", "b", "c", "d", "e">>)), Conv("s", "none", NullPointer),
                   Conv("c", "none", Chars(<<"a">>)), Conv("c", "none", Chars(<<"NUL">>)),
                   Conv("c", "l", Val(233)), Conv("S", "none", Codes(<<72, 8364, 233>>)),
                   Conv("s", "l", Codes(<<>>)), Conv("p", "none", Val(171)), Conv("p", "none", Val(0)),
                   Conv("S", "none", Codes(<<55300, 65>>)), Conv("b", "hh", Val(5)),
                   Conv("C", "none", Val(128512))>>

Pool == <<Text(<<"a", "b">>), Conv("%", "none", Val(0)), Conv("d", "none", Val(-5)),
          [Conv("x", "hh", Val(10)) EXCEPT !.flags = <<"0">>, !.width = Field("given", 2)],
          [Conv("d", "none", Val(7)) EXCEPT !.width = Field("star", 3)],
          Conv("c", "none", Chars(<<"NUL">>)), Conv("n", "none", Val(0)),
          Conv("c", "l", Val(55296)), Conv("c", "l", Val(8364)),
          Item("font", <<"{", "E", "F", "2", "R", "}">>,
               <<"ESC", "[", "0", ";", "9", "1", ";", "m">>, Val(0)),
          Text(<<"{", "F", "Z", "}">>),
          Item("font", <<"{", "M", "B", "}">>,
               <<"ESC", "[", "4", "8", ";", "2", ";", "1", ";", "2", ";", "3", ";", "m">>,
               Codes(<<1, 2, 3>>))>>

RowsSize == 2 * Len(Pool)^3
Rows(m) ==
  LET at(j) == ((m \div (2 * Len(Pool)^j)) % Len(Pool)) + 1
      \* A %n only where nothing behind it takes its pointer for a number.
      item(j) == IF Pool[at(j)].type = "n" /\ \E l \in (j + 1)..2 : at(l) \in {5, 12}
                   THEN Pool[1] ELSE Pool[at(j)]
  IN
  [to |-> IF m % 2 = 0 THEN "fd" ELSE "string", mb |-> IF m % 5 = 0 THEN 1 ELSE 4,
   into |-> IF m % 4 = 1 THEN <<"o", "l", "d">> ELSE << >>,
   items |-> <<item(0), item(1), item(2)>>]

\* A long text in front of counts of different widths, and formats that end
\* in the middle of a conversion.
Long  == [b \in 1..130 |-> "l"]
Count(mod) == Conv("n", mod, Val(0))
Broken(s)  == [Item("broken", s, << >>, Val(0)) EXCEPT !.mod = "none"]
Extras == <<<<Text(Long), Count("hh"), Count("h"), Count("ll")>>,
            <<Text(Long), Text(Long), Count("hh"), Pool[8], Count("none")>>,
            <<Pool[1], Broken(<<"%", "5", "l">>)>>, <<Broken(<<"%">>)>>,
            <<Pool[3], Broken(<<"%", "-", "3", "k">>)>>>>

SignedFlags == <<"0", "-", "+", " ">>
Sizes == <<GridSize(SignedItems, SignedFlags), GridSize(UnsignedItems, <<"0", "-">>),
           GridSize(TaggedItems, <<"#", "0", "-">>), GridSize(TextItems, <<"-">>), RowsSize>>
Before(j) == IF j = 1 THEN 0 ELSE IF j = 2 THEN Sizes[1] ELSE IF j = 3 THEN Sizes[1] + Sizes[2]
             ELSE IF j = 4 THEN Sizes[1] + Sizes[2] + Sizes[3]
             ELSE Sizes[1] + Sizes[2] + Sizes[3] + Sizes[4]

MCNumCalls == Before(5) + RowsSize + Len(Extras)
MCCallOf(m) ==
  CASE m <= Before(2) -> Grid(SignedItems, SignedFlags, m - 1)
    [] m > Before(2) /\ m <= Before(3) -> Grid(UnsignedItems, <<"0", "-">>, m - 1 - Before(2))
    [] m > Before(3) /\ m <= Before(4) -> Grid(TaggedItems, <<"#", "0", "-">>, m - 1 - Before(3))
    [] m > Before(4) /\ m <= Before(5) -> Grid(TextItems, <<"-">>, m - 1 - Before(4))
    [] m > Before(5) /\ m <= Before(5) + RowsSize -> Rows(m - 1 - Before(5))
    [] OTHER -> [to |-> "fd", mb |-> 4, into |-> << >>,
                 items |-> Extras[m - Before(5) - RowsSize]]
=============================================================================
