------------------------------- MODULE Printf -------------------------------
(***************************************************************************)
(* ft_printf, ft_fdprintf, ft_fdvprintf and ft_getf of libft: one call, in *)
(* the passes the code makes.  Fonts are applied to the whole format; then *)
(* the whole format is parsed into a chain of parts; then the parts are    *)
(* converted; then the chain is written.  All passes draw on the same      *)
(* va_list.                                                                *)
(***************************************************************************)
EXTENDS PrintfConv, FiniteSets

CONSTANTS NumCalls,  \* how many calls there are
          CallOf(_)  \* each of them: [to, mb, into, items]

Std == INSTANCE PrintfStandard

\* to = "fd" or "string"; into is the string ft_getf is given.  Inputs: no
\* conversion of floats, no ' flag, every brace closed or followed by another,
\* no pointer where a * or a font takes its number from.
ASSUME CallsAssumption ==
  /\ NumCalls \in Nat
  /\ \A m \in 1..NumCalls : CallOf(m).to \in {"fd", "string"} /\ CallOf(m).mb \in {1, 4}

VARIABLES
  call,    \* one of the calls
  pc,      \* "font", "parse", "convert", "chain" or "done"
  str,     \* the format with its fonts applied
  i,       \* place in the format that is being read
  ap,      \* arguments taken from the va_list
  parts,   \* the chain
  k,       \* part that is being converted or written
  dead,    \* a conversion has failed
  ret,     \* sum of the sizes, at the end the return value
  stored,  \* what each %n has stored so far: the number, and how wide it is written
  out,     \* what has been written, or the string ft_getf gives back
  want     \* history: what the standard lets each item show, and whether the
           \* item fails or is one this printf shows in another way

working == <<pc, str, i, ap, parts, k, dead, ret, stored, out>>
vars == <<call, want, working>>

Format == Std!FormatOf(call.items)
Args   == LET all == Std!ArgumentsOf(call.items) IN SubSeq(all, ap + 1, Len(all))
Ints   == [j \in DOMAIN Args |-> Args[j].n]

NoConv == [flags |-> {}, width |-> 0, prec |-> -1, mod |-> "none", type |-> NUL, no_type |-> NUL]
Literal(text) == [conv |-> NoConv, res |-> text, size |-> Len(text), ok |-> TRUE]

-----------------------------------------------------------------------------
(* The reference: what the standard promises for the items of this call *)

\* Where this printf and the standard part ways, cause by cause.
ZeroFlag(t)  == Std!In("0", t.flags) \/ (t.width.how # "given" /\ t.prec = [how |-> "given", n |-> 0])
Blank(t)     == Std!IsSigned(t) /\ Std!In(" ", t.flags) /\ ~Std!In("+", t.flags) /\ Std!Value(t) >= 0
IsDecimal(t) == t.type \in {"d", "i", "D", "u", "U"}
Settled(t) ==
  t.kind \in {"text", "font"} \/
  /\ t.kind = "conv" /\ t.type \notin {"b", "B"}
  /\ Blank(t) => ~Std!Left(t) /\ ~Std!HasPrec(t)
  /\ (Std!IsSigned(t) /\ Std!Value(t) < 0 /\ ZeroFlag(t)) => Std!Left(t) \/ ~Std!HasPrec(t)
  /\ (IsDecimal(t) /\ Std!HasPrec(t) /\ t.prec.n = 0 /\ Std!Value(t) # 0)
       => Std!Value(t) % 2^IntBits # 0
  /\ (t.type = "X" /\ Std!In("#", t.flags)) => ~Std!Left(t)
  /\ t.type \in {"u", "U"} => ~(Std!Left(t) /\ Std!In("0", t.flags))
  /\ t.type = "p" => ~(Std!HasPrec(t) /\ t.prec.n = 0 /\ t.v.n = 0)
  /\ t.type \in {"c", "C", "s", "S"} => ~ZeroFlag(t)
  /\ t.type = "c" /\ t.mod = "none" /\ t.v.chars = <<"NUL">> => Std!Width(t) # 1
  /\ Std!IsWide(t) => /\ \A m \in DOMAIN t.v.codes : t.v.codes[m] \notin 65536..131071
                      /\ t.v.n \notin 65536..131071
                      /\ t.type \in {"c", "C"} => ~(t.v.n = 0 /\ Std!Width(t) = 1)
                      /\ Std!HasPrec(t) => ~Std!Fails(t, call.mb)

Promised(item) == [text    |-> Std!Shows(item, call.mb),
                   fails   |-> item.kind = "conv" /\ (Std!Fails(item, call.mb)
                                 \/ (call.to = "string" /\ item.type = "n")),
                   settled |-> Settled(item)]

-----------------------------------------------------------------------------

Init ==
  /\ \E m \in 1..NumCalls : call = CallOf(m)
  /\ pc = "font" /\ str = << >> /\ i = 1 /\ ap = 0
  /\ parts = << >> /\ k = 1 /\ dead = FALSE /\ ret = 0 /\ stored = << >>
  /\ out = call.into
  /\ want = [m \in DOMAIN call.items |-> Promised(call.items[m])]

\* apply_font: the text up to the next group and the group.
ApplyFont ==
  LET open == Skip(Format, i, {Format[j] : j \in DOMAIN Format} \ {"{"})
      g    == is_valid_font(Format, open + 1, Ints)
      last == IF At(Format, g.stop) = "{" THEN g.stop - 1 ELSE g.stop
  IN  /\ pc = "font" /\ At(Format, open) = "{"
      /\ str' = str \o SubSeq(Format, i, open - 1)
                    \o (IF g.ok THEN g.text ELSE SubSeq(Format, open, last))
      /\ i' = last + 1 /\ ap' = ap + g.taken
      /\ UNCHANGED <<call, want, pc, parts, k, dead, ret, stored, out>>

ApplyLast ==
  /\ pc = "font" /\ \A j \in i..Len(Format) : Format[j] # "{"
  /\ str' = str \o SubSeq(Format, i, Len(Format))
  /\ pc' = "parse" /\ i' = 1
  /\ UNCHANGED <<call, want, ap, parts, k, dead, ret, stored, out>>

\* get_next_part
ParseConversion ==
  LET p == parse_conv(str, i, Ints) IN
  /\ pc = "parse" /\ At(str, i) = "%"
  /\ parts' = Append(parts, [conv |-> p.conv, res |-> << >>, size |-> 0, ok |-> FALSE])
  /\ i' = p.next /\ ap' = ap + p.taken
  /\ UNCHANGED <<call, want, pc, str, k, dead, ret, stored, out>>

ParseText ==
  LET next == Skip(str, i, {str[j] : j \in DOMAIN str} \ {"%"}) IN
  /\ pc = "parse" /\ i <= Len(str) /\ str[i] # "%"
  /\ parts' = Append(parts, Literal(SubSeq(str, i, next - 1)))
  /\ i' = next
  /\ UNCHANGED <<call, want, pc, str, ap, k, dead, ret, stored, out>>

ParseEnd ==
  /\ pc = "parse" /\ i > Len(str)
  /\ pc' = "convert"
  /\ UNCHANGED <<call, want, str, i, ap, parts, k, dead, ret, stored, out>>

\* Mutant: every part has an argument.
TakesArgument_Always(type) == TRUE

TakesArgument(type) == type # "0"

\* Only a part without a text is converted.
Convert ==
  /\ pc = "convert" /\ k <= Len(parts)
  /\ IF parts[k].ok THEN UNCHANGED <<parts, ap>>
     ELSE /\ ap' = IF TakesArgument(parts[k].conv.type) THEN ap + 1 ELSE ap
          /\ \E r \in make_conv(parts[k].conv,
                                IF Args = << >> THEN Std!Number(0) ELSE Args[1], call.mb) :
               parts' = [parts EXCEPT ![k].res = r.res, ![k].size = r.size, ![k].ok = r.ok]
  /\ k' = k + 1
  /\ UNCHANGED <<call, want, pc, str, i, dead, ret, stored, out>>

ConvertEnd ==
  /\ pc = "convert" /\ k > Len(parts)
  /\ pc' = "chain" /\ k' = 1
  /\ UNCHANGED <<call, want, str, i, ap, parts, dead, ret, stored, out>>

\* get_n_value: the modifier reduces the sum and not what is written, a long long
\* at the place the argument points to.
Stored(sum, mod) == [n    |-> CASE mod = "hh" -> Signed(sum, CharBits)
                                [] mod = "h" -> Signed(sum, ShortBits) [] OTHER -> sum,
                     bits |-> LongBits]

IsN(p) == p.conv.type = "n"

\* Mutant: a failure is forgotten with the next part.
DeadAfter_Last(dies) == dies

DeadAfter(dies) == dead \/ dies

\* print_chain also drops the part in front of a failed one, unless the
\* failed one is, or stands behind, a %n.
PrintPart ==
  LET p    == parts[k]
      dies == /\ ~IsN(p)
              /\ \/ ~p.ok
                 \/ k < Len(parts) /\ ~parts[k + 1].ok /\ ~IsN(parts[k + 1])
  IN  /\ pc = "chain" /\ call.to = "fd" /\ k <= Len(parts)
      /\ dead' = DeadAfter(dies)
      /\ stored' = IF IsN(p) THEN Append(stored, Stored(ret, p.conv.mod)) ELSE stored
      /\ out' = IF dead' THEN out ELSE out \o p.res
      /\ ret' = ret + p.size /\ k' = k + 1
      /\ UNCHANGED <<call, want, pc, str, i, ap, parts>>

\* get_chain joins what has no NUL in it; to it a %n is a failed conversion.
GetPart ==
  LET p    == parts[k]
      dies == ~p.ok \/ (k < Len(parts) /\ ~parts[k + 1].ok)
      text == SelectSeq(p.res, LAMBDA ch : ch # "NUL")
  IN  /\ pc = "chain" /\ call.to = "string" /\ k <= Len(parts)
      /\ dead' = DeadAfter(dies)
      /\ IF dead' THEN UNCHANGED <<out, ret>>
                  ELSE out' = out \o text /\ ret' = ret + Len(text)
      /\ k' = k + 1
      /\ UNCHANGED <<call, want, pc, str, i, ap, parts, stored>>

\* Mutant: the sum, failed or not.
Result_Sum == ret

Result == IF dead /\ call.to = "fd" THEN -1 ELSE ret

Return ==
  /\ pc = "chain" /\ k > Len(parts)
  /\ pc' = "done"
  /\ ret' = Result
  /\ UNCHANGED <<call, want, str, i, ap, parts, k, dead, stored, out>>

Next == \/ ApplyFont \/ ApplyLast
        \/ ParseConversion \/ ParseText \/ ParseEnd
        \/ Convert \/ ConvertEnd
        \/ PrintPart \/ GetPart \/ Return

\* The call is over: the only state the machine may rest in.
Over == pc = "done" /\ UNCHANGED vars

Spec == Init /\ [][Next \/ Over]_vars

-----------------------------------------------------------------------------
(* Properties *)

Items == call.items
Room  == Len(Items)

AllSettled == \A m \in DOMAIN Items : want[m].settled

\* The * of every item are taken before the first value.
StarsFirst ==
  \A m \in DOMAIN Items : \A l \in 1..(m - 1) :
    Items[m].kind = "conv" /\ "star" \in {Items[m].width.how, Items[m].prec.how}
      => Items[l].kind # "conv" \/ Items[l].type = "%"
FontsFirst ==
  \A m \in DOMAIN Items : \A l \in 1..(m - 1) :
    Items[m].kind = "font" /\ Std!Arguments(Items[m]) # << >> => Std!Arguments(Items[l]) = << >>
Straight == AllSettled /\ StarsFirst /\ FontsFirst

NoNul(s) == SelectSeq(s, LAMBDA ch : ch # "NUL")
ShownBy(m) == LET all == Std!Concat([l \in 1..m |-> want[l].text])
              IN  IF call.to = "fd" THEN all ELSE NoNul(all)
Failing == {m \in DOMAIN Items : want[m].fails}

IsPrefixOf(s, t) == Len(s) <= Len(t) /\ s = SubSeq(t, 1, Len(s))

\* A call whose conversions all succeed prints what the standard says, in
\* spite of the four passes: flags, width, precision and modifier of every
\* conversion, in the order of the items; ft_getf adds it to its string.
AsStandard == pc = "done" /\ Straight /\ Failing = {} => out = call.into \o ShownBy(Room)

\* The passes take every argument of the call once, in whatever order.
EveryArgumentOnce ==
  /\ ap <= Len(Std!ArgumentsOf(Items))
  /\ pc \in {"chain", "done"} => ap = Len(Std!ArgumentsOf(Items))

\* A failed conversion makes print_chain return -1, and nothing that stands
\* at or behind it is written.
FailsCleanly ==
  pc = "done" /\ Straight /\ Failing # {} =>
    LET first == CHOOSE m \in Failing : \A l \in Failing : m <= l
    IN  /\ IsPrefixOf(out, call.into \o ShownBy(first - 1))
        /\ call.to = "fd" => ret = -1

\* The counts are true: a return value that is not -1 is the number of bytes
\* that came out, and a %n stores the number of bytes shown in front of it, reduced
\* as its modifier says, over the whole object it is given.  With %n, %hn and %hhn it
\* stores more than that object: what stands behind it is overwritten.
CountsWhatItWrote ==
  pc = "done" =>
    /\ ret # -1 => ret = Len(out) - Len(call.into)
    /\ Straight /\ call.to = "fd" =>
         \A m \in DOMAIN Items :
           Items[m].kind = "conv" /\ Items[m].type = "n" /\ (\A l \in 1..m : ~want[l].fails) =>
             LET s == stored[Cardinality({l \in 1..m : /\ Items[l].kind = "conv"
                                                       /\ Items[l].type = "n"})]
             IN  /\ s.n = Std!Value([Items[m] EXCEPT !.type = "d", !.v.n = Len(ShownBy(m))])
                 /\ s.bits >= Std!Bits(Items[m])

\* display_space never steps past the string it is given.
NothingWild == \A m \in DOMAIN parts : \A b \in DOMAIN parts[m].res : parts[m].res[b] # "WILD"
=============================================================================
