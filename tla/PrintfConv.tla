----------------------------- MODULE PrintfConv -----------------------------
(***************************************************************************)
(* The conversions of ft_printf: what one specification makes of one       *)
(* argument.  A result is [res, size, ok]: the bytes, how many of them are *)
(* to be written, and whether there are any (a null result is ok = FALSE). *)
(* An argument is [n, chars, codes, null]: a number, a string or character *)
(* (chars), a wide string (codes), a null pointer.                         *)
(***************************************************************************)
EXTENDS PrintfFormat

\* The widths of the C types; 8, 16, 32 and 64 in the builds there are.
CONSTANTS CharBits, ShortBits, IntBits, LongBits

ASSUME WidthsAssumption ==
  /\ {CharBits, ShortBits, IntBits, LongBits} \subseteq Nat \ {0}
  /\ CharBits <= ShortBits /\ ShortBits <= IntBits /\ IntBits < LongBits

Unsigned(v, bits) == v % 2^bits
Signed(v, bits)   == LET u == v % 2^bits IN IF 2 * u >= 2^bits THEN u - 2^bits ELSE u

BitsOf(mod) == CASE mod = "hh" -> CharBits [] mod = "h" -> ShortBits
                 [] mod = "none" -> IntBits [] OTHER -> LongBits

Fill(c, n) == IF n <= 0 THEN << >> ELSE [j \in 1..n |-> c]
Has(c, flag) == flag \in c.flags
Without(c, flags) == [c EXCEPT !.flags = @ \ flags]

LowerHex == DigitChars \o <<"a", "b", "c", "d", "e", "f">>
UpperHex == DigitChars \o <<"A", "B", "C", "D", "E", "F">>

ft_baseconvert(base, n) ==
  LET T[m \in Nat] == IF m = 0 THEN << >>
                      ELSE Append(T[m \div Len(base)], base[(m % Len(base)) + 1])
  IN  IF n = 0 THEN <<"0">> ELSE T[n]

\* The smallest number has no positive counterpart and a case of its own.
ft_lltoa(n) ==
  IF n = -(2^(LongBits - 1)) THEN [text |-> ft_baseconvert(DigitChars, 2^(LongBits - 1)), neg |-> 1]
  ELSE [text |-> ft_baseconvert(DigitChars, IF n < 0 THEN -n ELSE n), neg |-> IF n < 0 THEN 1 ELSE 0]

ft_ulltoa(n) == ft_baseconvert(DigitChars, n)

\* ft_atoi of a row of digits returns an int.
AsInt(s) == Signed(Atoi(s, 1), IntBits)

-----------------------------------------------------------------------------
(* numeric_flags.c and str_flags.c *)

\* The # of a hexadecimal zero goes; precision 0 empties a zero.
check_zero(s, c) ==
  IF AsInt(s) # 0 THEN [text |-> s, conv |-> c]
  ELSE [text |-> IF c.prec = 0 THEN << >> ELSE s,
        conv |-> IF c.type \in {"x", "X"} THEN Without(c, {"#"}) ELSE c]

\* Mutant: one zero too few.
display_prec_Short(s, prec) == Fill("0", prec - Len(s) - 1) \o s

display_prec(s, prec) == Fill("0", prec - Len(s)) \o s

\* Mutant: the test for a blank that is there already is forgotten.
display_space_Unchecked(s, c, modified) ==
  IF ~Has(c, " ") THEN s
  ELSE IF ~modified THEN <<" ">> \o s
  ELSE IF At(s, 1) = "0" THEN <<" ">> \o Tail(s)
  ELSE <<"WILD">>

\* With a ' ' and something padded already the first 0 becomes the blank; the
\* code steps to another string's address when the first character is no 0.
display_space(s, c, modified) ==
  IF ~Has(c, " ") \/ \E j \in DOMAIN s : s[j] = " " THEN s
  ELSE IF ~modified THEN <<" ">> \o s
  ELSE IF At(s, 1) = "0" THEN <<" ">> \o Tail(s)
  ELSE <<"WILD">>

Padded(s, fill, c) == IF Has(c, "-") THEN s \o fill ELSE fill \o s

\* neg: 0 nothing to show, 1 a minus still to show, 2 the sign is shown.
display_width(s, neg, c) ==
  LET plus   == Has(c, "+") /\ neg # 1
      n      == c.width - Len(s) - neg - (IF plus THEN 1 ELSE 0)
      zeros  == Has(c, "0") /\ c.prec = -1
      blanks == ~zeros /\ n > 0
      sign   == IF neg = 1 /\ ~Has(c, "0") /\ blanks THEN <<"-">>
                ELSE IF plus /\ blanks THEN <<"+">> ELSE << >>
  IN  IF c.width <= Len(s) + neg THEN [text |-> s, neg |-> neg, modified |-> FALSE]
      ELSE [text |-> Padded(sign \o s, Fill(IF zeros THEN "0" ELSE " ", n), c),
            neg |-> IF sign = << >> THEN neg ELSE 2, modified |-> TRUE]

display_flags(digits, neg, c0) ==
  LET z == check_zero(digits, c0)
      p == display_prec(z.text, c0.prec)
      w == display_width(p, neg, z.conv)
  IN  IF Has(c0, "+") /\ w.neg = 0 THEN <<"+">> \o w.text
      ELSE IF w.neg = 1 THEN <<"-">> \o w.text
      ELSE display_space(w.text, c0, w.modified \/ Len(p) > Len(z.text))

display_str_width(s, c) ==
  Padded(s, Fill(IF Has(c, "0") THEN "0" ELSE " ", c.width - Len(s)), c)

Done(s) == [res |-> s, size |-> Len(s), ok |-> TRUE]
Null(size) == [res |-> << >>, size |-> size, ok |-> FALSE]

-----------------------------------------------------------------------------
(* Numbers *)

make_signed_conv(v, c) ==
  LET bits  == IF c.type = "D" THEN LongBits ELSE BitsOf(c.mod)
      n     == ft_lltoa(Signed(v, bits))
      flags == IF Has(c, "-") THEN Without(c, {"0"}) ELSE c
  IN  Done(display_flags(n.text, n.neg, flags))

UnsignedArg(v, c) == Unsigned(v, IF c.type \in {"U", "O", "B"} THEN LongBits ELSE BitsOf(c.mod))

make_unsigned_conv(v, c) ==
  Done(display_flags(ft_ulltoa(UnsignedArg(v, c)), 0, Without(c, {" ", "+"})))

\* # puts a 0 in front, unless there is nothing but a zero.
make_octal_conv(v, c0) ==
  LET c    == Without(c0, {" ", "+"} \cup (IF Has(c0, "-") THEN {"0"} ELSE {}))
      z    == check_zero(ft_baseconvert(SubSeq(DigitChars, 1, 8), UnsignedArg(v, c)), c)
      tag  == Has(c, "#") /\ (c.prec = 0 \/ AsInt(z.text) # 0)
      text == IF tag THEN <<"0">> \o z.text ELSE z.text
  IN  Done(display_width(display_prec(text, c.prec), 0, c).text)

Tag(type) == IF type = "X" THEN <<"0", "X">> ELSE <<"0", "x">>

\* The padding of a hexadecimal number with the 0x that belongs in it; a
\* number aligned to the left gets its 0x later, as a small one.
display_hex_tag(zero, n, c, s) ==
  LET fill == Fill(IF zero THEN "0" ELSE " ", IF Has(c, "#") THEN n - 2 ELSE n)
  IN  IF ~Has(c, "#") \/ s = << >> THEN fill
      ELSE IF zero THEN Tag(c.type) \o fill
      ELSE IF Has(c, "-") THEN fill ELSE fill \o Tag(c.type)

display_hex_flags(v, c0) ==
  LET c     == Without(c0, {" ", "+"})
      digit == ft_baseconvert(IF c.type = "X" THEN UpperHex ELSE LowerHex, v)
      z     == IF v = 0 THEN check_zero(digit, c) ELSE [text |-> digit, conv |-> c]
      p     == display_prec(z.text, c.prec)
      wide  == c.width > Len(p)
      zero  == Has(c, "0") /\ ~Has(c, "-") /\ c.prec = -1
      fill  == display_hex_tag(zero, c.width - Len(p), z.conv, p)
      w     == IF wide THEN Padded(p, fill, c) ELSE p
      type  == IF wide /\ p # << >> THEN "42" ELSE c.type
  IN  IF Has(z.conv, "#") /\ ~(wide /\ ~Has(c, "-")) THEN Tag(type) \o w ELSE w

make_hex_conv(v, c) == Done(display_hex_flags(UnsignedArg(v, c), c))

make_ptr_conv(v, c) ==
  Done(display_hex_flags(Unsigned(v, LongBits), [c EXCEPT !.flags = @ \cup {"#"}]))

\* All the bits of the type; precisions 4 and 8 are the sizes of groups, each
\* with a blank behind it.
make_binary_conv(v, c) ==
  LET b    == ft_baseconvert(<<"0", "1">>, UnsignedArg(v, c))
      bits == Fill("0", (IF c.type = "B" THEN LongBits ELSE BitsOf(c.mod)) - Len(b)) \o b
      G[j \in 0..Len(bits)] ==
        IF j = 0 THEN << >>
        ELSE G[j - 1] \o <<bits[j]>> \o (IF j % c.prec = 0 THEN <<" ">> ELSE << >>)
  IN  Done(display_str_width(IF c.prec \in {4, 8} THEN G[Len(bits)] ELSE bits, c))

-----------------------------------------------------------------------------
(* Characters and strings *)

Wide(c) == c.mod = "l" \/ c.type \in {"C", "S"}

Byte(n) == ToString(n)

\* The encoding of one wide character, from its last byte to its first.
get_next_byte(u, len) ==
  LET Rest(j) == u \div 64^j
      Mark(j) == IF Rest(j) > 31 THEN 128
                 ELSE IF j = 3 /\ Rest(j) < 8 THEN 240
                 ELSE IF j = 2 /\ Rest(j) < 16 THEN 224
                 ELSE IF j = 1 /\ Rest(j) < 32 THEN 192 ELSE 0
  IN  [b \in 1..len |-> (Rest(len - b) % 64) + Mark(len - b)]

check_valid_unicode(bytes) ==
  /\ (bytes[1] = 224 /\ Len(bytes) = 3) => bytes[2] >= 160
  /\ (bytes[1] = 237 /\ Len(bytes) = 3) => bytes[2] <= 159
  /\ (bytes[1] = 240 /\ Len(bytes) = 4) => bytes[2] >= 144
  /\ (bytes[1] = 244 /\ Len(bytes) = 4) => bytes[2] <= 143

get_unicode_len(u) == CASE u < 2048 -> 2 [] u >= 2048 /\ u < 65536 -> 3
                        [] u >= 65536 /\ u < 1114112 -> 4 [] OTHER -> -1

\* One wide character where the locale has mb bytes to a character.  `len' is
\* "unset" when the caller's length is left alone.
wchart_conv(u, mb) ==
  LET len   == get_unicode_len(u)
      bytes == get_next_byte(u, len)
  IN  IF u < 128 \/ (u < 256 /\ mb = 1)
        THEN [res |-> <<IF u = 0 THEN "NUL" ELSE Byte(u)>>, ok |-> TRUE, set |-> TRUE, len |-> 1]
      ELSE IF len > mb \/ len = -1 THEN [res |-> << >>, ok |-> FALSE, set |-> FALSE, len |-> 0]
      ELSE IF len >= 3 /\ ~check_valid_unicode(bytes)
        THEN [res |-> << >>, ok |-> FALSE, set |-> TRUE, len |-> -1]
      ELSE [res |-> [b \in 1..len |-> Byte(bytes[b])], ok |-> TRUE, set |-> TRUE, len |-> len]

\* The bytes of a character field.  The character 0 takes a place of its own:
\* the padding of ft_strlen is one too long and one byte of it is given up.
display_bsz(char, c) ==
  LET padded == display_str_width(IF char = "NUL" THEN << >> ELSE <<char>>, c)
  IN  IF char # "NUL" \/ c.width = 1 THEN Done(padded)
      ELSE IF padded = << >> THEN Done(<<"NUL">>)
      ELSE IF Has(c, "-") THEN Done(<<"NUL">> \o Tail(padded))
      ELSE Done(Tail(padded) \o <<"NUL">>)

make_char_conv(v, c, mb) ==
  IF ~Wide(c) THEN display_bsz(IF v.chars = << >> THEN Byte(v.n) ELSE v.chars[1], c)
  ELSE LET w == wchart_conv(v.n, mb) IN
       IF ~w.ok THEN Null(w.len)
       ELSE IF v.n = 0 THEN display_bsz("NUL", c) ELSE Done(display_str_width(w.res, c))

LeftWithout0(c) == IF Has(c, "-") THEN Without(c, {"0"}) ELSE c

\* A character the locale does not have leaves `len' alone: what its first
\* such character adds to the count is whatever stood in that variable.
unistr_conv(us, c, mb) ==
  LET W(j) == wchart_conv(us[j], mb)
      Step(st, j) ==
        LET len == IF W(j).set THEN W(j).len ELSE st.len
            all == st.count + len
        IN  IF st.over THEN st
            ELSE IF c.prec # -1 /\ all > c.prec THEN [st EXCEPT !.over = TRUE]
            ELSE IF ~W(j).ok
              THEN [st EXCEPT !.over = TRUE, !.ok = FALSE, !.size = IF W(j).set THEN -1 ELSE @]
            ELSE [st EXCEPT !.count = all, !.len = len, !.size = @ + len,
                            !.res = @ \o W(j).res]
      Run(garbage) ==
        LET R[j \in 0..Len(us)] ==
              IF j = 0 THEN [res |-> << >>, size |-> 0, ok |-> TRUE,
                             count |-> 0, len |-> garbage, over |-> FALSE]
              ELSE Step(R[j - 1], j)
        IN  R[Len(us)]
  IN  {Run(0), Run(c.prec + 1)}

NullString == <<"(", "n", "u", "l", "l", ")">>

make_str_conv(v, c0, mb) ==
  LET c == LeftWithout0(c0)
      Shown(s) == Done(display_str_width(s, c))
      Cut(s) == IF c.mod = "none" /\ c.type = "s" /\ c.prec > -1 /\ c.prec < Len(s)
                  THEN SubSeq(s, 1, c.prec) ELSE s
  IN  IF v.null THEN {Shown(Cut(NullString))}
      ELSE IF Wide(c)
        THEN {IF u.ok THEN Shown(u.res) ELSE Null(u.size) : u \in unistr_conv(v.codes, c, mb)}
      ELSE {Shown(Cut(v.chars))}

make_no_type_conv(c0) ==
  LET c == LeftWithout0(c0)
  IN  Done(display_str_width(IF c.no_type = NUL THEN << >> ELSE <<c.no_type>>, c))

-----------------------------------------------------------------------------

\* Everything make_conv can make of a specification and the next argument;
\* more than one result where the code reads a variable it did not set.
make_conv(c, v, mb) ==
  CASE c.type \in {"d", "D", "i"} -> {make_signed_conv(v.n, c)}
    [] c.type \in {"u", "U"}      -> {make_unsigned_conv(v.n, c)}
    [] c.type \in {"o", "O"}      -> {make_octal_conv(v.n, c)}
    [] c.type \in {"x", "X"}      -> {make_hex_conv(v.n, c)}
    [] c.type \in {"c", "C"}      -> {make_char_conv(v, c, mb)}
    [] c.type \in {"s", "S"}      -> make_str_conv(v, c, mb)
    [] c.type = "p"               -> {make_ptr_conv(v.n, c)}
    [] c.type = "0"               -> {make_no_type_conv(c)}
    [] c.type \in {"b", "B"}      -> {make_binary_conv(v.n, c)}
    [] c.type = "n"               -> {Null(0)}
=============================================================================
