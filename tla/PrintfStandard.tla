--------------------------- MODULE PrintfStandard ---------------------------
(***************************************************************************)
(* What a call of printf is and what the C standard lets it print, stated  *)
(* from the items of the format as a programmer means them: plain text,    *)
(* font groups, and conversions with their arguments.  An item is          *)
(*   [kind, text, shown, flags, width, prec, mod, type, v],                *)
(* where width and prec are [how, n] with how = "none", "given" or "star". *)
(***************************************************************************)
EXTENDS Integers, Sequences, TLC

CONSTANTS CharBits, ShortBits, IntBits, LongBits

Digits16 == <<"0", "1", "2", "3", "4", "5", "6", "7", "8", "9",
                    "a", "b", "c", "d", "e", "f">>
Capital(d) == CASE d = "a" -> "A" [] d = "b" -> "B" [] d = "c" -> "C"
                      [] d = "d" -> "D" [] d = "e" -> "E" [] d = "f" -> "F" [] OTHER -> d

\* The digits of n > 0 to the base b: place j from the right counts b^(j-1).
Numeral(n, b) ==
  LET places == CHOOSE p \in 1..30 : b^p > n /\ b^(p - 1) <= n
  IN  [j \in 1..places |-> Digits16[((n \div b^(places - j)) % b) + 1]]

Repeat(x, n) == IF n <= 0 THEN << >> ELSE [j \in 1..n |-> x]

Concat(ss) == LET C[j \in 0..Len(ss)] == IF j = 0 THEN << >> ELSE C[j - 1] \o ss[j]
              IN  C[Len(ss)]

-----------------------------------------------------------------------------
(* The format an item is written as, and the arguments it is given *)

Number(n) == [n |-> n, chars |-> << >>, codes |-> << >>, null |-> FALSE]

FieldText(f) == CASE f.how = "none" -> << >> [] f.how = "star" -> <<"*">>
                  [] f.how = "given" -> IF f.n = 0 THEN <<"0">> ELSE Numeral(f.n, 10)

ModText(mod) == CASE mod = "none" -> << >> [] mod = "hh" -> <<"h", "h">>
                  [] mod = "ll" -> <<"l", "l">> [] OTHER -> <<mod>>

WrittenAs(item) ==
  IF item.kind # "conv" THEN item.text
  ELSE <<"%">> \o item.flags \o FieldText(item.width)
       \o (IF item.prec.how = "none" THEN << >> ELSE <<".">> \o FieldText(item.prec))
       \o ModText(item.mod) \o <<item.type>>

Arguments(item) ==
  IF item.kind \in {"text", "broken"} THEN << >>
  ELSE IF item.kind = "font" THEN [j \in DOMAIN item.v.codes |-> Number(item.v.codes[j])]
  ELSE (IF item.width.how = "star" THEN <<Number(item.width.n)>> ELSE << >>)
       \o (IF item.prec.how = "star" THEN <<Number(item.prec.n)>> ELSE << >>)
       \o (IF item.type = "%" THEN << >> ELSE <<item.v>>)

FormatOf(items)    == Concat([j \in DOMAIN items |-> WrittenAs(items[j])])
ArgumentsOf(items) == Concat([j \in DOMAIN items |-> Arguments(items[j])])

-----------------------------------------------------------------------------
(* What an item shows (C11 7.21.6.1) *)

In(x, s) == \E j \in DOMAIN s : s[j] = x

Left(item)  == In("-", item.flags) \/ (item.width.how = "star" /\ item.width.n < 0)
Width(item) == IF item.width.how = "none" THEN 0
               ELSE IF item.width.n < 0 THEN - item.width.n ELSE item.width.n
HasPrec(item) == item.prec.how = "given" \/ (item.prec.how = "star" /\ item.prec.n >= 0)

Bits(item) == CASE item.type \in {"D", "U", "O", "p"} \/ item.mod \in {"l", "ll", "j", "z"} -> LongBits
                [] item.mod = "hh" -> CharBits [] item.mod = "h" -> ShortBits
                [] OTHER -> IntBits

IsSigned(item) == item.type \in {"d", "i", "D"}

\* The value in the type the modifier names.
Value(item) ==
  LET m == 2^Bits(item)
      u == ((item.v.n % m) + m) % m
  IN  IF IsSigned(item) /\ u >= m \div 2 THEN u - m ELSE u

Base(item) == CASE item.type \in {"o", "O"} -> 8 [] item.type \in {"x", "X", "p"} -> 16
                [] OTHER -> 10

DigitsOf(item) ==
  LET v    == Value(item)
      n    == IF v = 0 THEN << >> ELSE Numeral(IF v < 0 THEN -v ELSE v, Base(item))
      case == IF item.type = "X" THEN [j \in DOMAIN n |-> Capital(n[j])] ELSE n
      least == IF HasPrec(item) THEN item.prec.n ELSE 1
      text == Repeat("0", least - Len(case)) \o case
  IN  IF item.type \in {"o", "O"} /\ In("#", item.flags) /\ (text = << >> \/ text[1] # "0")
        THEN <<"0">> \o text ELSE text

Sign(item) == CASE ~IsSigned(item) -> << >>
                [] IsSigned(item) /\ Value(item) < 0 -> <<"-">>
                [] OTHER -> IF In("+", item.flags) THEN <<"+">>
                            ELSE IF In(" ", item.flags) THEN <<" ">> ELSE << >>

Prefix(item) == IF item.type = "p" THEN <<"0", "x">>
                ELSE IF item.type \in {"x", "X"} /\ In("#", item.flags) /\ Value(item) # 0
                  THEN <<"0", item.type>> ELSE << >>

NumberField(item) ==
  LET front == Sign(item) \o Prefix(item)
      text  == front \o DigitsOf(item)
      room  == Width(item) - Len(text)
  IN  IF Left(item) THEN text \o Repeat(" ", room)
      ELSE IF In("0", item.flags) /\ ~HasPrec(item) THEN front \o Repeat("0", room) \o DigitsOf(item)
      ELSE Repeat(" ", room) \o text

TextField(item, text) ==
  LET blanks == Repeat(" ", Width(item) - Len(text))
  IN  IF Left(item) THEN text \o blanks ELSE blanks \o text

\* UTF-8, or one byte where the locale knows no more.
Utf8(u) == CASE u < 128 -> <<u>>
             [] u >= 128 /\ u < 2048 -> <<192 + u \div 64, 128 + (u % 64)>>
             [] u >= 2048 /\ u < 65536 -> <<224 + u \div 4096, 128 + ((u \div 64) % 64), 128 + (u % 64)>>
             [] OTHER -> <<240 + u \div 262144, 128 + ((u \div 4096) % 64),
                           128 + ((u \div 64) % 64), 128 + (u % 64)>>

Encodable(u, mb) == IF mb = 1 THEN u < 256 ELSE u < 1114112 /\ u \notin 55296..57343
Encoded(u, mb) == LET bytes == IF mb = 1 THEN <<u>> ELSE Utf8(u)
                  IN  [j \in DOMAIN bytes |-> IF bytes[j] = 0 THEN "NUL" ELSE ToString(bytes[j])]

IsWide(item) == item.kind = "conv"
                /\ (item.type \in {"C", "S"} \/ (item.type \in {"c", "s"} /\ item.mod = "l"))

Nullary == <<"(", "n", "u", "l", "l", ")">>
NarrowText(item) ==
  LET s == IF item.v.null THEN Nullary ELSE item.v.chars
  IN  IF HasPrec(item) /\ item.prec.n < Len(s) THEN SubSeq(s, 1, item.prec.n) ELSE s

\* As many whole characters as the precision has bytes for.
WideText(item, mb) ==
  LET us     == item.v.codes
      T[j \in 0..Len(us)] == IF j = 0 THEN << >> ELSE T[j - 1] \o Encoded(us[j], mb)
      fit    == {j \in 0..Len(us) : ~HasPrec(item) \/ Len(T[j]) <= item.prec.n}
  IN  T[CHOOSE j \in fit : \A m \in fit : m <= j]

Shows(item, mb) ==
  IF item.kind # "conv" THEN item.shown
  ELSE CASE item.type = "%" -> <<"%">>
         [] item.type = "n" -> << >>
         [] item.type \in {"c", "C"} ->
              TextField(item, IF IsWide(item) THEN Encoded(item.v.n, mb) ELSE item.v.chars)
         [] item.type \in {"s", "S"} ->
              TextField(item, IF IsWide(item) /\ ~item.v.null THEN WideText(item, mb)
                              ELSE NarrowText(item))
         [] OTHER -> NumberField(item)

\* A wide character the locale cannot encode fails the call; in a string only
\* if the precision lets the output get there.
Fails(item, mb) ==
  /\ IsWide(item)
  /\ IF item.type \in {"c", "C"} THEN ~Encodable(item.v.n, mb)
     ELSE \E j \in DOMAIN item.v.codes : ~Encodable(item.v.codes[j], mb)
=============================================================================
