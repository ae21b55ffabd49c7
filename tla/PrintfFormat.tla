---------------------------- MODULE PrintfFormat ----------------------------
(***************************************************************************)
(* What ft_printf reads in a format: the font groups of font.c and the     *)
(* conversion specifications of parsing.c and parse_conv.c.  A text is a   *)
(* sequence of one-character strings; reading behind its end gives NUL.    *)
(* `args' are the arguments that are still to be taken.                    *)
(***************************************************************************)
EXTENDS Integers, Sequences, TLC

DigitChars == <<"0", "1", "2", "3", "4", "5", "6", "7", "8", "9">>
Digit == {DigitChars[d] : d \in 1..10}
FLAGS == {"#", "0", "-", "+", " ", "'"}
TYPES == {"s", "S", "p", "d", "D", "i", "o", "O", "u", "U", "x", "X", "c", "C",
          "f", "F", "b", "B", "e", "E", "g", "G", "n", "%"}
VALID == FLAGS \cup {"h", "l", "j", "z", "L", ".", "*"} \cup (TYPES \ {"%"})

NUL == ""
At(s, j) == IF j \in DOMAIN s THEN s[j] ELSE NUL

\* The first place from j on whose character P holds of; NUL ends every scan.
\* Scans of this code are "while the character is in `set'".
Skip(s, j, set) ==
  CHOOSE m \in j..(Len(s) + 1) : /\ At(s, m) \notin set \/ At(s, m) = NUL
                                 /\ \A l \in j..(m - 1) : At(s, l) \in set

\* ft_atoi on the texts it gets here: blanks, at most one sign, digits.
Atoi(s, j) ==
  LET b == Skip(s, j, {" "})
      signed == At(s, b) \in {"+", "-"}
      from == IF signed THEN b + 1 ELSE b
      to   == Skip(s, from, Digit)
      V[m \in (from - 1)..(to - 1)] ==
        IF m = from - 1 THEN 0
        ELSE 10 * V[m - 1] + ((CHOOSE d \in 1..10 : DigitChars[d] = s[m]) - 1)
  IN  IF signed /\ At(s, b) = "-" THEN - V[to - 1] ELSE V[to - 1]

-----------------------------------------------------------------------------
(* One conversion specification *)

\* The length of the specification behind the % at i, its last character
\* (a type, or whatever stopped the scan) included.
ConvLen(s, i) == LET m == Skip(s, i + 1, (VALID \cup Digit) \ TYPES) IN m - i

get_conv_string(s, i) == SubSeq(s, i + 1, IF i + ConvLen(s, i) > Len(s)
                                            THEN Len(s) ELSE i + ConvLen(s, i))

\* 0 is a flag when the first digit anywhere in the specification is a 0.
get_flags(str) ==
  LET d == Skip(str, 1, {str[j] : j \in DOMAIN str} \ Digit)
  IN  {c \in FLAGS \ {"0"} : \E j \in DOMAIN str : str[j] = c}
      \cup (IF At(str, d) = "0" THEN {"0"} ELSE {})

\* `taken' is the number of arguments used.  A width of digits that follows
\* the * wins over the argument.
get_width(str, args) ==
  LET j     == Skip(str, 1, FLAGS)
      star  == Skip(str, j, Digit)
      later == Skip(str, star, {"#", "0", "-", "+", " ", "h", "l", "j", "z", "*", "L"})
  IN  IF At(str, star) # "*"
        THEN [width |-> Atoi(str, j), left |-> FALSE, taken |-> 0]
      ELSE IF At(str, later) \in Digit
        THEN [width |-> Atoi(str, later), left |-> FALSE, taken |-> 1]
      ELSE [width |-> IF args[1] < 0 THEN - args[1] ELSE args[1],
            left |-> args[1] < 0, taken |-> 1]

get_prec(str, args) ==
  LET dots == {j \in DOMAIN str : str[j] = "."}
      dot  == CHOOSE j \in dots : \A m \in dots : m <= j
  IN  IF dots = {} THEN [prec |-> -1, taken |-> 0]
      ELSE IF At(str, dot + 1) = "*"
        THEN [prec |-> IF args[1] < 0 THEN -1 ELSE args[1], taken |-> 1]
      ELSE [prec |-> Atoi(str, dot + 1), taken |-> 0]

get_mod(str) ==
  LET Has(c)     == \E j \in DOMAIN str : str[j] = c
      First(c)   == CHOOSE j \in DOMAIN str : str[j] = c /\ \A m \in 1..(j - 1) : str[m] # c
      Doubled(c) == At(str, First(c) + 1) = c
  IN  CASE Has("j") -> "j"
        [] Has("z") /\ ~Has("j") -> "z"
        [] Has("L") /\ ~Has("j") /\ ~Has("z") -> "ll"
        [] OTHER -> IF Has("l") THEN IF Doubled("l") THEN "ll" ELSE "l"
                    ELSE IF Has("h") THEN IF Doubled("h") THEN "hh" ELSE "h"
                    ELSE "none"

NextPart(s, i, len) == IF At(s, i + len) = NUL THEN i + len ELSE i + len + 1

\* No type, and %%, become the type "0", which prints no_type.
parse_conv(s, i, args) ==
  LET len   == ConvLen(s, i)
      str   == get_conv_string(s, i)
      w     == get_width(str, args)
      p     == get_prec(str, SubSeq(args, w.taken + 1, Len(args)))
      type  == At(s, i + len)
      typed == type \in TYPES \ {"%"}
  IN  [conv |-> [flags |-> get_flags(str) \cup (IF w.left THEN {"-"} ELSE {}),
                 width |-> w.width, prec |-> p.prec, mod |-> get_mod(str),
                 type |-> IF typed THEN type ELSE "0", no_type |-> type],
       next |-> NextPart(s, i, len),
       taken |-> w.taken + p.taken]

-----------------------------------------------------------------------------
(* Font groups: {...} becomes an escape sequence, or stays as it is *)

EFFECT == "E" :> <<"0", ";">> @@ "G" :> <<"1", ";">> @@ "S" :> <<"2", ";">>
          @@ "I" :> <<"3", ";">> @@ "U" :> <<"4", ";">>
COLORS == <<"N", "R", "G", "Y", "B", "M", "C", "W">>

Itoa(n) == LET T[m \in Nat] == IF m < 10 THEN <<DigitChars[m + 1]>>
                               ELSE Append(T[m \div 10], DigitChars[(m % 10) + 1])
           IN  IF n < 0 THEN <<"-">> \o T[-n] ELSE T[n]

\* F, B: one of the eight colours, or after a 2 its bright form.
color_conv(s, i) ==
  LET bright == At(s, i + 1) = "2"
      at     == IF bright THEN i + 2 ELSE i + 1
      colour == {c \in DOMAIN COLORS : COLORS[c] = At(s, at)}
      code   == (IF s[i] = "F" THEN 30 ELSE 40) + (IF bright THEN 60 ELSE 0)
  IN  IF colour = {} THEN [text |-> << >>, last |-> at - 1, ok |-> FALSE, taken |-> 0]
      ELSE [text |-> Itoa(code + (CHOOSE c \in colour : TRUE) - 1) \o <<";">>,
            last |-> at, ok |-> TRUE, taken |-> 0]

\* MF, MB: a colour in three arguments.
rgb_conv(s, i, args) ==
  IF At(s, i + 1) \notin {"F", "B"} THEN [text |-> << >>, last |-> i, ok |-> FALSE, taken |-> 0]
  ELSE [text |-> (IF s[i + 1] = "F" THEN <<"3", "8">> ELSE <<"4", "8">>) \o <<";", "2", ";">>
                 \o Itoa(args[1] % 256) \o <<";">> \o Itoa(args[2] % 256) \o <<";">>
                 \o Itoa(args[3] % 256) \o <<";">>,
        last |-> i + 1, ok |-> TRUE, taken |-> 3]

FontConv(s, i, args) ==
  IF s[i] \in DOMAIN EFFECT THEN [text |-> EFFECT[s[i]], last |-> i, ok |-> TRUE, taken |-> 0]
  ELSE IF s[i] \in {"F", "B"} THEN color_conv(s, i)
  ELSE IF s[i] = "M" THEN rgb_conv(s, i, args)
  ELSE [text |-> << >>, last |-> i, ok |-> FALSE, taken |-> 0]

\* The group that opens in front of i: `stop' is the } or { or NUL behind it.
\* After a wrong character the rest is only skipped, but what was taken from
\* the arguments stays taken.
is_valid_font(s, i, args) ==
  LET stop == Skip(s, i, {s[j] : j \in DOMAIN s} \ {"{", "}"})
      Scan[j \in i..stop] ==
        IF j = i THEN [text |-> << >>, at |-> i, ok |-> TRUE, taken |-> 0]
        ELSE LET f == Scan[j - 1] IN
             IF j - 1 # f.at THEN f
             ELSE IF ~f.ok THEN [f EXCEPT !.at = j]
             ELSE LET c == FontConv(s, j - 1, SubSeq(args, f.taken + 1, Len(args)))
                  IN  [text |-> f.text \o c.text, at |-> c.last + 1, ok |-> c.ok,
                       taken |-> f.taken + c.taken]
      whole == Scan[stop]
  IN  [ok |-> whole.ok /\ At(s, stop) = "}" /\ whole.text # << >>,
       text |-> <<"ESC", "[">> \o whole.text \o <<"m">>,
       stop |-> stop, taken |-> whole.taken]
=============================================================================
