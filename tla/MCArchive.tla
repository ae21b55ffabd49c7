----------------------------- MODULE MCArchive -----------------------------
(* Archive on archives of up to three members, laid out as ar does it and   *)
(* with the last member cut off, and with a size that has a minus sign.     *)
EXTENDS Archive

MCArchTable == <<[name |-> "i386", cputype |-> 7, cpusubtype |-> 3],
                 [name |-> "i486", cputype |-> 7, cpusubtype |-> 4],
                 [name |-> "ppc",  cputype |-> 18, cpusubtype |-> 0]>>

MCArchFlags == {<< >>, <<"all">>, <<"i386">>, <<"i486">>, <<"i486", "ppc">>,
                <<"ppc", "i386">>}

Object(t, s) == [kind |-> "MH", cputype |-> t, cpusubtype |-> s, fatok |-> FALSE]
Fat(ok)      == [NoContent EXCEPT !.kind = "FAT", !.fatok = ok]

Plain(size) == [size |-> size, ext |-> FALSE, len |-> 0, symdef |-> FALSE]
Long(size)  == [size |-> size, ext |-> TRUE, len |-> 20, symdef |-> FALSE]

Kinds == {
  [h |-> Plain(40), c |-> Object(7, 3)],
  [h |-> Plain(60), c |-> Object(18, 0)],
  [h |-> Long(60), c |-> Object(18, 0)],
  [h |-> [Long(40) EXCEPT !.symdef = TRUE], c |-> NoContent],
  [h |-> Plain(31), c |-> Object(7, 4 + SubtypeSpan)],  \* odd size
  [h |-> Long(44), c |-> Fat(TRUE)],
  [h |-> Plain(44), c |-> Fat(FALSE)],
  [h |-> [Plain(24) EXCEPT !.len = 6], c |-> NoContent]}  \* digits in the name

\* ar's layout of a list of members, less `cut' bytes at the end.
Layout(ms, cut, noise, beyond) ==
  LET start[n \in 1..(Len(ms) + 1)] ==
        IF n = 1 THEN SARMAG
        ELSE LET e == start[n - 1] + ArHdr + ms[n - 1].h.size IN e + (e % 2)
      data(n) == start[n] + ArHdr + (IF ms[n].h.ext THEN ms[n].h.len ELSE 0)
  IN  [fsize    |-> start[Len(ms) + 1] - cut,
       headers  |-> [p \in {start[n] : n \in 1..Len(ms)} |->
                       ms[CHOOSE n \in 1..Len(ms) : start[n] = p].h],
       contents |-> [p \in {data(n) : n \in 1..Len(ms)} |->
                       ms[CHOOSE n \in 1..Len(ms) : data(n) = p].c],
       \* the size field is left-aligned behind a blank, the name is no long name
       shifted  |-> [p \in {start[n] - 1 : n \in 2..Len(ms)} |->
                       Plain(ms[CHOOSE n \in 1..Len(ms) : start[n] = p + 1].h.size)],
       noise    |-> noise, beyond |-> beyond]

Noises == {Plain(0), Long(300)}

\* The size of the header at p is written over.
Overwritten(ar, p, size) ==
  [ar EXCEPT !.headers[p].size = size,
             !.shifted = [q \in DOMAIN ar.shifted |->
                            IF q = p - 1 THEN Plain(size) ELSE ar.shifted[q]]]

MCArchives ==
  {Layout(ms, 0, noise, beyond) :
     ms \in UNION {[1..n -> Kinds] : n \in 0..2}, noise \in Noises,
     beyond \in {Plain(0), Plain(500)}}
  \cup {Layout(ms, 0, Plain(0), Plain(0)) : ms \in [1..3 -> Kinds]}
  \cup {Layout(ms, cut, Plain(0), Plain(0)) :
          ms \in UNION {[1..n -> Kinds] : n \in 1..2}, cut \in {1, 10, 30}}
  \cup UNION {{Overwritten(ar, p, size) :
                 p \in DOMAIN ar.headers, size \in {-60, -40, -100}} :
               ar \in {Layout(ms, 0, Plain(0), Plain(0)) :
                         ms \in UNION {[1..n -> Kinds] : n \in 1..2}}}
=============================================================================
