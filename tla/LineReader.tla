----------------------------- MODULE LineReader -----------------------------
(***************************************************************************)
(* What a reader of lines promises for several files that are read in      *)
(* turns: every call gets the next line of its own file, whatever was read *)
(* of the others in between.  A read error may cut a line in two.          *)
(***************************************************************************)
EXTENDS Integers, Sequences

CONSTANTS Fds, Texts, NL, NoFd

VARIABLES left,    \* what each file has still to give
          asked,   \* the file a call is about, or NoFd
          answer,  \* what the last call returned: [ret, line]
          faults   \* read errors that may still happen

rvars == <<left, asked, answer, faults>>

FirstBreak(s) == CHOOSE j \in 1..(Len(s) + 1) :
                   /\ j = Len(s) + 1 \/ s[j] = NL
                   /\ \A l \in 1..(j - 1) : s[l] # NL

Init == /\ left \in [Fds -> Texts] /\ asked = NoFd
        /\ answer = [ret |-> 0, line |-> << >>] /\ faults \in Nat

Ask(f) == asked = NoFd /\ asked' = f /\ UNCHANGED <<left, answer, faults>>

\* The next line, without its end; the last one may have none.
Give(f) ==
  LET j == FirstBreak(left[f]) IN
  /\ asked = f /\ left[f] # << >>
  /\ answer' = [ret |-> 1, line |-> SubSeq(left[f], 1, j - 1)]
  /\ left' = [left EXCEPT ![f] = SubSeq(@, j + 1, Len(@))]
  /\ asked' = NoFd /\ UNCHANGED faults

End(f) == /\ asked = f /\ left[f] = << >>
          /\ answer' = [ret |-> 0, line |-> << >>] /\ asked' = NoFd
          /\ UNCHANGED <<left, faults>>

Fail(f) ==
  /\ asked = f /\ faults > 0 /\ faults' = faults - 1 /\ asked' = NoFd
  /\ \E j \in 0..(FirstBreak(left[f]) - 1) :
       /\ left' = [left EXCEPT ![f] = SubSeq(@, j + 1, Len(@))]
       /\ answer' = IF j = 0 THEN [ret |-> -1, line |-> << >>]
                    ELSE [ret |-> 1, line |-> SubSeq(left[f], 1, j)]

\* A file that has been read to its end is closed, another one gets its number.
Reopen(f) == /\ asked = NoFd /\ left[f] = << >>
             /\ \E t \in Texts : left' = [left EXCEPT ![f] = t]
             /\ UNCHANGED <<asked, answer, faults>>

Next == \E f \in Fds : Ask(f) \/ Give(f) \/ End(f) \/ Fail(f) \/ Reopen(f)

\* Who has asked is answered in the end.
Answer == \E f \in Fds : Give(f) \/ End(f) \/ Fail(f)
Spec   == Init /\ [][Next]_rvars /\ WF_rvars(Answer)
=============================================================================
