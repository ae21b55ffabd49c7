------------------------------- MODULE Report -------------------------------
(***************************************************************************)
(* What nm and otool promise for a list of files: the files are answered   *)
(* one by one, in the order of the command line; the answer to a file is   *)
(* one of those that suit it, whatever the files in front of it were.      *)
(***************************************************************************)
EXTENDS Naturals, Sequences

CONSTANT
  Answers(_, _)  \* of a request the answers that suit its i-th file

VARIABLES
  request,   \* the command line
  answered,  \* how many files have been answered
  report     \* the listings printed, in order

rvars == <<request, answered, report>>

Init == answered = 0 /\ report = << >>

Answer ==
  /\ answered < Len(request.files)
  /\ answered' = answered + 1
  /\ \E a \in Answers(request, answered + 1) : report' = report \o a
  /\ UNCHANGED request

\* Every file is answered in the end.
Spec == Init /\ [][Answer]_rvars /\ <>(answered = Len(request.files))
=============================================================================
