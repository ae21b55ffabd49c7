------------------------------- MODULE Lines -------------------------------
(***************************************************************************)
(* get_next_line of libft: the text read beyond a line is kept, for every  *)
(* descriptor, in a list that survives the call.  One step for the entry   *)
(* of a call and one for every read; the files hold no NUL.                *)
(***************************************************************************)
EXTENDS Integers, Sequences, FiniteSets

CONSTANTS
  Fds,        \* descriptors
  Texts,      \* what a file may hold: sequences of characters
  NL,         \* the character that ends a line
  BUFF_SIZE,  \* most a read returns
  MaxFaults,  \* read errors
  MaxOpens,   \* files opened on a descriptor that was read to its end
  NoFd        \* no call is under way

Chars == UNION {{t[j] : j \in DOMAIN t} : t \in Texts}

ASSUME ConstantsAssumption ==
  /\ NoFd \notin Fds /\ BUFF_SIZE \in Nat \ {0}
  /\ MaxFaults \in Nat /\ MaxOpens \in Nat
  /\ << >> \in Texts /\ \A t \in Texts : t \in Seq(Chars)

VARIABLES
  list,    \* the static list: [fd, str]
  fd,      \* the argument of the call that is under way, or NoFd
  file,    \* what read has not returned yet, for each descriptor
  answer,  \* what the last call returned
  faults, opens

vars == <<list, fd, file, answer, faults, opens>>

Entry(f)  == CHOOSE m \in DOMAIN list : list[m].fd = f
Known(f)  == \E m \in DOMAIN list : list[m].fd = f
Str(f)    == IF Known(f) THEN list[Entry(f)].str ELSE << >>

\* Mutant: the descriptor is not looked for.
get_corr_fd_Always(f) == Append(list, [fd |-> f, str |-> << >>])

\* get_corr_fd: a new entry is the last one, with nothing read.
get_corr_fd(f) == IF Known(f) THEN list ELSE Append(list, [fd |-> f, str |-> << >>])

\* get_rest: the first whole line of a text, and what is behind it.
HasLine(s) == \E j \in DOMAIN s : s[j] = NL
LineEnd(s) == CHOOSE j \in DOMAIN s : s[j] = NL /\ \A l \in 1..(j - 1) : s[l] # NL
LineOf(s)  == SubSeq(s, 1, LineEnd(s) - 1)

RestOf(s)  == SubSeq(s, LineEnd(s) + 1, Len(s))

\* Mutant: what is read goes to the front entry of the list.
Join_Front(f, s) == [list EXCEPT ![1] = [fd |-> list[1].fd, str |-> s]]

Join(f, s) == [list EXCEPT ![Entry(f)] = [fd |-> f, str |-> s]]

\* make_clean: the entry leaves the list.
make_clean(f) == [m \in 1..(Len(list) - 1) |-> list[IF m < Entry(f) THEN m ELSE m + 1]]

Returns(ret, line) == answer' = [ret |-> ret, line |-> line] /\ fd' = NoFd

-----------------------------------------------------------------------------

Init ==
  /\ list = << >> /\ fd = NoFd
  /\ file \in [Fds -> Texts]
  /\ answer = [ret |-> 0, line |-> << >>]
  /\ faults = MaxFaults /\ opens = MaxOpens

\* The beginning of get_next_line.
Enter(f) ==
  /\ fd = NoFd
  /\ fd' = f /\ list' = get_corr_fd(f)
  /\ UNCHANGED <<file, answer, faults, opens>>

\* The line is there already, from this call's reads or an earlier one's.
FromRest ==
  /\ fd # NoFd /\ HasLine(Str(fd))
  /\ list' = Join(fd, RestOf(Str(fd)))
  /\ Returns(1, LineOf(Str(fd)))
  /\ UNCHANGED <<file, faults, opens>>

\* What is left is the last line, without an end of its own.
LastLine ==
  /\ Str(fd) # << >>
  /\ list' = Join(fd, << >>)
  /\ Returns(1, Str(fd))

\* Mutant: there is a read whether or not the line is there already.
Read_Anyway ==
  /\ fd # NoFd
  /\ \E m \in 1..BUFF_SIZE :
       /\ m <= Len(file[fd])
       /\ list' = Join(fd, Str(fd) \o SubSeq(file[fd], 1, m))
       /\ file' = [file EXCEPT ![fd] = SubSeq(@, m + 1, Len(@))]
  /\ UNCHANGED <<fd, answer, faults, opens>>

\* read may return less than it was asked for.
Read ==
  /\ fd # NoFd /\ ~HasLine(Str(fd))
  /\ \E m \in 1..BUFF_SIZE :
       /\ m <= Len(file[fd])
       /\ list' = Join(fd, Str(fd) \o SubSeq(file[fd], 1, m))
       /\ file' = [file EXCEPT ![fd] = SubSeq(@, m + 1, Len(@))]
  /\ UNCHANGED <<fd, answer, faults, opens>>

ReadEnd ==
  /\ fd # NoFd /\ ~HasLine(Str(fd)) /\ file[fd] = << >>
  /\ LastLine \/ (Str(fd) = << >> /\ list' = make_clean(fd) /\ Returns(0, << >>))
  /\ UNCHANGED <<file, faults, opens>>

\* A failed read is an end of file to the text that is there.
ReadError ==
  /\ fd # NoFd /\ ~HasLine(Str(fd)) /\ faults > 0
  /\ faults' = faults - 1
  /\ LastLine \/ (Str(fd) = << >> /\ UNCHANGED list /\ Returns(-1, << >>))
  /\ UNCHANGED <<file, opens>>

\* The caller opens a file where it has read another one to its end.
Reopen(f) ==
  /\ fd = NoFd /\ ~Known(f) /\ file[f] = << >> /\ opens > 0
  /\ \E t \in Texts : file' = [file EXCEPT ![f] = t]
  /\ opens' = opens - 1
  /\ UNCHANGED <<list, fd, answer, faults>>

Call == FromRest \/ Read \/ ReadEnd \/ ReadError
Next == Call \/ \E f \in Fds : Enter(f) \/ Reopen(f)

Spec == Init /\ [][Next]_vars /\ WF_vars(Call)

-----------------------------------------------------------------------------
(* Properties *)

TypeOK ==
  /\ list \in Seq([fd : Fds, str : Seq(Chars)])
  /\ fd \in Fds \cup {NoFd}
  /\ fd # NoFd => Known(fd)
  /\ file \in [Fds -> Seq(Chars)]
  /\ answer \in [ret : {-1, 0, 1}, line : Seq(Chars)]
  /\ faults \in 0..MaxFaults /\ opens \in 0..MaxOpens

\* No two entries of the list are for the same descriptor, so that no text
\* is put where the next call does not look.
OneEntryEach == \A m, l \in DOMAIN list : list[m].fd = list[l].fd => m = l

\* Between calls less than one buffer is kept for a descriptor: reading goes
\* on only while there is no whole line.
RestIsShort ==
  \A m \in DOMAIN list : fd = NoFd => Len(list[m].str) < BUFF_SIZE

\* The list and the reads of get_next_line give every file's lines in turn, and
\* a call returns however little each read brings.
Reader == INSTANCE LineReader WITH
            left <- [f \in Fds |-> Str(f) \o file[f]], asked <- fd
ImplementsReader == Reader!Spec

=============================================================================
