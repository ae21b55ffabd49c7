---------------------------- MODULE LinesProofs ----------------------------
(***************************************************************************)
(* Proofs about Lines for any number of descriptors, any texts, any size   *)
(* of the buffer: the list keeps one short rest per descriptor, and every  *)
(* step of get_next_line is a step of the line reader it promises to be.   *)
(***************************************************************************)
EXTENDS Lines, SequenceTheorems, WellFoundedInduction, TLAPS

-----------------------------------------------------------------------------
(* The list, as a value *)

Entries   == [fd : Fds, str : Seq(Chars)]
Unique(L) == \A m, l \in DOMAIN L : L[m].fd = L[l].fd => m = l

In(L, f)   == \E m \in DOMAIN L : L[m].fd = f
Place(L, f) == CHOOSE m \in DOMAIN L : L[m].fd = f
Text(L, f) == IF In(L, f) THEN L[Place(L, f)].str ELSE << >>

Joined(L, f, s) == [L EXCEPT ![Place(L, f)] = [fd |-> f, str |-> s]]
Longer(L, f)    == Append(L, [fd |-> f, str |-> << >>])
Shorter(L, f)   == [m \in 1..(Len(L) - 1) |-> L[IF m < Place(L, f) THEN m ELSE m + 1]]

\* The entry of a descriptor is found wherever it stands.
LEMMA Found ==
  ASSUME NEW L, NEW f, In(L, f)
  PROVE  Place(L, f) \in DOMAIN L /\ L[Place(L, f)].fd = f /\ Text(L, f) = L[Place(L, f)].str
BY DEF In, Place, Text

LEMMA FoundAt ==
  ASSUME NEW L, Unique(L), NEW m \in DOMAIN L
  PROVE  In(L, L[m].fd) /\ Place(L, L[m].fd) = m /\ Text(L, L[m].fd) = L[m].str
BY DEF In, Place, Text, Unique

LEMMA TextIsSeq ==
  ASSUME NEW L \in Seq(Entries), NEW f
  PROVE  Text(L, f) \in Seq(Chars)
<1>1. CASE In(L, f)
  <2>1. Place(L, f) \in 1..Len(L) /\ Text(L, f) = L[Place(L, f)].str
    BY <1>1, Found
  <2>2. L[Place(L, f)] \in Entries
    BY <2>1
  <2> QED BY <2>1, <2>2 DEF Entries
<1>2. CASE ~In(L, f)
  BY <1>2 DEF Text
<1> QED BY <1>1, <1>2

\* A join changes the text of one descriptor and nothing else.
LEMMA JoinedList ==
  ASSUME NEW L \in Seq(Entries), Unique(L), NEW f \in Fds, In(L, f), NEW s \in Seq(Chars)
  PROVE  /\ Joined(L, f, s) \in Seq(Entries) /\ Len(Joined(L, f, s)) = Len(L) /\ Unique(Joined(L, f, s))
         /\ \A m \in 1..Len(L) : Joined(L, f, s)[m].fd = L[m].fd
         /\ \A m \in 1..Len(L) : Joined(L, f, s)[m].str = IF L[m].fd = f THEN s ELSE L[m].str
         /\ \A g : In(Joined(L, f, s), g) <=> In(L, g)
         /\ \A g : Text(Joined(L, f, s), g) = IF g = f THEN s ELSE Text(L, g)
<1> DEFINE J == Joined(L, f, s)
<1>0. J = [L EXCEPT ![Place(L, f)] = [fd |-> f, str |-> s]]
  BY DEF Joined
<1> HIDE DEF J
<1> DEFINE p == Place(L, f)
<1>1. p \in 1..Len(L) /\ L[p].fd = f /\ DOMAIN L = 1..Len(L)
  BY Found
<1>2. \A m \in 1..Len(L) : L[m] \in Entries
  OBVIOUS
<1> HIDE DEF p
<1> DEFINE e == [fd |-> f, str |-> s]
<1>3. J = [L EXCEPT ![p] = e] /\ e \in Entries
  BY <1>0 DEF Entries, p
<1>4a. e.fd = f /\ e.str = s
  OBVIOUS
<1> HIDE DEF e
<1>4. /\ J \in Seq(Entries) /\ Len(J) = Len(L)
      /\ \A m \in 1..Len(L) : J[m] = IF m = p THEN e ELSE L[m]
  <2>1. /\ [L EXCEPT ![p] = e] \in Seq(Entries)
        /\ Len([L EXCEPT ![p] = e]) = Len(L)
        /\ \A m \in 1..Len(L) : [L EXCEPT ![p] = e][m] = IF m = p THEN e ELSE L[m]
    BY <1>1, <1>3, ExceptSeq
  <2> QED BY <1>3, <2>1
<1>5. \A m \in 1..Len(L) : J[m].fd = L[m].fd /\ J[m].str = IF m = p THEN s ELSE L[m].str
  BY <1>1, <1>4, <1>4a
<1>6. \A m \in 1..Len(L) : m = p <=> L[m].fd = f
  BY <1>1 DEF Unique
<1>7. DOMAIN J = 1..Len(L)
  BY <1>4
<1>8. Unique(J)
  BY <1>1, <1>5, <1>7 DEF Unique
<1>9. \A g : In(J, g) <=> In(L, g)
  BY <1>1, <1>5, <1>7 DEF In
<1>10. ASSUME NEW g PROVE Text(J, g) = IF g = f THEN s ELSE Text(L, g)
  <2>1. CASE ~In(L, g)
    BY <1>9, <2>1 DEF Text
  <2>2. CASE In(L, g)
    <3>1. PICK m \in 1..Len(L) : L[m].fd = g
      BY <1>1, <2>2 DEF In
    <3>2. Text(L, g) = L[m].str
      BY <1>1, <3>1, FoundAt
    <3>3. m \in DOMAIN J /\ J[m].fd = g
      BY <1>5, <1>7, <3>1
    <3>4. Text(J, g) = J[m].str
      BY <1>8, <3>3, FoundAt
    <3> QED BY <1>5, <1>6, <3>1, <3>2, <3>4
  <2> QED BY <2>1, <2>2
<1> QED BY <1>4, <1>5, <1>6, <1>8, <1>9, <1>10 DEF J

\* A new entry is behind the others and holds nothing.
LEMMA LongerList ==
  ASSUME NEW L \in Seq(Entries), Unique(L), NEW f \in Fds, ~In(L, f)
  PROVE  /\ Longer(L, f) \in Seq(Entries) /\ Len(Longer(L, f)) = Len(L) + 1 /\ Unique(Longer(L, f))
         /\ \A m \in 1..Len(L) : Longer(L, f)[m] = L[m]
         /\ Longer(L, f)[Len(L) + 1] = [fd |-> f, str |-> << >>]
         /\ In(Longer(L, f), f)
         /\ \A g : Text(Longer(L, f), g) = Text(L, g)
<1> DEFINE J == Longer(L, f)
<1>0. J = Append(L, [fd |-> f, str |-> << >>])
  BY DEF Longer
<1> HIDE DEF J
<1>1. [fd |-> f, str |-> << >>] \in Entries
  BY DEF Entries
<1>2. /\ J \in Seq(Entries) /\ Len(J) = Len(L) + 1
      /\ \A m \in 1..Len(L) : J[m] = L[m]
      /\ J[Len(L) + 1] = [fd |-> f, str |-> << >>]
  BY <1>0, <1>1, AppendProperties
<1>3. DOMAIN J = 1..(Len(L) + 1) /\ DOMAIN L = 1..Len(L) /\ Len(L) \in Nat
  BY <1>2
<1>4. \A m \in 1..Len(L) : L[m].fd # f
  BY <1>3 DEF In
<1>5. Unique(J)
  <2> SUFFICES ASSUME NEW m \in 1..(Len(L) + 1), NEW l \in 1..(Len(L) + 1), J[m].fd = J[l].fd
               PROVE  m = l
    BY <1>3 DEF Unique
  <2>1. CASE m \in 1..Len(L) /\ l \in 1..Len(L)
    BY <1>2, <1>3, <2>1 DEF Unique
  <2>2. CASE m = Len(L) + 1 \/ l = Len(L) + 1
    BY <1>2, <1>3, <1>4, <2>2
  <2> QED BY <1>3, <2>1, <2>2
<1>6. In(J, f)
  <2>1. Len(L) + 1 \in DOMAIN J /\ J[Len(L) + 1].fd = f
    BY <1>2, <1>3
  <2> QED BY <2>1 DEF In
<1>7. ASSUME NEW g PROVE Text(J, g) = Text(L, g)
  <2>1. CASE In(L, g)
    <3>1. PICK m \in 1..Len(L) : L[m].fd = g
      BY <1>3, <2>1 DEF In
    <3>2. Text(L, g) = L[m].str
      BY <1>3, <3>1, FoundAt
    <3>3. m \in DOMAIN J /\ J[m] = L[m]
      BY <1>2, <1>3, <3>1
    <3>4. Text(J, g) = J[m].str
      BY <1>5, <3>1, <3>3, FoundAt
    <3> QED BY <3>2, <3>3, <3>4
  <2>2. CASE ~In(L, g) /\ g = f
    <3>1. Len(L) + 1 \in DOMAIN J /\ J[Len(L) + 1].fd = g /\ J[Len(L) + 1].str = << >>
      BY <1>2, <1>3, <2>2
    <3>2. Text(J, g) = << >>
      BY <1>5, <3>1, FoundAt
    <3> QED BY <2>2, <3>2 DEF Text
  <2>3. CASE ~In(L, g) /\ g # f
    <3>1. ~In(J, g)
      <4> SUFFICES ASSUME NEW m \in 1..(Len(L) + 1) PROVE J[m].fd # g
        BY <1>3 DEF In
      <4>1. CASE m = Len(L) + 1
        BY <1>2, <2>3, <4>1
      <4>2. CASE m \in 1..Len(L)
        BY <1>2, <1>3, <2>3, <4>2 DEF In
      <4> QED BY <1>3, <4>1, <4>2
    <3> QED BY <2>3, <3>1 DEF Text
  <2> QED BY <2>1, <2>2, <2>3
<1> QED BY <1>2, <1>5, <1>6, <1>7 DEF J

\* An entry that leaves takes its own text with it and no other one.
LEMMA ShorterList ==
  ASSUME NEW L \in Seq(Entries), Unique(L), NEW f, In(L, f)
  PROVE  /\ Shorter(L, f) \in Seq(Entries) /\ Unique(Shorter(L, f))
         /\ \A m \in DOMAIN Shorter(L, f) : \E l \in 1..Len(L) : L[l].fd # f /\ Shorter(L, f)[m] = L[l]
         /\ \A g : Text(Shorter(L, f), g) = IF g = f THEN << >> ELSE Text(L, g)
<1> DEFINE J == Shorter(L, f)
<1>0. J = [m \in 1..(Len(L) - 1) |-> L[IF m < Place(L, f) THEN m ELSE m + 1]]
  BY DEF Shorter
<1> HIDE DEF J
<1> DEFINE p == Place(L, f)
           Old(m) == IF m < p THEN m ELSE m + 1
<1>1. p \in 1..Len(L) /\ L[p].fd = f /\ DOMAIN L = 1..Len(L) /\ Len(L) \in Nat
  BY Found
<1>2a. J = [m \in 1..(Len(L) - 1) |-> L[Old(m)]]
  BY <1>0
<1>2. DOMAIN J = 1..(Len(L) - 1) /\ Len(L) - 1 \in Nat /\ \A m \in DOMAIN J : J[m] = L[Old(m)]
  BY <1>1, <1>2a
<1> HIDE DEF p
<1>3. \A m \in DOMAIN J : Old(m) \in 1..Len(L) /\ Old(m) # p
  BY <1>1, <1>2
<1>4. \A m \in 1..Len(L) : L[m].fd = f => m = p
  BY <1>1 DEF Unique
<1>5. J \in Seq(Entries)
  <2>1. \A m \in 1..(Len(L) - 1) : L[Old(m)] \in Entries
    BY <1>2, <1>3
  <2>2. J \in [1..(Len(L) - 1) -> Entries]
    BY <1>2a, <2>1
  <2> QED BY <1>2, <2>2, SeqDef
<1>6. \A m \in DOMAIN J : Old(m) \in 1..Len(L) /\ L[Old(m)].fd # f /\ J[m] = L[Old(m)]
  BY <1>2, <1>3, <1>4
<1>7. Unique(J)
  <2> SUFFICES ASSUME NEW m \in DOMAIN J, NEW l \in DOMAIN J, J[m].fd = J[l].fd PROVE m = l
    BY DEF Unique
  <2>1. /\ Old(m) \in DOMAIN L /\ J[m] = L[Old(m)]
        /\ Old(l) \in DOMAIN L /\ J[l] = L[Old(l)]
    BY <1>1, <1>6
  <2>2. Old(m) = Old(l)
    BY <2>1 DEF Unique
  <2> QED BY <1>1, <1>2, <2>2
<1>8. ASSUME NEW g PROVE Text(J, g) = IF g = f THEN << >> ELSE Text(L, g)
  <2>1. CASE In(J, g)
    <3>1. PICK m \in DOMAIN J : J[m].fd = g
      BY <2>1 DEF In
    <3>2. Text(J, g) = J[m].str
      BY <1>7, <3>1, FoundAt
    <3>3. Old(m) \in DOMAIN L /\ L[Old(m)].fd = g /\ g # f /\ J[m].str = L[Old(m)].str
      BY <1>1, <1>6, <3>1
    <3>4. Text(L, g) = L[Old(m)].str
      BY <3>3, FoundAt
    <3> QED BY <3>2, <3>3, <3>4
  <2>2. CASE ~In(J, g) /\ g # f
    <3>1. ~In(L, g)
      <4> SUFFICES ASSUME NEW l \in 1..Len(L), L[l].fd = g PROVE FALSE
        BY <1>1 DEF In
      <4>1. l # p
        BY <1>1, <2>2
      <4>2. \E m \in DOMAIN J : Old(m) = l
        <5>1. CASE l < p
          <6>1. l \in DOMAIN J /\ Old(l) = l
            BY <1>1, <1>2, <5>1
          <6> QED BY <6>1
        <5>2. CASE l > p
          <6>1. l - 1 \in DOMAIN J /\ Old(l - 1) = l
            BY <1>1, <1>2, <5>2
          <6> QED BY <6>1
        <5> QED BY <1>1, <4>1, <5>1, <5>2
      <4> QED BY <1>6, <2>2, <4>2 DEF In
    <3> QED BY <2>2, <3>1 DEF Text
  <2>3. CASE ~In(J, g) /\ g = f
    BY <2>3 DEF Text
  <2> QED BY <2>1, <2>2, <2>3
<1> QED BY <1>5, <1>6, <1>7, <1>8 DEF J

-----------------------------------------------------------------------------
(* Where a line ends *)

LEMMA LeastOf ==
  ASSUME NEW T \in SUBSET Nat, T # {}
  PROVE  \E x \in T : \A y \in T : x <= y
<1>1. PICK x \in T : \A y \in T : ~(<<y, x>> \in OpToRel(<, Nat))
  BY WFMin, NatLessThanWellFounded, Zenon
<1>2. \A y \in T : ~(y < x)
  BY <1>1, Zenon DEF OpToRel
<1> QED BY <1>2

LEMMA LineEndIs ==
  ASSUME NEW s \in Seq(Chars), HasLine(s)
  PROVE  /\ LineEnd(s) \in 1..Len(s) /\ s[LineEnd(s)] = NL
         /\ \A l \in 1..(LineEnd(s) - 1) : s[l] # NL
<1> DEFINE T == {j \in 1..Len(s) : s[j] = NL}
<1>1. T \in SUBSET Nat /\ T # {}
  BY DEF HasLine
<1>2. PICK x \in T : \A y \in T : x <= y
  BY <1>1, LeastOf
<1>3. x \in DOMAIN s /\ s[x] = NL /\ \A l \in 1..(x - 1) : s[l] # NL
  BY <1>2
<1>4. /\ LineEnd(s) \in DOMAIN s /\ s[LineEnd(s)] = NL
      /\ \A l \in 1..(LineEnd(s) - 1) : s[l] # NL
  BY <1>3 DEF LineEnd
<1> QED BY <1>4

\* The first break is where the text up to it says.
LEMMA BreakIs ==
  ASSUME NEW u \in Seq(Chars), NEW j \in 1..(Len(u) + 1),
         j = Len(u) + 1 \/ u[j] = NL, \A l \in 1..(j - 1) : u[l] # NL
  PROVE  Reader!FirstBreak(u) = j
<1> DEFINE B(x) == /\ x = Len(u) + 1 \/ u[x] = NL
                   /\ \A l \in 1..(x - 1) : u[l] # NL
<1>1. Reader!FirstBreak(u) = CHOOSE x \in 1..(Len(u) + 1) : B(x)
  BY DEF Reader!FirstBreak
<1>2. B(j)
  OBVIOUS
<1>3. ASSUME NEW x \in 1..(Len(u) + 1), B(x) PROVE x = j
  <2>1. CASE x < j
    BY <1>3, <2>1
  <2>2. CASE j < x
    BY <1>3, <2>2
  <2> QED BY <2>1, <2>2
<1> HIDE DEF B
<1> QED BY <1>1, <1>2, <1>3

\* What is behind the k-th character.
LEMMA Behind ==
  ASSUME NEW u \in Seq(Chars), NEW k \in 0..Len(u), NEW v, v = SubSeq(u, k + 1, Len(u))
  PROVE  /\ v \in Seq(Chars) /\ Len(v) = Len(u) - k
         /\ \A m \in 1..(Len(u) - k) : v[m] = u[m + k]
<1>1. Len(u) \in Nat /\ \A m \in (k + 1)..Len(u) : u[m] \in Chars
  OBVIOUS
<1>2. /\ v \in Seq(Chars)
      /\ Len(v) = IF k + 1 <= Len(u) THEN Len(u) - (k + 1) + 1 ELSE 0
      /\ \A m \in 1..(Len(u) - (k + 1) + 1) : v[m] = u[(k + 1) + m - 1]
  BY <1>1, SubSeqProperties
<1> QED BY <1>1, <1>2

\* A line that is there ends where it ended when more has been read.
LEMMA BreakOfWhole ==
  ASSUME NEW s \in Seq(Chars), NEW t \in Seq(Chars), HasLine(s)
  PROVE  /\ Reader!FirstBreak(s \o t) = LineEnd(s)
         /\ SubSeq(s \o t, 1, LineEnd(s) - 1) = LineOf(s)
         /\ SubSeq(s \o t, LineEnd(s) + 1, Len(s \o t)) = RestOf(s) \o t
         /\ LineOf(s) \in Seq(Chars) /\ RestOf(s) \in Seq(Chars)
         /\ Len(RestOf(s)) = Len(s) - LineEnd(s)
         /\ s \o t # << >>
<1> DEFINE e == LineEnd(s)
           w == s \o t
           r == SubSeq(s, e + 1, Len(s))
           u == SubSeq(w, e + 1, Len(w))
<1>1. e \in 1..Len(s) /\ s[e] = NL /\ \A l \in 1..(e - 1) : s[l] # NL
  BY LineEndIs
<1>2. /\ w \in Seq(Chars) /\ Len(w) = Len(s) + Len(t)
      /\ \A m \in 1..Len(s) + Len(t) : w[m] = IF m <= Len(s) THEN s[m] ELSE t[m - Len(s)]
      /\ Len(s) \in Nat /\ Len(t) \in Nat
  BY ConcatProperties
<1> HIDE DEF e, w
<1>3. Reader!FirstBreak(w) = e
  <2>1. e \in 1..(Len(w) + 1) /\ w[e] = NL /\ \A l \in 1..(e - 1) : w[l] # NL
    BY <1>1, <1>2
  <2> QED BY <1>2, <2>1, BreakIs
<1>4. SubSeq(w, 1, e - 1) = SubSeq(s, 1, e - 1) /\ SubSeq(s, 1, e - 1) \in Seq(Chars)
  <2>1. /\ SubSeq(s, 1, e - 1) \in Seq(Chars) /\ Len(SubSeq(s, 1, e - 1)) = e - 1
        /\ \A m \in 1..(e - 1) : SubSeq(s, 1, e - 1)[m] = s[m]
    BY <1>1, SubSeqProperties
  <2>2. /\ SubSeq(w, 1, e - 1) \in Seq(Chars) /\ Len(SubSeq(w, 1, e - 1)) = e - 1
        /\ \A m \in 1..(e - 1) : SubSeq(w, 1, e - 1)[m] = w[m]
    BY <1>1, <1>2, SubSeqProperties
  <2>3. \A m \in 1..(e - 1) : SubSeq(w, 1, e - 1)[m] = SubSeq(s, 1, e - 1)[m]
    BY <1>1, <1>2, <2>1, <2>2
  <2> QED BY <2>1, <2>2, <2>3, SeqEqual
<1>5. /\ r \in Seq(Chars) /\ Len(r) = Len(s) - e
      /\ \A m \in 1..(Len(s) - e) : r[m] = s[m + e]
  BY <1>1, <1>2, Behind
<1>6. /\ u \in Seq(Chars) /\ Len(u) = Len(w) - e
      /\ \A m \in 1..(Len(w) - e) : u[m] = w[m + e]
  BY <1>1, <1>2, Behind
<1> HIDE DEF r, u
<1>7. u = r \o t
  <2>1. /\ r \o t \in Seq(Chars) /\ Len(r \o t) = Len(r) + Len(t)
        /\ \A m \in 1..Len(r) + Len(t) : (r \o t)[m] = IF m <= Len(r) THEN r[m] ELSE t[m - Len(r)]
    BY <1>5, ConcatProperties
  <2>2. Len(u) = Len(r \o t)
    BY <1>1, <1>2, <1>5, <1>6, <2>1
  <2>3. ASSUME NEW m \in 1..Len(u) PROVE u[m] = (r \o t)[m]
    <3>1. /\ m \in 1..(Len(w) - e) /\ m + e \in 1..Len(s) + Len(t)
          /\ m \in 1..Len(r) + Len(t) /\ m \in Int /\ e \in Int
      BY <1>1, <1>2, <1>5, <1>6
    <3>2. u[m] = IF m + e <= Len(s) THEN s[m + e] ELSE t[(m + e) - Len(s)]
      BY <1>2, <1>6, <3>1
    <3>3. (r \o t)[m] = IF m <= Len(s) - e THEN r[m] ELSE t[m - (Len(s) - e)]
      BY <1>5, <2>1, <3>1
    <3>4. CASE m <= Len(s) - e
      <4>1. m + e <= Len(s) /\ m \in 1..(Len(s) - e)
        BY <1>2, <3>1, <3>4
      <4> QED BY <1>5, <3>2, <3>3, <3>4, <4>1
    <3>5. CASE ~(m <= Len(s) - e)
      <4>1. ~(m + e <= Len(s)) /\ (m + e) - Len(s) = m - (Len(s) - e)
        BY <1>2, <3>1, <3>5
      <4> QED BY <3>2, <3>3, <3>5, <4>1
    <3> QED BY <3>4, <3>5
  <2> QED BY <1>6, <2>1, <2>2, <2>3, SeqEqual
<1>8. w # << >>
  BY <1>1, <1>2
<1> QED BY <1>3, <1>4, <1>5, <1>7, <1>8 DEF LineOf, RestOf, e, w, r, u

\* Without a line the break is behind the text, and behind all of it when
\* more follows.
LEMMA BreakBehind ==
  ASSUME NEW s \in Seq(Chars), NEW t \in Seq(Chars), ~HasLine(s)
  PROVE  /\ Reader!FirstBreak(s) = Len(s) + 1
         /\ Len(s) \in 0..(Reader!FirstBreak(s \o t) - 1)
         /\ SubSeq(s \o t, 1, Len(s)) = s
         /\ SubSeq(s \o t, Len(s) + 1, Len(s \o t)) = t
         /\ HasLine(s \o t) => LineEnd(s \o t) > Len(s)
<1> DEFINE w == s \o t
           u == SubSeq(w, Len(s) + 1, Len(w))
<1>1. Len(s) \in Nat /\ Len(t) \in Nat /\ \A l \in 1..Len(s) : s[l] # NL
  BY DEF HasLine
<1>2. /\ w \in Seq(Chars) /\ Len(w) = Len(s) + Len(t)
      /\ \A m \in 1..Len(s) + Len(t) : w[m] = IF m <= Len(s) THEN s[m] ELSE t[m - Len(s)]
  BY ConcatProperties
<1> HIDE DEF w
<1>3. Reader!FirstBreak(s) = Len(s) + 1
  BY <1>1, BreakIs
<1>4. ASSUME HasLine(w)
      PROVE  LineEnd(w) > Len(s) /\ Reader!FirstBreak(w) = LineEnd(w) /\ LineEnd(w) \in Nat
  <2> DEFINE e == LineEnd(w)
  <2>1. e \in 1..Len(w) /\ w[e] = NL /\ \A l \in 1..(e - 1) : w[l] # NL
    BY <1>2, <1>4, LineEndIs
  <2> HIDE DEF e
  <2>2. ASSUME e <= Len(s) PROVE FALSE
    <3>1. e \in 1..Len(s) /\ e \in 1..Len(s) + Len(t)
      BY <1>1, <1>2, <2>1, <2>2
    <3>2. w[e] = s[e]
      BY <1>2, <2>2, <3>1
    <3> QED BY <1>1, <2>1, <3>1, <3>2
  <2>3. e \in 1..(Len(w) + 1)
    BY <1>1, <1>2, <2>1
  <2>4. Reader!FirstBreak(w) = e
    BY <1>2, <2>1, <2>3, BreakIs
  <2>5. e > Len(s) /\ e \in Nat
    BY <1>1, <2>1, <2>2
  <2> QED BY <2>4, <2>5 DEF e
<1>5. Len(s) \in 0..(Reader!FirstBreak(w) - 1)
  <2>1. CASE HasLine(w)
    BY <1>1, <1>4, <2>1
  <2>2. CASE ~HasLine(w)
    <3>1. \A l \in 1..Len(w) : w[l] # NL
      BY <1>2, <2>2 DEF HasLine
    <3>2. Len(w) + 1 \in 1..(Len(w) + 1) /\ (Len(w) + 1) - 1 = Len(w)
      BY <1>1, <1>2
    <3>3. Reader!FirstBreak(w) = Len(w) + 1
      BY <1>2, <3>1, <3>2, BreakIs
    <3> QED BY <1>1, <1>2, <3>3
  <2> QED BY <2>1, <2>2
<1>6. SubSeq(w, 1, Len(s)) = s
  <2>1. /\ SubSeq(w, 1, Len(s)) \in Seq(Chars)
        /\ Len(SubSeq(w, 1, Len(s))) = IF 1 <= Len(s) THEN Len(s) - 1 + 1 ELSE 0
        /\ \A m \in 1..(Len(s) - 1 + 1) : SubSeq(w, 1, Len(s))[m] = w[1 + m - 1]
    BY <1>1, <1>2, SubSeqProperties
  <2>2. /\ Len(SubSeq(w, 1, Len(s))) = Len(s)
        /\ \A m \in 1..Len(s) : SubSeq(w, 1, Len(s))[m] = s[m]
    BY <1>1, <1>2, <2>1
  <2> QED BY <2>1, <2>2, SeqEqual
<1>7. u = t
  <2>1. /\ u \in Seq(Chars) /\ Len(u) = Len(w) - Len(s)
        /\ \A m \in 1..(Len(w) - Len(s)) : u[m] = w[m + Len(s)]
    BY <1>1, <1>2, Behind
  <2> HIDE DEF u
  <2>2. Len(u) = Len(t)
    BY <1>1, <1>2, <2>1
  <2>3. ASSUME NEW m \in 1..Len(u) PROVE u[m] = t[m]
    <3>1. /\ m \in Int /\ m \in 1..(Len(w) - Len(s)) /\ m + Len(s) \in 1..Len(s) + Len(t)
          /\ ~(m + Len(s) <= Len(s)) /\ (m + Len(s)) - Len(s) = m
      BY <1>1, <1>2, <2>2
    <3>2. w[m + Len(s)] = t[(m + Len(s)) - Len(s)]
      BY <1>2, <3>1
    <3> QED BY <2>1, <3>1, <3>2
  <2> QED BY <2>1, <2>2, <2>3, SeqEqual
<1> QED BY <1>3, <1>4, <1>5, <1>6, <1>7 DEF w, u

-----------------------------------------------------------------------------
(* The invariant *)

\* What is kept is short: a whole buffer without a line in it is read on at
\* once, so only a call that is under way has more, up to its first line.
Short ==
  \A m \in DOMAIN list :
    IF list[m].fd = fd
      THEN HasLine(list[m].str) => Len(list[m].str) - LineEnd(list[m].str) < BUFF_SIZE
      ELSE Len(list[m].str) < BUFF_SIZE

IInv == TypeOK /\ OneEntryEach /\ Short

\* The model's words for the list are those of the lemmas.
LEMMA Words ==
  /\ \A f : (Known(f) <=> In(list, f)) /\ Str(f) = Text(list, f)
  /\ \A f : (Known(f)' <=> In(list', f)) /\ Str(f)' = Text(list', f)
  /\ OneEntryEach <=> Unique(list)
  /\ OneEntryEach' <=> Unique(list')
BY DEF Known, Str, Entry, In, Text, Place, OneEntryEach, Unique

\* What the invariant says of the list and the call that is under way.
LEMMA Facts ==
  ASSUME IInv
  PROVE  /\ list \in Seq(Entries) /\ Unique(list) /\ DOMAIN list = 1..Len(list)
         /\ \A m \in 1..Len(list) : list[m].fd \in Fds /\ list[m].str \in Seq(Chars)
         /\ \A g : Text(list, g) \in Seq(Chars)
         /\ file \in [Fds -> Seq(Chars)]
         /\ fd # NoFd => fd \in Fds /\ In(list, fd)
         /\ \A g : ~In(list, g) => Text(list, g) = << >>
<1>1. list \in Seq(Entries)
  BY DEF IInv, TypeOK, Entries
<1>2. \A m \in 1..Len(list) : list[m] \in Entries
  BY <1>1
<1>3. \A m \in 1..Len(list) : list[m].fd \in Fds /\ list[m].str \in Seq(Chars)
  BY <1>2 DEF Entries
<1>4. \A g : Text(list, g) \in Seq(Chars)
  BY <1>1, TextIsSeq
<1>5. DOMAIN list = 1..Len(list)
  BY <1>1
<1> QED BY <1>1, <1>3, <1>4, <1>5, Words DEF IInv, TypeOK, Text

\* The text of the descriptor that is being asked about.
LEMMA ShortNow ==
  ASSUME IInv, fd # NoFd, HasLine(Str(fd))
  PROVE  Len(Str(fd)) - LineEnd(Str(fd)) < BUFF_SIZE
<1>1. In(list, fd) /\ Str(fd) = Text(list, fd)
  BY Facts, Words
<1>2. Place(list, fd) \in DOMAIN list /\ list[Place(list, fd)].fd = fd
      /\ Text(list, fd) = list[Place(list, fd)].str
  BY <1>1, Found
<1> QED BY <1>1, <1>2 DEF IInv, Short

\* A step that puts a new text in the place of the asked descriptor's: what is
\* to show is that the text is short enough.
LEMMA JoinKeeps ==
  ASSUME IInv, fd # NoFd, NEW s \in Seq(Chars), list' = Join(fd, s),
         fd' \in {fd, NoFd},
         IF fd' = fd THEN HasLine(s) => Len(s) - LineEnd(s) < BUFF_SIZE ELSE Len(s) < BUFF_SIZE
  PROVE  /\ list' \in Seq(Entries) /\ OneEntryEach' /\ Short'
         /\ fd' # NoFd => Known(fd)'
         /\ \A g : Str(g)' = IF g = fd THEN s ELSE Str(g)
<1>1. /\ list \in Seq(Entries) /\ Unique(list) /\ DOMAIN list = 1..Len(list)
      /\ fd \in Fds /\ In(list, fd)
  BY Facts
<1>2. list' = Joined(list, fd, s)
  BY DEF Joined, Join, Entry, Place
<1>3. /\ list' \in Seq(Entries) /\ Len(list') = Len(list) /\ Unique(list')
      /\ \A m \in 1..Len(list) : list'[m].fd = list[m].fd
      /\ \A m \in 1..Len(list) : list'[m].str = IF list[m].fd = fd THEN s ELSE list[m].str
      /\ \A g : In(list', g) <=> In(list, g)
      /\ \A g : Text(list', g) = IF g = fd THEN s ELSE Text(list, g)
  BY <1>1, <1>2, JoinedList
<1>4. Short'
  <2>1. DOMAIN list' = 1..Len(list)
    BY <1>3
  <2> SUFFICES ASSUME NEW m \in 1..Len(list)
               PROVE  IF list'[m].fd = fd'
                        THEN HasLine(list'[m].str) =>
                               Len(list'[m].str) - LineEnd(list'[m].str) < BUFF_SIZE
                        ELSE Len(list'[m].str) < BUFF_SIZE
    BY <2>1 DEF Short, HasLine, LineEnd
  <2>2. list[m].fd # NoFd
    BY <1>1, Facts, ConstantsAssumption
  <2>3. CASE list[m].fd = fd
    BY <1>3, <2>2, <2>3
  <2>4. CASE list[m].fd # fd
    <3>1. Len(list[m].str) < BUFF_SIZE
      BY <1>1, <2>4 DEF IInv, Short
    <3> QED BY <1>3, <2>2, <2>4, <3>1
  <2> QED BY <2>3, <2>4
<1> QED BY <1>1, <1>3, <1>4, Words

\* A step that leaves the list alone.
LEMMA SameKeeps ==
  ASSUME IInv, list' = list, fd' = fd \/ (fd' = NoFd /\ Str(fd) = << >>)
  PROVE  OneEntryEach' /\ Short' /\ (fd' # NoFd => Known(fd)') /\ (\A g : Str(g)' = Str(g))
<1>1. \A g : Str(g)' = Str(g) /\ (Known(g)' <=> Known(g))
  BY DEF Str, Known, Entry
<1>2. OneEntryEach'
  BY DEF IInv, OneEntryEach
<1>3. CASE fd' = fd
  BY <1>1, <1>2, <1>3 DEF IInv, Short, TypeOK
<1>4. CASE fd' = NoFd /\ Str(fd) = << >>
  <2> SUFFICES ASSUME NEW m \in DOMAIN list PROVE Len(list[m].str) < BUFF_SIZE
    <3>1. \A m \in DOMAIN list : list[m].fd # NoFd
      BY Facts, ConstantsAssumption
    <3> QED BY <1>1, <1>2, <1>4, <3>1 DEF Short
  <2>1. CASE list[m].fd = fd
    <3>1. Text(list, fd) = list[m].str
      BY <2>1, FoundAt, Facts
    <3>2. list[m].str = << >>
      BY <1>4, <3>1, Words
    <3> QED BY <3>2, ConstantsAssumption
  <2>2. CASE list[m].fd # fd
    BY <2>2 DEF IInv, Short
  <2> QED BY <2>1, <2>2
<1> QED BY <1>1, <1>2, <1>3, <1>4

LEMMA InitInv == Init => IInv
<1> SUFFICES ASSUME Init PROVE IInv
  OBVIOUS
<1>1. file \in [Fds -> Seq(Chars)]
  BY ConstantsAssumption DEF Init
<1>2. answer \in [ret : {-1, 0, 1}, line : Seq(Chars)]
  BY DEF Init
<1>3. list \in Seq([fd : Fds, str : Seq(Chars)]) /\ DOMAIN list = {}
  BY DEF Init
<1> QED BY <1>1, <1>2, <1>3, ConstantsAssumption DEF Init, IInv, TypeOK, OneEntryEach, Short

\* The beginning of a call: the entry is there or is added.
LEMMA EnterKeeps ==
  ASSUME IInv, NEW f \in Fds, Enter(f)
  PROVE  IInv' /\ \A g : Str(g)' = Str(g)
<1>1. /\ list \in Seq(Entries) /\ Unique(list) /\ DOMAIN list = 1..Len(list)
      /\ \A m \in 1..Len(list) : list[m].fd \in Fds /\ list[m].str \in Seq(Chars)
  BY Facts
<1>2. fd = NoFd /\ fd' = f /\ list' = get_corr_fd(f) /\ UNCHANGED <<file, answer, faults, opens>>
  BY DEF Enter
<1>3. \A m \in 1..Len(list) : Len(list[m].str) < BUFF_SIZE
  BY <1>1, <1>2, ConstantsAssumption DEF IInv, Short
<1>4. ASSUME NEW s \in Seq(Chars), Len(s) < BUFF_SIZE
      PROVE  HasLine(s) => Len(s) - LineEnd(s) < BUFF_SIZE
  BY <1>4, LineEndIs, ConstantsAssumption
<1>5. CASE Known(f)
  <2>1. list' = list /\ (\A g : Str(g)' = Str(g)) /\ Known(f)'
    BY <1>2, <1>5 DEF get_corr_fd, Str, Known, Entry
  <2>2. OneEntryEach'
    BY <2>1 DEF IInv, OneEntryEach
  <2>3. Short'
    BY <1>1, <1>2, <1>3, <1>4, <2>1 DEF Short
  <2>4. TypeOK'
    BY <1>2, <2>1 DEF IInv, TypeOK, Known
  <2> QED BY <2>1, <2>2, <2>3, <2>4 DEF IInv
<1>6. CASE ~Known(f)
  <2>1. list' = Longer(list, f) /\ ~In(list, f)
    BY <1>2, <1>6, Words DEF get_corr_fd, Longer
  <2>2. /\ list' \in Seq(Entries) /\ Len(list') = Len(list) + 1 /\ Unique(list')
        /\ \A m \in 1..Len(list) : list'[m] = list[m]
        /\ list'[Len(list) + 1] = [fd |-> f, str |-> << >>]
        /\ In(list', f)
        /\ \A g : Text(list', g) = Text(list, g)
    BY <1>1, <2>1, LongerList
  <2>3. \A m \in 1..(Len(list) + 1) : list'[m].str \in Seq(Chars) /\ Len(list'[m].str) < BUFF_SIZE
    <3> TAKE m \in 1..(Len(list) + 1)
    <3>1. CASE m = Len(list) + 1
      BY <2>2, <3>1, ConstantsAssumption
    <3>2. CASE m \in 1..Len(list)
      BY <1>1, <1>3, <2>2, <3>2
    <3> QED BY <1>1, <3>1, <3>2
  <2>4. DOMAIN list' = 1..(Len(list) + 1)
    BY <2>2
  <2>5. Short'
    BY <1>4, <2>3, <2>4 DEF Short, HasLine, LineEnd
  <2>6. TypeOK'
    BY <1>2, <2>2, Words DEF IInv, TypeOK, Entries
  <2> QED BY <2>2, <2>5, <2>6, Words DEF IInv
<1> QED BY <1>5, <1>6

\* The line is there.
LEMMA FromRestKeeps ==
  ASSUME IInv, FromRest
  PROVE  IInv' /\ \A g : Str(g)' = IF g = fd THEN RestOf(Str(fd)) ELSE Str(g)
<1>1. fd # NoFd /\ fd \in Fds /\ Str(fd) \in Seq(Chars) /\ HasLine(Str(fd))
  BY Facts, Words DEF FromRest
<1>2. /\ fd' = NoFd /\ list' = Join(fd, RestOf(Str(fd)))
      /\ answer' = [ret |-> 1, line |-> LineOf(Str(fd))] /\ UNCHANGED <<file, faults, opens>>
  BY DEF FromRest, Returns
<1>3. /\ LineOf(Str(fd)) \in Seq(Chars) /\ RestOf(Str(fd)) \in Seq(Chars)
      /\ Len(RestOf(Str(fd))) = Len(Str(fd)) - LineEnd(Str(fd))
  BY <1>1, BreakOfWhole, EmptySeq
<1>4. Len(RestOf(Str(fd))) < BUFF_SIZE
  BY <1>1, <1>3, ShortNow
<1>5. /\ list' \in Seq(Entries) /\ OneEntryEach' /\ Short'
      /\ \A g : Str(g)' = IF g = fd THEN RestOf(Str(fd)) ELSE Str(g)
  BY <1>1, <1>2, <1>3, <1>4, JoinKeeps
<1>6. TypeOK'
  <2>1. answer' \in [ret : {-1, 0, 1}, line : Seq(Chars)]
    BY <1>2, <1>3
  <2> QED BY <1>2, <1>5, <2>1 DEF IInv, TypeOK, Entries
<1> QED BY <1>5, <1>6 DEF IInv

\* What is left is given as the last line, at the end of the file or on an error.
LEMMA LastLineKeeps ==
  ASSUME IInv, fd # NoFd, LastLine, file' = file, opens' = opens, faults' \in 0..MaxFaults
  PROVE  IInv' /\ \A g : Str(g)' = IF g = fd THEN << >> ELSE Str(g)
<1>1. fd \in Fds /\ Str(fd) \in Seq(Chars)
  BY Facts, Words
<1>2. /\ fd' = NoFd /\ list' = Join(fd, << >>) /\ answer' = [ret |-> 1, line |-> Str(fd)]
  BY DEF LastLine, Returns
<1>3. << >> \in Seq(Chars) /\ Len(<< >>) < BUFF_SIZE
  BY ConstantsAssumption
<1>4. /\ list' \in Seq(Entries) /\ OneEntryEach' /\ Short'
      /\ \A g : Str(g)' = IF g = fd THEN << >> ELSE Str(g)
  BY <1>2, <1>3, JoinKeeps
<1>5. TypeOK'
  <2>1. answer' \in [ret : {-1, 0, 1}, line : Seq(Chars)]
    BY <1>1, <1>2
  <2> QED BY <1>2, <1>4, <2>1 DEF IInv, TypeOK, Entries
<1> QED BY <1>4, <1>5 DEF IInv

\* What a read brings is behind what was there.
LEMMA ReadKeeps ==
  ASSUME IInv, Read
  PROVE  /\ IInv'
         /\ \A g \in Fds : (Str(g) \o file[g])' = Str(g) \o file[g]
<1>1. fd # NoFd /\ fd \in Fds /\ Str(fd) \in Seq(Chars) /\ file[fd] \in Seq(Chars) /\ ~HasLine(Str(fd))
  BY Facts, Words DEF Read
<1>2. PICK m \in 1..BUFF_SIZE :
        /\ m <= Len(file[fd])
        /\ list' = Join(fd, Str(fd) \o SubSeq(file[fd], 1, m))
        /\ file' = [file EXCEPT ![fd] = SubSeq(file[fd], m + 1, Len(file[fd]))]
  BY DEF Read
<1>3. UNCHANGED <<fd, answer, faults, opens>>
  BY DEF Read
<1> DEFINE b == SubSeq(file[fd], 1, m)
           c == SubSeq(file[fd], m + 1, Len(file[fd]))
           s == Str(fd)
<1>4. m \in 0..Len(file[fd]) /\ m \in Nat
  BY <1>1, <1>2, ConstantsAssumption
<1>5. b \in Seq(Chars) /\ Len(b) = m
  <2>1. \A l \in 1..m : file[fd][l] \in Chars
    BY <1>1, <1>4
  <2> QED BY <1>2, <1>4, <2>1, SubSeqProperties
<1>6. c \in Seq(Chars)
  BY <1>1, <1>4, Behind
<1>7. b \o c = file[fd]
  <2>1. 1 \in 1..(Len(file[fd]) + 1) /\ m \in (1 - 1)..Len(file[fd]) /\ Len(file[fd]) \in m..Len(file[fd])
    BY <1>1, <1>4
  <2>2. b \o c = SubSeq(file[fd], 1, Len(file[fd]))
    BY <1>1, <2>1, ConcatAdjacentSubSeq
  <2> QED BY <1>1, <2>2, SubSeqFull
<1>8. s \o b \in Seq(Chars) /\ Len(s \o b) = Len(s) + m /\ Len(s) \in Nat
  BY <1>1, <1>5, ConcatProperties
<1>9. HasLine(s \o b) => Len(s \o b) - LineEnd(s \o b) < BUFF_SIZE
  <2> SUFFICES ASSUME HasLine(s \o b) PROVE Len(s \o b) - LineEnd(s \o b) < BUFF_SIZE
    OBVIOUS
  <2>1. LineEnd(s \o b) > Len(s)
    BY <1>1, <1>5, BreakBehind
  <2>2. LineEnd(s \o b) \in 1..Len(s \o b)
    BY <1>8, LineEndIs
  <2> QED BY <1>2, <1>4, <1>8, <2>1, <2>2, ConstantsAssumption
<1>10. list' = Join(fd, s \o b) /\ fd' = fd /\ file' = [file EXCEPT ![fd] = c]
  BY <1>2, <1>3
<1> HIDE DEF b, c
<1>11. /\ list' \in Seq(Entries) /\ OneEntryEach' /\ Short'
       /\ fd' # NoFd => Known(fd)'
       /\ \A g : Str(g)' = IF g = fd THEN s \o b ELSE Str(g)
  BY <1>1, <1>8, <1>9, <1>10, JoinKeeps
<1>12. file \in [Fds -> Seq(Chars)]
  BY Facts
<1>13. TypeOK'
  <2>1. file' \in [Fds -> Seq(Chars)]
    BY <1>6, <1>10, <1>12
  <2>2. answer' = answer /\ fd' = fd /\ faults' = faults /\ opens' = opens
    BY <1>3
  <2> QED BY <1>11, <2>1, <2>2 DEF IInv, TypeOK, Entries
<1>14. ASSUME NEW g \in Fds PROVE (Str(g) \o file[g])' = Str(g) \o file[g]
  <2>1. CASE g = fd
    <3>1. Str(g)' = s \o b /\ file'[g] = c
      BY <1>10, <1>11, <1>12, <2>1
    <3>2. (s \o b) \o c = s \o (b \o c)
      BY <1>1, <1>5, <1>6, ConcatAssociative
    <3> QED BY <1>7, <2>1, <3>1, <3>2
  <2>2. CASE g # fd
    BY <1>10, <1>11, <1>12, <2>2
  <2> QED BY <2>1, <2>2
<1> QED BY <1>11, <1>13, <1>14 DEF IInv

\* The end of a file that was given completely: the entry leaves.
LEMMA CleanKeeps ==
  ASSUME IInv, fd # NoFd, Str(fd) = << >>, list' = make_clean(fd), Returns(0, << >>),
         UNCHANGED <<file, faults, opens>>
  PROVE  IInv' /\ \A g : Str(g)' = Str(g)
<1>1. /\ list \in Seq(Entries) /\ Unique(list) /\ DOMAIN list = 1..Len(list)
      /\ fd \in Fds /\ In(list, fd)
  BY Facts
<1>2. list' = Shorter(list, fd) /\ fd' = NoFd /\ answer' = [ret |-> 0, line |-> << >>]
  BY DEF make_clean, Shorter, Entry, Place, Returns
<1>3. /\ list' \in Seq(Entries) /\ Unique(list')
      /\ \A m \in DOMAIN list' : \E l \in 1..Len(list) : list[l].fd # fd /\ list'[m] = list[l]
      /\ \A g : Text(list', g) = IF g = fd THEN << >> ELSE Text(list, g)
  BY <1>1, <1>2, ShorterList
<1>4. \A g : Str(g)' = Str(g)
  BY <1>3, Words
<1>5. Short'
  <2>1. \A m \in DOMAIN list' : Len(list'[m].str) < BUFF_SIZE /\ list'[m].fd # NoFd
    <3> TAKE m \in DOMAIN list'
    <3>1. PICK l \in 1..Len(list) : list[l].fd # fd /\ list'[m] = list[l]
      BY <1>3
    <3>2. Len(list[l].str) < BUFF_SIZE
      BY <1>1, <3>1 DEF IInv, Short
    <3>3. list[l].fd # NoFd
      BY <3>1, Facts, ConstantsAssumption
    <3> QED BY <3>1, <3>2, <3>3
  <2> QED BY <1>2, <2>1 DEF Short
<1>6. TypeOK'
  <2>1. answer' \in [ret : {-1, 0, 1}, line : Seq(Chars)]
    BY <1>2
  <2> QED BY <1>2, <1>3, <2>1 DEF IInv, TypeOK, Entries
<1> QED BY <1>3, <1>4, <1>5, <1>6, Words DEF IInv

\* A read error with nothing there to give.
LEMMA FailKeeps ==
  ASSUME IInv, fd # NoFd, Str(fd) = << >>, list' = list, Returns(-1, << >>),
         faults' \in 0..MaxFaults, UNCHANGED <<file, opens>>
  PROVE  IInv' /\ \A g : Str(g)' = Str(g)
<1>1. fd' = NoFd /\ answer' = [ret |-> -1, line |-> << >>]
  BY DEF Returns
<1>2. OneEntryEach' /\ Short' /\ \A g : Str(g)' = Str(g)
  BY <1>1, SameKeeps
<1>3. TypeOK'
  <2>1. answer' \in [ret : {-1, 0, 1}, line : Seq(Chars)]
    BY <1>1
  <2> QED BY <1>1, <2>1 DEF IInv, TypeOK
<1> QED BY <1>2, <1>3 DEF IInv

\* The caller's own step.
LEMMA ReopenKeeps ==
  ASSUME IInv, NEW f \in Fds, Reopen(f)
  PROVE  IInv' /\ \A g : Str(g)' = Str(g)
<1>1. /\ list' = list /\ fd' = fd /\ answer' = answer /\ faults' = faults
      /\ opens > 0 /\ opens' = opens - 1
  BY DEF Reopen
<1>2. OneEntryEach' /\ Short' /\ (fd' # NoFd => Known(fd)') /\ \A g : Str(g)' = Str(g)
  BY <1>1, SameKeeps
<1>3. PICK t \in Texts : file' = [file EXCEPT ![f] = t]
  BY DEF Reopen
<1>4. file' \in [Fds -> Seq(Chars)]
  BY <1>3, Facts, ConstantsAssumption
<1>5. opens' \in 0..MaxOpens
  BY <1>1, ConstantsAssumption DEF IInv, TypeOK
<1> QED BY <1>1, <1>2, <1>4, <1>5 DEF IInv, TypeOK

\* Faults are counted down.
LEMMA FaultsLeft == IInv /\ faults > 0 => faults - 1 \in 0..MaxFaults
BY ConstantsAssumption DEF IInv, TypeOK

LEMMA StepInv == IInv /\ [Next]_vars => IInv'
<1> SUFFICES ASSUME IInv, [Next]_vars PROVE IInv'
  OBVIOUS
<1>1. ASSUME NEW f \in Fds, Enter(f) PROVE IInv'
  BY <1>1, EnterKeeps
<1>2. ASSUME NEW f \in Fds, Reopen(f) PROVE IInv'
  BY <1>2, ReopenKeeps
<1>3. CASE FromRest
  BY <1>3, FromRestKeeps
<1>4. CASE Read
  BY <1>4, ReadKeeps
<1>5. CASE ReadEnd
  <2>1. fd # NoFd /\ UNCHANGED <<file, faults, opens>> /\ faults \in 0..MaxFaults
    BY <1>5 DEF ReadEnd, IInv, TypeOK
  <2>2. CASE LastLine
    BY <2>1, <2>2, LastLineKeeps
  <2>3. CASE Str(fd) = << >> /\ list' = make_clean(fd) /\ Returns(0, << >>)
    BY <2>1, <2>3, CleanKeeps
  <2> QED BY <1>5, <2>2, <2>3 DEF ReadEnd
<1>6. CASE ReadError
  <2>1. fd # NoFd /\ UNCHANGED <<file, opens>> /\ faults' \in 0..MaxFaults
    BY <1>6, FaultsLeft DEF ReadError
  <2>2. CASE LastLine
    BY <2>1, <2>2, LastLineKeeps
  <2>3. CASE Str(fd) = << >> /\ UNCHANGED list /\ Returns(-1, << >>)
    BY <2>1, <2>3, FailKeeps
  <2> QED BY <1>6, <2>2, <2>3 DEF ReadError
<1>7. CASE UNCHANGED vars
  BY <1>7 DEF vars, IInv, TypeOK, OneEntryEach, Short, Known
<1> QED BY <1>1, <1>2, <1>3, <1>4, <1>5, <1>6, <1>7 DEF Next, Call

LEMMA Invariant == Spec => []IInv
BY InitInv, StepInv, PTL DEF Spec

-----------------------------------------------------------------------------
(* Theorems *)

\* The types of the list and of the answers, and: while a call is under way
\* its descriptor has an entry.
THEOREM LinesTypeCorrect == Spec => []TypeOK
BY Invariant, PTL DEF IInv

\* get_corr_fd never makes a second entry for a descriptor, and make_clean takes
\* out the right one.
THEOREM AlwaysOneEntry == Spec => []OneEntryEach
BY Invariant, PTL DEF IInv

\* What get_next_line keeps between two calls is shorter than its buffer.
THEOREM RestAlwaysShort == Spec => []RestIsShort
<1>1. IInv => RestIsShort
  <2> SUFFICES ASSUME IInv, NEW m \in DOMAIN list, fd = NoFd
               PROVE  Len(list[m].str) < BUFF_SIZE
    BY DEF RestIsShort
  <2>1. list[m].fd # NoFd
    BY Facts, ConstantsAssumption
  <2> QED BY <2>1 DEF IInv, Short
<1> QED BY <1>1, Invariant, PTL

-----------------------------------------------------------------------------
(* The line reader *)

Left == [f \in Fds |-> Str(f) \o file[f]]

\* Only the text of the descriptor that is asked about differs.
LEMMA LeftChanges ==
  ASSUME IInv, fd \in Fds, NEW x, NEW s,
         \A g : Str(g)' = IF g = fd THEN s ELSE Str(g), file' = file,
         s \o file[fd] = x
  PROVE  Left' = [Left EXCEPT ![fd] = x]
BY DEF Left

LEMMA LeftStays ==
  ASSUME \A g : Str(g)' = Str(g), file' = file
  PROVE  Left' = Left
BY DEF Left

LEMMA MapsInit == Init => Reader!Init
<1> SUFFICES ASSUME Init PROVE Reader!Init
  OBVIOUS
<1>1. list = << >> /\ fd = NoFd /\ file \in [Fds -> Texts] /\ faults = MaxFaults
      /\ answer = [ret |-> 0, line |-> << >>]
  BY DEF Init
<1>2. \A f : Str(f) = << >>
  BY <1>1 DEF Str, Known
<1>3. \A f \in Fds : Str(f) \o file[f] = file[f]
  BY <1>1, <1>2, ConstantsAssumption, ConcatEmptySeq
<1>4. [f \in Fds |-> Str(f) \o file[f]] \in [Fds -> Texts]
  BY <1>1, <1>3
<1> QED BY <1>1, <1>4, ConstantsAssumption DEF Reader!Init

\* The reader's variables, as the list and the files make them.
LEMMA LeftIs ==
  ASSUME IInv
  PROVE  /\ Left \in [Fds -> Seq(Chars)] /\ \A f \in Fds : Left[f] = Str(f) \o file[f]
         /\ fd # NoFd => /\ fd \in Fds /\ Str(fd) \in Seq(Chars) /\ file[fd] \in Seq(Chars)
                         /\ Str(fd) = << >> => Left[fd] = file[fd]
                         /\ file[fd] = << >> => Left[fd] = Str(fd)
<1>1. \A f \in Fds : Str(f) \in Seq(Chars) /\ file[f] \in Seq(Chars)
  BY Facts, Words
<1>2. \A f \in Fds : Str(f) \o file[f] \in Seq(Chars)
  BY <1>1, ConcatProperties
<1>3. \A f \in Fds : Left[f] = Str(f) \o file[f]
  BY DEF Left
<1>4. fd # NoFd => fd \in Fds
  BY Facts
<1> QED BY <1>1, <1>2, <1>3, <1>4, ConcatEmptySeq DEF Left

\* A line that is there is the next one of the file.
LEMMA MapsFromRest == IInv /\ FromRest => Reader!Give(fd)
<1> SUFFICES ASSUME IInv, FromRest PROVE Reader!Give(fd)
  OBVIOUS
<1> DEFINE s == Str(fd)
           j == Reader!FirstBreak(s \o file[fd])
<1>1. fd # NoFd /\ fd \in Fds /\ s \in Seq(Chars) /\ file[fd] \in Seq(Chars) /\ HasLine(s)
  BY LeftIs DEF FromRest
<1>2. /\ j = LineEnd(s) /\ s \o file[fd] # << >>
      /\ SubSeq(s \o file[fd], 1, j - 1) = LineOf(s)
      /\ SubSeq(s \o file[fd], j + 1, Len(s \o file[fd])) = RestOf(s) \o file[fd]
  BY <1>1, BreakOfWhole
<1>3. /\ fd' = NoFd /\ answer' = [ret |-> 1, line |-> LineOf(s)] /\ UNCHANGED <<file, faults>>
  BY DEF FromRest, Returns
<1>4. Left[fd] = s \o file[fd]
  BY <1>1, LeftIs
<1>5. Left' = [Left EXCEPT ![fd] = RestOf(s) \o file[fd]]
  BY <1>1, <1>3, FromRestKeeps, LeftChanges
<1> HIDE DEF s, j
<1>6. j = Reader!FirstBreak(Left[fd])
  BY <1>4 DEF j, s
<1>7. Left' = [Left EXCEPT ![fd] = SubSeq(Left[fd], j + 1, Len(Left[fd]))]
  BY <1>2, <1>4, <1>5 DEF s
<1> QED BY <1>2, <1>3, <1>4, <1>6, <1>7 DEF Reader!Give, Left, s

\* The rest of a file that was read to its end is its last line.
LEMMA MapsLastLine == IInv /\ ReadEnd /\ LastLine => Reader!Give(fd)
<1> SUFFICES ASSUME IInv, ReadEnd, LastLine PROVE Reader!Give(fd)
  OBVIOUS
<1>1. /\ fd # NoFd /\ fd \in Fds /\ Str(fd) \in Seq(Chars) /\ ~HasLine(Str(fd))
      /\ file[fd] = << >> /\ Str(fd) # << >> /\ Left[fd] = Str(fd)
  BY LeftIs DEF ReadEnd, LastLine
<1>2. /\ fd' = NoFd /\ answer' = [ret |-> 1, line |-> Str(fd)] /\ UNCHANGED <<file, faults, opens>>
  BY DEF ReadEnd, LastLine, Returns
<1> DEFINE j == Reader!FirstBreak(Left[fd])
<1>3. j = Len(Left[fd]) + 1 /\ Len(Left[fd]) \in Nat
  BY <1>1, BreakBehind, EmptySeq
<1> HIDE DEF j
<1>4. SubSeq(Left[fd], 1, j - 1) = Str(fd)
  <2>1. j - 1 = Len(Left[fd])
    BY <1>3
  <2> QED BY <1>1, <2>1, SubSeqFull
<1>5. SubSeq(Left[fd], j + 1, Len(Left[fd])) = << >>
  BY <1>3, SubSeqEmpty
<1>6. \A g : Str(g)' = IF g = fd THEN << >> ELSE Str(g)
  <2>1. faults' \in 0..MaxFaults
    BY <1>2 DEF IInv, TypeOK
  <2> QED BY <1>1, <1>2, <2>1, LastLineKeeps
<1>7. Left' = [Left EXCEPT ![fd] = << >>]
  <2>1. << >> \o file[fd] = << >>
    BY <1>1
  <2> QED BY <1>1, <1>2, <1>6, <2>1, LeftChanges
<1>8. Left' = [Left EXCEPT ![fd] = SubSeq(Left[fd], j + 1, Len(Left[fd]))]
  BY <1>5, <1>7
<1> QED BY <1>1, <1>2, <1>4, <1>8 DEF Reader!Give, Left, j

\* A failed read cuts the line where the text that is there ends.
LEMMA MapsCutLine == IInv /\ ReadError /\ LastLine => Reader!Fail(fd)
<1> SUFFICES ASSUME IInv, ReadError, LastLine PROVE Reader!Fail(fd)
  OBVIOUS
<1>1. /\ fd # NoFd /\ fd \in Fds /\ Str(fd) \in Seq(Chars) /\ ~HasLine(Str(fd))
      /\ file[fd] \in Seq(Chars) /\ Str(fd) # << >> /\ Left[fd] = Str(fd) \o file[fd]
  BY LeftIs DEF ReadError, LastLine
<1>2. /\ fd' = NoFd /\ answer' = [ret |-> 1, line |-> Str(fd)] /\ UNCHANGED <<file, opens>>
      /\ faults > 0 /\ faults' = faults - 1
  BY DEF ReadError, LastLine, Returns
<1> DEFINE n == Len(Str(fd))
<1>3. /\ n \in 0..(Reader!FirstBreak(Left[fd]) - 1)
      /\ SubSeq(Left[fd], 1, n) = Str(fd)
      /\ SubSeq(Left[fd], n + 1, Len(Left[fd])) = file[fd]
  BY <1>1, BreakBehind
<1>4. n # 0
  BY <1>1
<1>5. \A g : Str(g)' = IF g = fd THEN << >> ELSE Str(g)
  BY <1>1, <1>2, FaultsLeft, LastLineKeeps
<1>6. Left' = [Left EXCEPT ![fd] = file[fd]]
  <2>1. << >> \o file[fd] = file[fd]
    BY <1>1, ConcatEmptySeq
  <2> QED BY <1>1, <1>2, <1>5, <2>1, LeftChanges
<1> HIDE DEF n
<1>7. Left' = [Left EXCEPT ![fd] = SubSeq(Left[fd], n + 1, Len(Left[fd]))]
  BY <1>3, <1>6
<1>8. answer' = IF n = 0 THEN [ret |-> -1, line |-> << >>]
                ELSE [ret |-> 1, line |-> SubSeq(Left[fd], 1, n)]
  BY <1>2, <1>3, <1>4
<1> QED BY <1>1, <1>2, <1>3, <1>7, <1>8 DEF Reader!Fail, Left

\* A failed read with nothing there loses nothing.
LEMMA MapsFail ==
  ASSUME IInv, ReadError, Str(fd) = << >>, UNCHANGED list, Returns(-1, << >>)
  PROVE  Reader!Fail(fd)
<1>1. /\ fd # NoFd /\ fd \in Fds /\ Str(fd) \in Seq(Chars) /\ ~HasLine(Str(fd))
      /\ file[fd] \in Seq(Chars) /\ Left[fd] = Str(fd) \o file[fd] /\ Left \in [Fds -> Seq(Chars)]
  BY LeftIs DEF ReadError
<1>2. /\ fd' = NoFd /\ answer' = [ret |-> -1, line |-> << >>] /\ UNCHANGED <<file, opens>>
      /\ faults > 0 /\ faults' = faults - 1
  BY DEF ReadError, Returns
<1>3. 0 \in 0..(Reader!FirstBreak(Left[fd]) - 1)
  <2>1. Len(Str(fd)) = 0
    OBVIOUS
  <2> QED BY <1>1, <2>1, BreakBehind
<1>4. Left' = Left
  BY <1>1, <1>2, FaultsLeft, FailKeeps, LeftStays
<1>5. Left' = [Left EXCEPT ![fd] = SubSeq(Left[fd], 0 + 1, Len(Left[fd]))]
  <2>1. SubSeq(Left[fd], 0 + 1, Len(Left[fd])) = Left[fd]
    BY <1>1, SubSeqFull
  <2> QED BY <1>1, <1>4, <2>1
<1>6. answer' = IF 0 = 0 THEN [ret |-> -1, line |-> << >>]
                ELSE [ret |-> 1, line |-> SubSeq(Left[fd], 1, 0)]
  BY <1>2
<1> QED BY <1>1, <1>2, <1>3, <1>5, <1>6 DEF Reader!Fail, Left

\* Nothing there and nothing to read.
LEMMA MapsEnd ==
  ASSUME IInv, ReadEnd, Str(fd) = << >>, list' = make_clean(fd), Returns(0, << >>)
  PROVE  Reader!End(fd)
<1>1. fd # NoFd /\ fd \in Fds /\ Left[fd] = << >>
  BY LeftIs DEF ReadEnd
<1>2. /\ fd' = NoFd /\ answer' = [ret |-> 0, line |-> << >>] /\ UNCHANGED <<file, faults, opens>>
  BY DEF ReadEnd, Returns
<1>3. Left' = Left
  BY <1>1, <1>2, CleanKeeps, LeftStays
<1> QED BY <1>1, <1>2, <1>3 DEF Reader!End, Left

LEMMA MapsEnter == ASSUME IInv, NEW f \in Fds, Enter(f) PROVE Reader!Ask(f)
<1>1. fd = NoFd /\ fd' = f /\ UNCHANGED <<file, answer, faults>>
  BY DEF Enter
<1>2. Left' = Left
  BY <1>1, EnterKeeps, LeftStays
<1> QED BY <1>1, <1>2 DEF Reader!Ask, Left

LEMMA MapsReopen == ASSUME IInv, NEW f \in Fds, Reopen(f) PROVE Reader!Reopen(f)
<1>1. /\ fd = NoFd /\ fd' = fd /\ answer' = answer /\ faults' = faults
      /\ ~Known(f) /\ file[f] = << >>
  BY DEF Reopen
<1>2. PICK t \in Texts : file' = [file EXCEPT ![f] = t]
  BY DEF Reopen
<1>3. \A g : Str(g)' = Str(g)
  BY ReopenKeeps
<1>4. Str(f) = << >> /\ t \in Seq(Chars) /\ file \in [Fds -> Seq(Chars)]
  BY <1>1, Facts, ConstantsAssumption DEF Str
<1>5. Left[f] = << >>
  BY <1>1, <1>4 DEF Left
<1>6. Left' = [Left EXCEPT ![f] = t]
  <2>1. \A g \in Fds : (Str(g) \o file[g])' = IF g = f THEN t ELSE Str(g) \o file[g]
    BY <1>2, <1>3, <1>4, ConcatEmptySeq
  <2> QED BY <2>1 DEF Left
<1> QED BY <1>1, <1>5, <1>6 DEF Reader!Reopen, Left

\* A read that finds no line yet is not seen.
LEMMA MapsRead == IInv /\ Read => UNCHANGED <<Left, fd, answer, faults>>
BY ReadKeeps DEF Read, Left

LEMMA MapsStep == IInv /\ [Next]_vars => [Reader!Next]_(Reader!rvars)
<1> SUFFICES ASSUME IInv, [Next]_vars PROVE Reader!Next \/ UNCHANGED <<Left, fd, answer, faults>>
  BY DEF Reader!rvars, Left
<1>0. fd # NoFd => fd \in Fds
  BY Facts
<1>a. ASSUME fd \in Fds, Reader!Give(fd) \/ Reader!End(fd) \/ Reader!Fail(fd) PROVE Reader!Next
  <2>1. CASE Reader!Give(fd)
    <3>1. \E f \in Fds : Reader!Give(f)
      BY <1>a, <2>1, Zenon DEF Reader!Give
    <3> QED BY <3>1 DEF Reader!Next
  <2>2. CASE Reader!End(fd)
    <3>1. \E f \in Fds : Reader!End(f)
      BY <1>a, <2>2, Zenon DEF Reader!End
    <3> QED BY <3>1 DEF Reader!Next
  <2>3. CASE Reader!Fail(fd)
    <3>1. \E f \in Fds : Reader!Fail(f)
      BY <1>a, <2>3, Zenon DEF Reader!Fail
    <3> QED BY <3>1 DEF Reader!Next
  <2> QED BY <1>a, <2>1, <2>2, <2>3
<1>1. ASSUME NEW f \in Fds, Enter(f) PROVE Reader!Next
  BY <1>1, MapsEnter DEF Reader!Next
<1>2. ASSUME NEW f \in Fds, Reopen(f) PROVE Reader!Next
  BY <1>2, MapsReopen DEF Reader!Next
<1>3. CASE FromRest
  <2>1. fd \in Fds
    BY <1>0, <1>3 DEF FromRest
  <2>2. Reader!Give(fd)
    BY <1>3, MapsFromRest
  <2> QED BY <1>a, <2>1, <2>2
<1>4. CASE Read
  BY <1>4, MapsRead
<1>5. CASE ReadEnd
  <2>1. fd \in Fds
    BY <1>0, <1>5 DEF ReadEnd
  <2>2. CASE LastLine
    <3>1. Reader!Give(fd)
      BY <1>5, <2>2, MapsLastLine
    <3> QED BY <1>a, <2>1, <3>1
  <2>3. CASE Str(fd) = << >> /\ list' = make_clean(fd) /\ Returns(0, << >>)
    <3>1. Reader!End(fd)
      BY <1>5, <2>3, MapsEnd
    <3> QED BY <1>a, <2>1, <3>1
  <2> QED BY <1>5, <2>2, <2>3 DEF ReadEnd
<1>6. CASE ReadError
  <2>1. fd \in Fds
    BY <1>0, <1>6 DEF ReadError
  <2>2. CASE LastLine
    <3>1. Reader!Fail(fd)
      BY <1>6, <2>2, MapsCutLine
    <3> QED BY <1>a, <2>1, <3>1
  <2>3. CASE Str(fd) = << >> /\ UNCHANGED list /\ Returns(-1, << >>)
    <3>1. Reader!Fail(fd)
      BY <1>6, <2>3, MapsFail
    <3> QED BY <1>a, <2>1, <3>1
  <2> QED BY <1>6, <2>2, <2>3 DEF ReadError
<1>7. CASE UNCHANGED vars
  <2>1. \A g : Str(g)' = Str(g)
    BY <1>7 DEF vars, Str, Known, Entry
  <2> QED BY <1>7, <2>1 DEF vars, Left
<1> QED BY <1>1, <1>2, <1>3, <1>4, <1>5, <1>6, <1>7 DEF Next, Call

\* Every step of get_next_line is a step of the line reader or invisible to it:
\* whatever the reads bring and whoever is asked in between, each call returns
\* the next line of its own file.  (That it returns is left to the run.)
THEOREM ReadsLikeAReader == Spec => Reader!Init /\ [][Reader!Next]_(Reader!rvars)
<1>1. IInv /\ [Next]_vars => [Reader!Next]_(Reader!rvars)
  BY MapsStep
<1> QED BY <1>1, MapsInit, Invariant, PTL DEF Spec

=============================================================================
