----------------------------- MODULE ArgsProofs -----------------------------
(***************************************************************************)
(* Proofs about Args for command lines of any length, any words, any table *)
(* of architectures.                                                       *)
(***************************************************************************)
EXTENDS Args, SequenceTheorems, FiniteSetTheorems, WellFoundedInduction, TLAPS

-----------------------------------------------------------------------------
(* Types *)

LEMMA InitType == Init => TypeOK
<1> SUFFICES ASSUME Init PROVE TypeOK
  OBVIOUS
<1>1. argv \in Seq(Word)
  <2>1. PICK n \in 0..MaxWords : argv \in [1..n -> Word]
    BY DEF Init
  <2>2. n \in Nat
    BY MaxWordsAssumption
  <2> QED BY <2>1, <2>2, SeqDef
<1>2. bin \in {"nm", "otool"} /\ pc \in {"parse", "usage"}
  BY BinsAssumption DEF Init
<1> QED BY <1>1, <1>2 DEF Init, TypeOK, ValidLetters

\* The three ways a word is passed over leave the index on a word or behind
\* the last one: no option takes a word that is not there.
LEMMA TypeStep == TypeOK /\ [Next]_avars => TypeOK'
<1> SUFFICES ASSUME TypeOK, [Next]_avars PROVE TypeOK'
  OBVIOUS
<1>0. /\ argv \in Seq(Word) /\ Len(argv) \in Nat /\ i \in 1..(Len(argv) + 1)
      /\ \A n \in 1..Len(argv) : argv[n] \in Word
  BY DEF TypeOK
<1>1. CASE Usage
  BY <1>1 DEF Usage, TypeOK
<1>2. CASE ReadFile
  BY <1>0, <1>2 DEF ReadFile, Reading, TypeOK
<1>3. CASE update_arch_flags /\ i # Len(argv)
  <2>1. i + 1 \in 1..Len(argv) /\ argv[i + 1] \in Word
    BY <1>0, <1>3 DEF update_arch_flags, Reading
  <2>2. /\ archs' = Append(archs, argv[i + 1]) /\ flags' = flags \cup {"arch"} /\ i' = i + 2
        /\ UNCHANGED <<argv, bin, pc, segment, files>>
    BY <1>3 DEF update_arch_flags
  <2> QED BY <1>0, <2>1, <2>2 DEF TypeOK
<1>4. CASE update_format /\ At(i + 1) \in {"d", "o", "x"}
  <2>1. i + 1 <= Len(argv)
    BY <1>0, <1>4 DEF At
  <2>2. /\ flags' = flags \cup {"t"} /\ i' = i + 2
        /\ UNCHANGED <<argv, bin, pc, segment, archs, files>>
    BY <1>4 DEF update_format
  <2> QED BY <1>0, <2>1, <2>2 DEF TypeOK
<1>5. CASE ReadLetters /\ ~Usage
  <2> DEFINE letters == Cluster[argv[i]]
  <2>1. /\ letters \subseteq ValidLetters[bin] /\ ~SectionRefused(letters)
        /\ flags' = flags \cup letters
                     \cup (IF bin = "nm" /\ "A" \in letters THEN {"o"} ELSE {})
        /\ UNCHANGED <<argv, bin, pc, archs, files>>
    BY <1>5 DEF ReadLetters
  <2>2. IF ~TakesSection(letters) THEN segment' = segment /\ i' = i + 1
        ELSE IF i = Len(argv) THEN segment' = <<"", "">> /\ i' = i + 1
        ELSE segment' = <<argv[i + 1], argv[i + 2]>> /\ i' = i + 3
    BY <1>5 DEF ReadLetters
  <2>3. i \in 1..Len(argv)
    <3>1. i <= Len(argv)
      BY <1>5 DEF ReadLetters, Reading
    <3> QED BY <1>0, <3>1
  <2> HIDE DEF letters
  <2>4. flags' \subseteq ValidLetters[bin] \cup {"arch", "t"}
    <3>1. bin = "nm" => "o" \in ValidLetters[bin]
      BY DEF ValidLetters
    <3>2. flags \subseteq ValidLetters[bin] \cup {"arch", "t"}
      BY DEF TypeOK
    <3> QED BY <2>1, <3>1, <3>2
  <2>5. i' \in 1..(Len(argv) + 1) /\ (segment' = << >> \/ (bin = "nm" /\ segment' \in SectionNames))
    <3>1. CASE ~TakesSection(letters)
      BY <1>0, <2>2, <2>3, <3>1 DEF TypeOK
    <3>2. CASE TakesSection(letters) /\ i = Len(argv)
      <4>1. bin = "nm" /\ <<"", "">> \in SectionNames
        BY <3>2 DEF TakesSection, SectionNames
      <4>2. segment' = <<"", "">> /\ i' = i + 1
        BY <2>2, <3>2
      <4>3. i' \in 1..(Len(argv) + 1)
        <5>1. i' = i + 1
          BY <4>2
        <5> QED BY <1>0, <2>3, <5>1
      <4> QED BY <4>1, <4>2, <4>3
    <3>3. CASE TakesSection(letters) /\ i # Len(argv)
      <4>1. bin = "nm" /\ Len(argv) # i + 1
        BY <2>1, <3>3 DEF TakesSection, SectionRefused
      <4>2. i + 1 \in 1..Len(argv) /\ i + 2 \in 1..Len(argv)
        BY <1>0, <2>3, <3>3, <4>1
      <4>3. <<argv[i + 1], argv[i + 2]>> \in SectionNames
        BY <1>0, <4>2 DEF SectionNames
      <4>4. segment' = <<argv[i + 1], argv[i + 2]>> /\ i' = i + 3
        BY <2>2, <3>3
      <4>5. i' \in 1..(Len(argv) + 1)
        BY <1>0, <4>2, <4>4
      <4> QED BY <4>1, <4>3, <4>4, <4>5
    <3> QED BY <3>1, <3>2, <3>3
  <2> QED BY <2>1, <2>4, <2>5 DEF TypeOK
<1>6. CASE EndParse
  <2>1. <<"a.out">> \in Seq(Word)
    BY WordsAssumption DEF Word
  <2>2. /\ files' \in Seq(Word) /\ pc' \in {"check", "usage"}
        /\ UNCHANGED <<argv, bin, i, flags, segment, archs>>
    BY <1>6, <2>1 DEF EndParse, Usage, TypeOK
  <2> QED BY <2>2 DEF TypeOK
<1>7. CASE check_arch_flags
  <2>1. <<"all">> \in Seq(Word \cup {"all"})
    OBVIOUS
  <2>2. /\ archs' \in Seq(Word \cup {"all"}) /\ pc' \in {"ready", "usage"}
        /\ UNCHANGED <<argv, bin, i, flags, segment, files>>
    BY <1>7, <2>1 DEF check_arch_flags, Usage, TypeOK
  <2> QED BY <2>2 DEF TypeOK
<1>8. CASE UNCHANGED avars
  BY <1>8 DEF avars, TypeOK
<1>9. update_arch_flags => Usage \/ i # Len(argv)
  BY DEF update_arch_flags
<1>10. update_format => Usage \/ At(i + 1) \in {"d", "o", "x"}
  BY DEF update_format
<1> QED
  BY <1>1, <1>2, <1>3, <1>4, <1>5, <1>6, <1>7, <1>8, <1>9, <1>10 DEF Next, Step

\* parse_arguments and the two flag checkers share one index over the words; it
\* never passes the end of the command line, and what they store has its type.
THEOREM ArgsTypeCorrect == Spec => []TypeOK
BY InitType, TypeStep, PTL DEF Spec

-----------------------------------------------------------------------------
(* What the rest of the program relies on *)

\* However the letters are spread over the words, -u and -U are never both set:
\* the checker compares the new word with all the words in front of it.
THEOREM NeverBoth == Spec => []NoContradiction
<1>1. Init => NoContradiction
  BY DEF Init, NoContradiction
<1>2. TypeOK /\ NoContradiction /\ [Next]_avars => NoContradiction'
  <2> SUFFICES ASSUME TypeOK, NoContradiction, [Next]_avars, bin' = "nm", pc' # "usage"
               PROVE  ~({"u", "U"} \subseteq flags')
    BY DEF NoContradiction
  <2>1. CASE ReadLetters
    <3> DEFINE letters == Cluster[argv[i]]
    <3>1. /\ ~Contradicts(letters) /\ bin = "nm"
          /\ flags' = flags \cup letters
                       \cup (IF bin = "nm" /\ "A" \in letters THEN {"o"} ELSE {})
      BY <2>1 DEF ReadLetters, Usage
    <3> HIDE DEF letters
    <3> QED BY <3>1 DEF Contradicts
  <2>2. CASE ReadFile \/ EndParse \/ check_arch_flags \/ UNCHANGED avars
    BY <2>2 DEF ReadFile, EndParse, check_arch_flags, Usage, NoContradiction, avars
  <2>3. CASE update_arch_flags \/ update_format
    <3>1. bin = "nm" /\ (flags' = flags \cup {"arch"} \/ flags' = flags \cup {"t"}) /\ pc # "usage"
      BY <2>3 DEF update_arch_flags, update_format, Usage, Reading
    <3> QED BY <3>1 DEF NoContradiction
  <2> QED BY <2>1, <2>2, <2>3 DEF Next, Step
<1> QED BY <1>1, <1>2, ArgsTypeCorrect, PTL DEF Spec

\* What the checks behind the parser rely on: the list of architectures is
\* empty exactly when -arch was not given, and both mains have given a file.
Parsed ==
  /\ "arch" \in flags <=> archs # << >>
  /\ pc \in {"check", "ready"} => files # << >>

\* The file handlers look at the first architecture whenever -arch was given:
\* there is one, and if it is not "all" every one of them is known.
THEOREM ArchsAlwaysUsable == Spec => []ArchsUsable
<1> DEFINE Inv == Parsed /\ ArchsUsable
<1>1. Init => Inv
  BY DEF Init, Parsed, ArchsUsable
<1>2. TypeOK /\ Inv /\ [Next]_avars => Inv'
  <2> SUFFICES ASSUME TypeOK, Inv, [Next]_avars PROVE Inv'
    OBVIOUS
  <2>1. CASE ReadLetters
    <3>1. \/ UNCHANGED <<flags, archs, files>>
          \/ /\ "arch" \in flags' <=> "arch" \in flags
             /\ archs' = archs /\ files' = files
      <4> DEFINE letters == Cluster[argv[i]]
      <4>1. CASE Usage
        BY <4>1 DEF Usage
      <4>2. CASE ~Usage
        <5>1. /\ letters \subseteq ValidLetters[bin]
              /\ flags' = flags \cup letters
                           \cup (IF bin = "nm" /\ "A" \in letters THEN {"o"} ELSE {})
              /\ archs' = archs /\ files' = files
          BY <2>1, <4>2 DEF ReadLetters
        <5>2. "arch" \notin ValidLetters[bin]
          <6>1. bin = "nm" \/ bin = "otool"
            BY BinsAssumption DEF TypeOK
          <6> QED BY <6>1 DEF ValidLetters
        <5> HIDE DEF letters
        <5> QED BY <5>1, <5>2
      <4> QED BY <4>1, <4>2
    <3>2. pc' \in {"parse", "usage"}
      BY <2>1 DEF ReadLetters, Reading, Usage
    <3> QED BY <3>1, <3>2 DEF Parsed, ArchsUsable
  <2>2. CASE ReadFile \/ UNCHANGED avars
    BY <2>2 DEF ReadFile, Reading, Parsed, ArchsUsable, avars
  <2>3. CASE update_arch_flags
    <3>1. archs \in Seq(Word \cup {"all"}) /\ pc' \in {"parse", "usage"}
      BY <2>3 DEF TypeOK, update_arch_flags, Reading, Usage
    <3>2. \/ UNCHANGED <<flags, archs>>
          \/ "arch" \in flags' /\ archs' # << >>
      <4>1. CASE Usage
        BY <4>1 DEF Usage
      <4>2. CASE ~Usage
        <5>1. archs' = Append(archs, argv[i + 1]) /\ flags' = flags \cup {"arch"}
          BY <2>3, <4>2 DEF update_arch_flags
        <5> QED BY <3>1, <5>1
      <4> QED BY <4>1, <4>2
    <3> QED BY <3>1, <3>2 DEF Parsed, ArchsUsable
  <2>4. CASE update_format
    <3>1. pc' \in {"parse", "usage"} /\ archs' = archs
          /\ ("arch" \in flags' <=> "arch" \in flags)
      BY <2>4 DEF update_format, Reading, Usage
    <3> QED BY <3>1 DEF Parsed, ArchsUsable
  <2>5. CASE EndParse
    <3>1. pc' \in {"check", "usage"} /\ archs' = archs /\ flags' = flags
          /\ (pc' = "check" => files' # << >>)
      BY <2>5 DEF EndParse, Usage
    <3> QED BY <3>1 DEF Parsed, ArchsUsable
  <2>6. CASE check_arch_flags
    <3>1. CASE pc' = "usage"
      <4>1. UNCHANGED <<flags, archs>>
        BY <2>6, <3>1 DEF check_arch_flags, Usage
      <4> QED BY <3>1, <4>1 DEF Parsed, ArchsUsable
    <3>2. CASE pc' # "usage"
      <4> DEFINE unknown == "arch" \in flags /\ ~(Elems(archs) \subseteq KnownArchs \cup {"all"})
      <4>1. ~unknown /\ pc = "check"
        BY <2>6, <3>2 DEF check_arch_flags, Usage
      <4>2. /\ archs' = (IF "arch" \in flags /\ "all" \in Elems(archs)
                           THEN <<"all">> ELSE archs)
            /\ flags' = flags /\ files' = files
        BY <2>6, <3>2 DEF check_arch_flags, Usage
      <4>3. files' # << >>
        BY <4>1, <4>2 DEF Parsed
      <4>4. CASE "arch" \in flags /\ "all" \in Elems(archs)
        <5>1. archs' = <<"all">> /\ archs' # << >>
          BY <4>2, <4>4
        <5> QED BY <4>2, <4>3, <4>4, <5>1 DEF Parsed, ArchsUsable
      <4>5. CASE "arch" \in flags /\ "all" \notin Elems(archs)
        <5>1. archs' = archs
          BY <4>2, <4>5
        <5>2. Elems(archs)' = Elems(archs)
          BY <5>1 DEF Elems
        <5>3. Elems(archs)' \subseteq KnownArchs
          BY <4>1, <4>5, <5>2
        <5> QED BY <4>2, <4>3, <4>5, <5>1, <5>3 DEF Parsed, ArchsUsable
      <4>6. CASE "arch" \notin flags
        <5>1. archs' = archs /\ archs = << >>
          BY <4>2, <4>6 DEF Parsed
        <5>2. Elems(archs)' = {}
          BY <5>1 DEF Elems
        <5> QED BY <4>2, <4>3, <4>6, <5>1, <5>2 DEF Parsed, ArchsUsable
      <4> QED BY <4>4, <4>5, <4>6
    <3> QED BY <3>1, <3>2
  <2> QED BY <2>1, <2>2, <2>3, <2>4, <2>5, <2>6 DEF Next, Step
<1>3. Inv => ArchsUsable
  OBVIOUS
<1> HIDE DEF Inv
<1> QED BY <1>1, <1>2, <1>3, ArgsTypeCorrect, PTL DEF Spec

-----------------------------------------------------------------------------
(* The grammar of the usage line *)

\* How many words belong to an option.
LEMMA ArityIs ==
  ASSUME argv \in Seq(Word), NEW k \in 1..Len(argv), NEW sections \in BOOLEAN
  PROVE  /\ Arity(k, sections) \in 0..2
         /\ ~IsOption(argv[k]) => Arity(k, sections) = 0
         /\ argv[k] = "-arch" => Arity(k, sections) = 1
         /\ argv[k] = "-t" /\ bin = "nm" => Arity(k, sections) = 1
         /\ IsOption(argv[k]) /\ argv[k] # "-arch" /\ ~(argv[k] = "-t" /\ bin = "nm") =>
              Arity(k, sections) = IF sections /\ "s" \in Cluster[argv[k]] /\ k + 1 < Len(argv)
                                     THEN 2 ELSE 0
<1>1. IsOption("-arch") /\ IsOption("-t")
  BY WordsAssumption DEF IsOption
<1>2. CASE ~IsOption(argv[k])
  BY <1>1, <1>2 DEF Arity
<1>3. CASE argv[k] = "-arch"
  BY <1>1, <1>3 DEF Arity
<1>4. CASE argv[k] = "-t" /\ bin = "nm"
  BY <1>1, <1>4 DEF Arity
<1>5. CASE IsOption(argv[k]) /\ argv[k] # "-arch" /\ ~(argv[k] = "-t" /\ bin = "nm")
  BY <1>5 DEF Arity
<1> QED BY <1>2, <1>3, <1>4, <1>5

\* The recursive function of Starts exists: the least set of positions that is
\* closed under going on behind an option and its words is one.  So an option or
\* a file stands at the first word and behind each option and its words only.
LEMMA StartsAre ==
  ASSUME argv \in Seq(Word), NEW sections \in BOOLEAN
  PROVE  /\ Starts(sections) \subseteq 1..Len(argv)
         /\ \A k \in 1..Len(argv) :
              k \in Starts(sections) <=>
                k = 1 \/ \E b \in Starts(sections) : k = b + 1 + Arity(b, sections)
<1> DEFINE N == Len(argv)
           D == 1..(N + 3)
           Goes(b) == b + 1 + Arity(b, sections)
           Is(g) == g = [k \in D |-> \/ k = 1
                                     \/ \E b \in 1..(k - 1) : /\ b <= N /\ g[b] /\ k = Goes(b)]
           Closed(T) == 1 \in T /\ \A b \in T : b <= N => Goes(b) \in T
           least == {k \in D : \A T \in SUBSET D : Closed(T) => k \in T}
           g0 == [k \in D |-> k \in least]
<1>1. N \in Nat /\ \A b \in 1..N : Goes(b) \in D /\ Goes(b) > b
  <2>1. N \in Nat
    OBVIOUS
  <2>2. \A b \in 1..N : Arity(b, sections) \in 0..2
    BY ArityIs
  <2> QED BY <2>1, <2>2
<1> HIDE DEF N, Goes
<1>2. Closed(least)
  <2>1. 1 \in least
    BY <1>1
  <2>2. ASSUME NEW b \in least, b <= N PROVE Goes(b) \in least
    BY <1>1, <2>2
  <2> QED BY <2>1, <2>2
<1>3. ASSUME NEW k \in least, k # 1
      PROVE  \E b \in 1..(k - 1) : b <= N /\ b \in least /\ k = Goes(b)
  <2> SUFFICES ASSUME \A b \in 1..(k - 1) : b <= N /\ b \in least => k # Goes(b)
               PROVE  FALSE
    OBVIOUS
  <2>1. ASSUME NEW b \in least \ {k}, b <= N PROVE Goes(b) \in least \ {k}
    <3>1. Goes(b) \in least /\ b \in 1..N
      BY <1>1, <1>2, <2>1
    <3>2. Goes(b) = k => b \in 1..(k - 1)
      BY <1>1, <3>1
    <3> QED BY <2>1, <3>1, <3>2
  <2>2. Closed(least \ {k}) /\ (least \ {k}) \in SUBSET D
    BY <1>2, <1>3, <2>1
  <2> DEFINE rest == least \ {k}
  <2>3. k \in rest
    BY <2>2
  <2> QED BY <2>3
<1>4. Is(g0)
  <2>1. ASSUME NEW k \in D
        PROVE  k \in least <=> \/ k = 1
                               \/ \E b \in 1..(k - 1) : b <= N /\ g0[b] /\ k = Goes(b)
    <3>1. \A b \in 1..(k - 1) : b \in D
      BY <1>1
    <3>2. 1 \in least /\ \A b \in least : b <= N => Goes(b) \in least
      BY <1>2
    <3> HIDE DEF least, D
    <3>3. \A b \in D : g0[b] <=> b \in least
      BY Zenon
    <3> HIDE DEF g0
    <3> QED BY <1>3, <3>1, <3>2, <3>3
  <2> HIDE DEF least, D
  <2>2. ASSUME NEW k \in D
        PROVE  (k \in least) = (\/ k = 1
                                \/ \E b \in 1..(k - 1) : b <= N /\ g0[b] /\ k = Goes(b))
    <3> DEFINE A == k \in least
               B == \/ k = 1
                    \/ \E b \in 1..(k - 1) : b <= N /\ g0[b] /\ k = Goes(b)
    <3>1. A \in BOOLEAN /\ B \in BOOLEAN
      OBVIOUS
    <3>2. A <=> B
      BY <2>1, Zenon
    <3> HIDE DEF A, B
    <3>3. A = B
      BY <3>1, <3>2
    <3> QED BY <3>3, Zenon DEF A, B
  <2>3. [k \in D |-> k \in least]
          = [k \in D |-> \/ k = 1
                         \/ \E b \in 1..(k - 1) : b <= N /\ g0[b] /\ k = Goes(b)]
    <3> HIDE DEF g0
    <3> QED BY <2>2, Zenon
  <2> QED BY <2>3, Zenon
<1> DEFINE start == CHOOSE g : Is(g)
<1>5. Is(start)
  <2> HIDE DEF Is, g0
  <2> QED BY <1>4, Zenon
<1>6. Starts(sections) = {k \in 1..N : start[k]}
  BY Zenon DEF Starts, N, Goes
<1> HIDE DEF start
<1>7. \A k \in 1..N : start[k] <=> \/ k = 1
                                   \/ \E b \in 1..(k - 1) : b <= N /\ start[b] /\ k = Goes(b)
  BY <1>1, <1>5
<1>8. ASSUME NEW k \in 1..N
      PROVE  k \in Starts(sections) <=> k = 1 \/ \E b \in Starts(sections) : k = Goes(b)
  <2>1. \A b : b \in Starts(sections) <=> b \in 1..N /\ start[b]
    BY <1>6
  <2>2. \A b \in 1..(k - 1) : b \in 1..N /\ b <= N
    BY <1>1
  <2>3. \A b \in 1..N : k = Goes(b) => b \in 1..(k - 1)
    BY <1>1
  <2> QED BY <1>7, <2>1, <2>2, <2>3
<1> QED BY <1>6, <1>8 DEF N, Goes

\* The function whose last value Pick is: the words at the positions up to n.
Picked(positions) ==
  LET p[k \in 0..Len(argv)] ==
        IF k = 0 THEN << >>
        ELSE IF k \in positions THEN Append(p[k - 1], argv[k]) ELSE p[k - 1]
  IN  p

\* Numbers a statement holds for: zero and with each number the next one.
LEMMA UpTo ==
  ASSUME NEW N \in Nat, NEW P, 0 \in P, \A n \in 1..N : n - 1 \in P => n \in P
  PROVE  0..N \subseteq P
<1> DEFINE Bad == (0..N) \ P
<1> SUFFICES ASSUME Bad # {} PROVE FALSE
  OBVIOUS
<1>1. PICK m \in Bad : \A y \in Bad : ~(<<y, m>> \in OpToRel(<, Nat))
  <2>1. Bad \in SUBSET Nat
    OBVIOUS
  <2> HIDE DEF Bad
  <2> QED BY <2>1, WFMin, NatLessThanWellFounded, Zenon
<1>2. \A y \in Bad : ~(y < m)
  <2>1. \A y \in Bad : y \in Nat
    OBVIOUS
  <2> HIDE DEF Bad
  <2> QED BY <1>1, <2>1, Zenon DEF OpToRel
<1>3. m \in 1..N /\ m - 1 \in 0..N /\ m - 1 < m
  OBVIOUS
<1> QED BY <1>2, <1>3

\* That function exists, so each word is there if its position is asked for.
LEMMA PickedIs ==
  ASSUME argv \in Seq(Word), NEW positions
  PROVE  /\ Pick(positions) = Picked(positions)[Len(argv)]
         /\ Picked(positions)[0] = << >>
         /\ \A k \in 1..Len(argv) :
              Picked(positions)[k] = IF k \in positions
                                       THEN Append(Picked(positions)[k - 1], argv[k])
                                       ELSE Picked(positions)[k - 1]
<1> DEFINE N == Len(argv)
           Value(g, k) == IF k = 0 THEN << >>
                          ELSE IF k \in positions THEN Append(g[k - 1], argv[k]) ELSE g[k - 1]
           Is(g, m) == g = [k \in 0..m |-> Value(g, k)]
           P == {m \in 0..N : \E g : Is(g, m)}
<1>1. N \in Nat
  OBVIOUS
<1> HIDE DEF N
<1>2. 0 \in P
  <2>1. Is([k \in 0..0 |-> << >>], 0)
    OBVIOUS
  <2> HIDE DEF Is
  <2> QED BY <1>1, <2>1
<1>3. ASSUME NEW m \in 1..N, m - 1 \in P PROVE m \in P
  <2>1. PICK g : Is(g, m - 1)
    BY <1>3
  <2> DEFINE h == [k \in 0..m |-> IF k = m THEN Value(g, m) ELSE g[k]]
  <2>2. ASSUME NEW k \in 0..m PROVE h[k] = Value(h, k)
    <3>1. k # 0 => k - 1 \in 0..m /\ k - 1 # m
      BY <1>1
    <3>2. k # 0 => h[k - 1] = g[k - 1]
      BY <3>1
    <3>3. Value(h, k) = Value(g, k)
      BY <3>2
    <3>4. CASE k = m
      BY <3>3, <3>4
    <3>5. CASE k # m
      <4>1. k \in 0..(m - 1)
        BY <1>1, <3>5
      <4>2. g[k] = Value(g, k)
        <5> HIDE DEF Value
        <5> QED BY <2>1, <4>1
      <4> QED BY <3>3, <3>5, <4>2
    <3> QED BY <3>4, <3>5
  <2>3. Is(h, m)
    <3>1. [k \in 0..m |-> h[k]] = [k \in 0..m |-> Value(h, k)]
      <4> HIDE DEF Value, h
      <4> QED BY <2>2, Zenon
    <3>2. h = [k \in 0..m |-> h[k]]
      OBVIOUS
    <3> HIDE DEF Value, h
    <3> QED BY <3>1, <3>2, Zenon
  <2> HIDE DEF Is
  <2> QED BY <2>3
<1>4. \E g : Is(g, N)
  <2>1. 0..N \subseteq P
    <3> HIDE DEF P
    <3> QED BY <1>1, <1>2, <1>3, UpTo
  <2>2. N \in 0..N
    BY <1>1
  <2> HIDE DEF Is
  <2> QED BY <2>1, <2>2
<1>5. Picked(positions) = CHOOSE g : Is(g, N)
  BY Zenon DEF Picked, N
<1>6. Is(Picked(positions), N)
  <2> HIDE DEF Is
  <2> QED BY <1>4, <1>5, Zenon
<1>7. \A k \in 0..N : Picked(positions)[k] = Value(Picked(positions), k)
  <2> HIDE DEF Value
  <2> QED BY <1>6, Zenon
<1>8. 0 \in 0..N /\ \A k \in 1..N : k \in 0..N /\ k # 0
  BY <1>1
<1>9. Pick(positions) = Picked(positions)[N]
  BY Zenon DEF Pick, Picked, N
<1> QED BY <1>7, <1>8, <1>9, Zenon DEF N

-----------------------------------------------------------------------------
(* The parser follows the grammar *)

\* The parser has reached a word the grammar reaches, or the end, and stands
\* behind the words of each option it has passed.
Reached(sections) ==
  /\ \A b \in Starts(sections) : b < i => b + 1 + Arity(b, sections) <= i
  /\ i <= Len(argv) => i \in Starts(sections)

\* A word with its arguments is passed over as the grammar passes over it.
LEMMA GoesOn ==
  ASSUME argv \in Seq(Word), NEW sections \in BOOLEAN, i \in 1..Len(argv), Reached(sections),
         NEW j, j = i + 1 + Arity(i, sections)
  PROVE  /\ j \in i + 1..i + 3
         /\ \A b \in Starts(sections) : b < j <=> b < i \/ b = i
         /\ \A b \in Starts(sections) : b < j => b + 1 + Arity(b, sections) <= j
         /\ j <= Len(argv) => j \in Starts(sections)
<1> DEFINE S == Starts(sections)
           After(b) == b + 1 + Arity(b, sections)
<1>1. /\ S \subseteq 1..Len(argv)
      /\ \A k \in 1..Len(argv) : k \in S <=> k = 1 \/ \E b \in S : k = After(b)
  BY StartsAre
<1>2. \A b \in S : Arity(b, sections) \in 0..2
  BY <1>1, ArityIs
<1>3. i \in S /\ \A b \in S : b < i => After(b) <= i
  BY DEF Reached
<1>4. Len(argv) \in Nat /\ \A b \in S : After(b) \in b + 1..b + 3 /\ b \in Nat
  BY <1>1, <1>2
<1>5. j = After(i) /\ i \in Nat /\ i >= 1
  OBVIOUS
<1> HIDE DEF S, After
<1>6. j \in i + 1..i + 3
  BY <1>3, <1>4, <1>5
<1>7. i + 1 < j => i + 1 \notin S
  <2> SUFFICES ASSUME i + 1 < j, i + 1 \in S PROVE FALSE
    OBVIOUS
  <2>1. PICK b \in S : i + 1 = After(b)
    BY <1>1, <1>5
  <2>2. b <= i
    BY <1>4, <1>5, <2>1
  <2> QED BY <1>3, <1>4, <1>5, <2>1, <2>2
<1>8. i + 2 < j => i + 2 \notin S
  <2> SUFFICES ASSUME i + 2 < j, i + 2 \in S PROVE FALSE
    OBVIOUS
  <2>1. PICK b \in S : i + 2 = After(b)
    BY <1>1, <1>5
  <2>2. b <= i \/ b = i + 1
    BY <1>4, <1>5, <2>1
  <2>3. i + 1 < j
    BY <1>5, <1>6
  <2> QED BY <1>3, <1>4, <1>5, <1>7, <2>1, <2>2, <2>3
<1>9. \A b \in S : b < j <=> b < i \/ b = i
  BY <1>4, <1>5, <1>6, <1>7, <1>8
<1>10. \A b \in S : b < j => After(b) <= j
  BY <1>3, <1>4, <1>5, <1>6, <1>9
<1>11. j <= Len(argv) => j \in S
  BY <1>1, <1>3, <1>4, <1>5, <1>6
<1> QED BY <1>6, <1>9, <1>10, <1>11 DEF S, After

TakesNames(k) == IsOption(argv[k]) /\ "s" \in Cluster[argv[k]]

\* The section an option names.
Names(k) == IF k = Len(argv) THEN <<"", "">> ELSE <<argv[k + 1], argv[k + 2]>>

\* The sections that are listed take words: nm's.
Sections == bin = "nm"

Reads == ReadFile \/ update_arch_flags \/ update_format \/ ReadLetters

\* What the reading of one word comes to when it is no error: the index moves as
\* far as the grammar says, and of files and section names the word gives its own.
LEMMA ReadsOne ==
  ASSUME TypeOK, Reads, pc' # "usage"
  PROVE  /\ pc = "parse" /\ pc' = "parse" /\ i \in 1..Len(argv)
         /\ argv' = argv /\ bin' = bin
         /\ i' = i + 1 + Arity(i, Sections)
         /\ files' = IF IsOption(argv[i]) THEN files ELSE Append(files, argv[i])
         /\ bin = "nm" /\ ~TakesNames(i) => segment' = segment
         /\ bin = "nm" /\ TakesNames(i) => segment = << >> /\ segment' = Names(i)
<1> DEFINE w == argv[i]
           n == Arity(i, Sections)
<1> SUFFICES /\ pc = "parse" /\ pc' = "parse" /\ i \in 1..Len(argv)
             /\ argv' = argv /\ bin' = bin
             /\ i' = i + 1 + n
             /\ files' = IF IsOption(w) THEN files ELSE Append(files, w)
             /\ bin = "nm" /\ ~TakesNames(i) => segment' = segment
             /\ bin = "nm" /\ TakesNames(i) =>
                  /\ segment = << >>
                  /\ segment' = IF i = Len(argv) THEN <<"", "">>
                                ELSE <<argv[i + 1], argv[i + 2]>>
  BY Zenon DEF Names
<1>1. /\ Reading /\ i \in 1..Len(argv) /\ argv \in Seq(Word) /\ Len(argv) \in Nat
      /\ pc = "parse" /\ ~Usage
  <2>1. Reading
    BY DEF Reads, ReadFile, update_arch_flags, update_format, ReadLetters
  <2>2. argv \in Seq(Word) /\ i \in 1..(Len(argv) + 1) /\ Len(argv) \in Nat
    BY DEF TypeOK
  <2> QED BY <2>1, <2>2 DEF Reading, Usage
<1>2. IsOption("-arch") /\ IsOption("-t") /\ "s" \notin Cluster["-arch"] /\ "s" \notin Cluster["-t"]
  BY WordsAssumption DEF IsOption
<1>3. Sections \in BOOLEAN /\ (Sections <=> bin = "nm")
  BY DEF Sections
<1>4. /\ ~IsOption(w) => n = 0
      /\ w = "-arch" => n = 1
      /\ w = "-t" /\ bin = "nm" => n = 1
      /\ IsOption(w) /\ w # "-arch" /\ ~(w = "-t" /\ bin = "nm") =>
           n = IF bin = "nm" /\ "s" \in Cluster[w] /\ i + 1 < Len(argv)
                                  THEN 2 ELSE 0
  BY <1>1, <1>3, ArityIs
<1> HIDE DEF n
<1>5. CASE ReadFile
  <2>1. /\ ~IsOption(w) /\ i' = i + 1 /\ files' = Append(files, w)
        /\ pc' = pc /\ argv' = argv /\ bin' = bin /\ segment' = segment
    BY <1>5 DEF ReadFile
  <2>2. i' = i + 1 + n /\ ~TakesNames(i)
    BY <1>1, <1>4, <2>1 DEF TakesNames
  <2> QED BY <1>1, <2>1, <2>2, Zenon
<1>6. CASE update_arch_flags
  <2>1. /\ w = "-arch" /\ i' = i + 2 /\ files' = files
        /\ pc' = pc /\ argv' = argv /\ bin' = bin /\ segment' = segment
    BY <1>1, <1>6 DEF update_arch_flags
  <2>2. i' = i + 1 + n /\ ~TakesNames(i)
    BY <1>1, <1>2, <1>4, <2>1 DEF TakesNames
  <2>3. IsOption(w)
    BY <1>2, <2>1
  <2> QED BY <1>1, <2>1, <2>2, <2>3, Zenon
<1>7. CASE update_format
  <2>1. /\ w = "-t" /\ bin = "nm" /\ i' = i + 2 /\ files' = files
        /\ pc' = pc /\ argv' = argv /\ bin' = bin /\ segment' = segment
    BY <1>1, <1>7 DEF update_format
  <2>2. i' = i + 1 + n /\ ~TakesNames(i)
    BY <1>1, <1>2, <1>4, <2>1 DEF TakesNames
  <2>3. IsOption(w)
    BY <1>2, <2>1
  <2> QED BY <1>1, <2>1, <2>2, <2>3, Zenon
<1>8. CASE ReadLetters
  <2> DEFINE letters == Cluster[w]
  <2>1. /\ IsOption(w) /\ w # "-arch" /\ ~(w = "-t" /\ bin = "nm") /\ ~SectionRefused(letters)
        /\ pc' = pc /\ argv' = argv /\ bin' = bin /\ files' = files
        /\ IF ~TakesSection(letters) THEN segment' = segment /\ i' = i + 1
           ELSE IF i = Len(argv) THEN segment' = <<"", "">> /\ i' = i + 1
           ELSE segment' = <<argv[i + 1], argv[i + 2]>> /\ i' = i + 3
    BY <1>1, <1>8 DEF ReadLetters
  <2>2. TakesSection(letters) <=> bin = "nm" /\ "s" \in letters
    BY DEF TakesSection
  <2>3. TakesNames(i) <=> "s" \in letters
    BY <2>1 DEF TakesNames
  <2>4. n = IF bin = "nm" /\ "s" \in letters /\ i + 1 < Len(argv) THEN 2 ELSE 0
    BY <1>4, <2>1
  <2>5. TakesSection(letters) => segment = << >> /\ Len(argv) # i + 1
    BY <2>1 DEF SectionRefused
  <2> HIDE DEF letters
  <2>6. CASE ~TakesSection(letters)
    <3>1. n = 0 /\ i' = i + 1 /\ segment' = segment
      BY <2>1, <2>2, <2>4, <2>6
    <3>2. i' = i + 1 + n
      BY <1>1, <3>1
    <3> QED BY <1>1, <2>1, <2>2, <2>3, <2>6, <3>1, <3>2, Zenon
  <2>7. CASE TakesSection(letters) /\ i = Len(argv)
    <3>1. i' = i + 1
      BY <2>1, <2>7, Zenon
    <3>2. segment' = <<"", "">>
      BY <2>1, <2>7, Zenon
    <3>3. i' = i + 1 + n
      BY <1>1, <2>4, <2>7, <3>1
    <3> QED BY <1>1, <2>1, <2>2, <2>3, <2>5, <2>7, <3>2, <3>3, Zenon
  <2>8. CASE TakesSection(letters) /\ i # Len(argv)
    <3>1. i + 1 < Len(argv)
      BY <1>1, <2>5, <2>8
    <3>2. i' = i + 3 /\ segment' = <<argv[i + 1], argv[i + 2]>>
      BY <2>1, <2>8, Zenon
    <3>3. i' = i + 1 + n
      BY <1>1, <2>2, <2>4, <2>8, <3>1, <3>2
    <3> QED BY <1>1, <2>1, <2>2, <2>3, <2>5, <2>8, <3>2, <3>3, Zenon
  <2> QED BY <2>6, <2>7, <2>8
<1> QED BY <1>5, <1>6, <1>7, <1>8 DEF Reads

\* The command line stays, and with it all that the grammar says of it.
LEMMA GrammarStays ==
  ASSUME argv' = argv, bin' = bin
  PROVE  /\ Sections' = Sections
         /\ \A s \in BOOLEAN : /\ Starts(s)' = Starts(s)
                               /\ FilePositions(s)' = FilePositions(s)
                               /\ \A k : Arity(k, s)' = Arity(k, s)
         /\ SectionOptions' = SectionOptions
         /\ \A P : Picked(P)' = Picked(P) /\ Pick(P)' = Pick(P)
         /\ \A k : TakesNames(k)' = TakesNames(k)
<1>1. \A k, s : Arity(k, s)' = Arity(k, s)
  BY DEF Arity
<1>2. \A s : Starts(s)' = Starts(s)
  BY DEF Starts, Arity
<1>3. \A P : Picked(P)' = Picked(P) /\ Pick(P)' = Pick(P)
  BY DEF Picked, Pick
<1>4. SectionOptions' = SectionOptions /\ \A s : FilePositions(s)' = FilePositions(s)
  BY <1>2 DEF SectionOptions, FilePositions
<1> QED BY <1>1, <1>2, <1>3, <1>4 DEF Sections, TakesNames

\* While the words are read the files are those at the positions passed so far.
FilesSoFar ==
  LET positions == FilePositions(Sections) IN
  /\ pc = "parse" => Reached(Sections) /\ files = Picked(positions)[i - 1]
  /\ pc \in {"check", "ready"} =>
       files = IF Pick(positions) = << >> THEN <<"a.out">> ELSE Pick(positions)

LEMMA SectionsIs == Sections \in BOOLEAN /\ (bin = "nm" <=> Sections)
BY DEF Sections

LEMMA InitFilesSoFar == Init => FilesSoFar
<1> SUFFICES ASSUME Init PROVE FilesSoFar
  OBVIOUS
<1>1. /\ argv \in Seq(Word) /\ Len(argv) \in Nat /\ i = 1 /\ files = << >>
      /\ pc \notin {"check", "ready"}
  BY InitType DEF Init, TypeOK
<1>2. Reached(Sections)
  <2>1. /\ Starts(Sections) \subseteq 1..Len(argv)
        /\ \A k \in 1..Len(argv) : k = 1 => k \in Starts(Sections)
    BY <1>1, SectionsIs, StartsAre
  <2> QED BY <1>1, <2>1 DEF Reached
<1>3. Picked(FilePositions(Sections))[i - 1] = << >>
  <2>1. Picked(FilePositions(Sections))[0] = << >>
    BY <1>1, PickedIs
  <2> QED BY <1>1, <2>1
<1> QED BY <1>1, <1>2, <1>3 DEF FilesSoFar

\* One word is read: the parser still follows the grammar.
LEMMA ReadsOn ==
  ASSUME TypeOK, Reached(Sections), Reads, pc' # "usage"
  PROVE  /\ Reached(Sections)' /\ i \in Nat /\ i' \in i + 1..i + 3
         /\ \A b \in Starts(Sections) : b < i' <=> b < i \/ b = i
         /\ i \in Starts(Sections)
<1>1. argv \in Seq(Word) /\ Len(argv) \in Nat /\ i \in 1..Len(argv) /\ i \in Nat
  BY ReadsOne DEF TypeOK
<1>2. argv' = argv /\ bin' = bin
  BY ReadsOne
<1>3. /\ i' \in i + 1..i + 3
      /\ \A b \in Starts(Sections) : b < i' <=> b < i \/ b = i
      /\ \A b \in Starts(Sections) : b < i' => b + 1 + Arity(b, Sections) <= i'
      /\ i' <= Len(argv) => i' \in Starts(Sections)
  <2>1. i' = i + 1 + Arity(i, Sections)
    BY ReadsOne
  <2> QED BY <1>1, <2>1, SectionsIs, GoesOn
<1>4. /\ Sections' = Sections
      /\ \A s \in BOOLEAN : Starts(s)' = Starts(s) /\ \A k : Arity(k, s)' = Arity(k, s)
  BY <1>2, GrammarStays
<1>5. Reached(Sections)'
  <2>1. Starts(Sections)' = Starts(Sections) /\ \A k : Arity(k, Sections)' = Arity(k, Sections)
    BY <1>2 DEF Sections, Starts, Arity
  <2> QED BY <1>2, <1>3, <2>1 DEF Reached
<1>6. i \in Starts(Sections)
  BY <1>1 DEF Reached
<1> QED BY <1>1, <1>3, <1>5, <1>6

LEMMA StepFilesSoFar == TypeOK /\ FilesSoFar /\ [Next]_avars => FilesSoFar'
<1> SUFFICES ASSUME TypeOK, FilesSoFar, [Next]_avars PROVE FilesSoFar'
  OBVIOUS
<1> DEFINE positions == FilePositions(Sections)
           P == Picked(positions)
           Given(words) == IF words = << >> THEN <<"a.out">> ELSE words
<1>0. argv \in Seq(Word) /\ Len(argv) \in Nat /\ i \in 1..(Len(argv) + 1)
  BY DEF TypeOK
<1>a. argv' = argv /\ bin' = bin
  BY DEF Next, Step, avars, ReadFile, update_arch_flags, update_format, ReadLetters,
         EndParse, check_arch_flags, Usage
<1>b. P' = P /\ Pick(positions)' = Pick(positions) /\ Reached(Sections)' \in BOOLEAN
  BY <1>a DEF Sections, FilePositions, Starts, Arity, Picked, Pick, Reached
<1>c. /\ Pick(positions) = P[Len(argv)]
      /\ \A k \in 1..Len(argv) : P[k] = IF k \in positions THEN Append(P[k - 1], argv[k])
                                                           ELSE P[k - 1]
  BY <1>0, PickedIs
<1> SUFFICES /\ pc' = "parse" => Reached(Sections)' /\ files' = P[i' - 1]
             /\ pc' \in {"check", "ready"} => files' = Given(Pick(positions))
  BY <1>b DEF FilesSoFar
<1> HIDE DEF P, Given, positions
<1>d. /\ pc = "parse" => Reached(Sections) /\ files = P[i - 1]
      /\ pc \in {"check", "ready"} => files = Given(Pick(positions))
  BY DEF FilesSoFar, P, Given, positions
<1>1. CASE Reads /\ pc' # "usage"
  <2>1. /\ pc = "parse" /\ pc' = "parse" /\ i \in 1..Len(argv)
        /\ files' = IF IsOption(argv[i]) THEN files ELSE Append(files, argv[i])
    BY <1>1, ReadsOne
  <2>2. /\ Reached(Sections)' /\ i \in Nat /\ i' \in i + 1..i + 3
        /\ \A b \in Starts(Sections) : b < i' <=> b < i \/ b = i
        /\ i \in Starts(Sections)
    BY <1>1, <1>d, <2>1, ReadsOn
  <2>3. i \in positions <=> ~IsOption(argv[i])
    BY <2>2 DEF positions, FilePositions
  <2>4. P[i] = files'
    BY <1>c, <1>d, <2>1, <2>3
  <2>5. \A b \in positions : ~(i < b /\ b < i')
    <3>1. \A b \in positions : b \in Starts(Sections) /\ b \in Nat
      <4>1. Starts(Sections) \subseteq 1..Len(argv)
        BY <1>0, SectionsIs, StartsAre
      <4> QED BY <4>1 DEF positions, FilePositions
    <3> QED BY <2>2, <3>1
  <2>6. i' \in 1..(Len(argv) + 1)
    <3>1. TypeOK'
      BY TypeStep
    <3> QED BY <1>a, <3>1 DEF TypeOK
  <2>7. i + 1 < i' => P[i + 1] = P[i]
    <3> SUFFICES ASSUME i + 1 < i' PROVE P[i + 1] = P[i]
      OBVIOUS
    <3>1. i + 1 \in 1..Len(argv) /\ i + 1 \notin positions /\ (i + 1) - 1 = i
      BY <1>0, <2>2, <2>5, <2>6
    <3> QED BY <1>c, <3>1
  <2>8. i + 2 < i' => P[i + 2] = P[i + 1]
    <3> SUFFICES ASSUME i + 2 < i' PROVE P[i + 2] = P[i + 1]
      OBVIOUS
    <3>1. i + 2 \in 1..Len(argv) /\ i + 2 \notin positions /\ (i + 2) - 1 = i + 1
      BY <1>0, <2>2, <2>5, <2>6
    <3> QED BY <1>c, <3>1
  <2>9. P[i' - 1] = P[i]
    <3>1. i \in Nat /\ (i' = i + 1 \/ i' = i + 2 \/ i' = i + 3)
      BY <2>2
    <3>2. CASE i' = i + 1
      BY <3>1, <3>2
    <3>3. CASE i' = i + 2
      <4>1. i' - 1 = i + 1 /\ i + 1 < i'
        BY <3>1, <3>3
      <4> QED BY <2>7, <4>1
    <3>4. CASE i' = i + 3
      <4>1. i' - 1 = i + 2 /\ i + 1 < i' /\ i + 2 < i'
        BY <3>1, <3>4
      <4> QED BY <2>7, <2>8, <4>1
    <3> QED BY <3>1, <3>2, <3>3, <3>4
  <2> QED BY <2>1, <2>2, <2>4, <2>9
<1>2. CASE EndParse
  <2>1. CASE pc' = "usage"
    BY <2>1
  <2>2. CASE pc' # "usage"
    <3>1. /\ pc = "parse" /\ i > Len(argv) /\ pc' = "check" /\ files' = Given(files)
      BY <1>2, <2>2 DEF EndParse, Usage, Given
    <3>2. i - 1 = Len(argv)
      BY <1>0, <3>1
    <3> QED BY <1>c, <1>d, <3>1, <3>2
  <2> QED BY <2>1, <2>2
<1>3. CASE check_arch_flags
  <2>1. pc = "check" /\ files' = files /\ pc' \in {"ready", "usage"}
    BY <1>3 DEF check_arch_flags, Usage
  <2> QED BY <1>d, <2>1
<1>4. CASE UNCHANGED avars
  <2>1. pc' = pc /\ i' = i /\ files' = files /\ (Reached(Sections)' <=> Reached(Sections))
    BY <1>4 DEF avars, Reached, Sections, Starts, Arity
  <2> QED BY <1>d, <2>1
<1>5. CASE pc' = "usage"
  BY <1>5
<1> QED BY <1>1, <1>2, <1>3, <1>4, <1>5 DEF Next, Step, Reads

\* However options, their arguments and files are mixed, the files that are
\* handled are the words the grammar of the usage line leaves over, all of them
\* and in their order; only without any is it a.out.
THEOREM FilesAreTheLeftOver == Spec => []FilesAreTheRest
<1>1. FilesSoFar => FilesAreTheRest
  BY DEF FilesSoFar, Sections, FilesAreTheRest
<1> QED BY <1>1, InitType, TypeStep, InitFilesSoFar, StepFilesSoFar, PTL DEF Spec

-----------------------------------------------------------------------------
(* The section *)

\* Of the options passed so far one at most names a section, and it is the
\* section that is kept.
SectionSoFar ==
  bin = "nm" /\ pc # "usage" =>
    LET passed == {k \in SectionOptions : pc = "parse" => k < i} IN
    /\ passed = {} <=> segment = << >>
    /\ \A k \in passed : segment = Names(k) /\ \A l \in passed : k = l

LEMMA InitSectionSoFar == Init => SectionSoFar
<1> SUFFICES ASSUME Init PROVE SectionSoFar
  OBVIOUS
<1>1. argv \in Seq(Word) /\ i = 1 /\ segment = << >> /\ (bin = "nm" => pc = "parse")
  BY InitType DEF Init, TypeOK
<1>2. ASSUME NEW s \in BOOLEAN, NEW k \in Starts(s) PROVE ~(k < i)
  <2>1. k \in 1..Len(argv) /\ Len(argv) \in Nat
    BY <1>1, StartsAre
  <2> QED BY <1>1, <2>1
<1>3. \A k \in SectionOptions : ~(k < i)
  <2>1. TRUE \in BOOLEAN
    OBVIOUS
  <2> QED BY <1>2, <2>1, Zenon DEF SectionOptions
<1> QED BY <1>1, <1>3 DEF SectionSoFar

LEMMA PairIsThere == ASSUME NEW a, NEW b PROVE <<a, b>> # << >>
OBVIOUS

LEMMA NamesAreThere == \A k : Names(k) # << >>
BY PairIsThere, Zenon DEF Names

LEMMA StepSectionSoFar ==
  TypeOK /\ FilesSoFar /\ SectionSoFar /\ [Next]_avars => SectionSoFar'
<1> SUFFICES ASSUME TypeOK, FilesSoFar, SectionSoFar, [Next]_avars PROVE SectionSoFar'
  OBVIOUS
<1>a. argv' = argv /\ bin' = bin
  BY DEF Next, Step, avars, ReadFile, update_arch_flags, update_format, ReadLetters,
         EndParse, check_arch_flags, Usage
<1>b. SectionOptions' = SectionOptions /\ \A k : Names(k)' = Names(k)
  <2>1. SectionOptions' = SectionOptions
    BY <1>a, GrammarStays
  <2>2. \A k : Names(k)' = Names(k)
    BY <1>a, Zenon DEF Names
  <2> QED BY <2>1, <2>2
<1> SUFFICES ASSUME bin = "nm", pc' # "usage"
             PROVE  LET passed == {k \in SectionOptions : pc' = "parse" => k < i'} IN
                    /\ passed = {} <=> segment' = << >>
                    /\ \A k \in passed : segment' = Names(k) /\ \A l \in passed : k = l
  <2>1. SectionSoFar' <=>
          (bin' = "nm" /\ pc' # "usage" =>
             LET passed == {k \in SectionOptions' : pc' = "parse" => k < i'} IN
             /\ passed = {} <=> segment' = << >>
             /\ \A k \in passed : segment' = Names(k)' /\ \A l \in passed : k = l)
    BY DEF SectionSoFar
  <2> QED BY <1>a, <1>b, <2>1
<1>c. /\ argv \in Seq(Word) /\ Len(argv) \in Nat /\ i \in 1..(Len(argv) + 1)
      /\ pc \in {"parse", "check", "ready", "usage"}
  BY DEF TypeOK
<1>d. SectionOptions = {k \in Starts(Sections) : TakesNames(k)}
  <2>1. Sections = TRUE
    BY DEF Sections
  <2> QED BY <2>1, Zenon DEF SectionOptions, TakesNames
<1>e. \A k \in SectionOptions : k \in 1..Len(argv)
  BY <1>c, <1>d, SectionsIs, StartsAre
<1>1. CASE Reads
  <2>1. /\ pc = "parse" /\ pc' = "parse" /\ i \in 1..Len(argv)
        /\ ~TakesNames(i) => segment' = segment
        /\ TakesNames(i) => segment = << >> /\ segment' = Names(i)
    BY <1>1, ReadsOne
  <2>2. /\ \A b \in Starts(Sections) : b < i' <=> b < i \/ b = i
        /\ i \in Starts(Sections)
    BY <1>1, <2>1, ReadsOn DEF FilesSoFar
  <2> DEFINE before == {k \in SectionOptions : k < i}
             after  == {k \in SectionOptions : k < i'}
  <2>3. /\ before = {} <=> segment = << >>
        /\ \A k \in before : segment = Names(k) /\ \A l \in before : k = l
    BY <2>1 DEF SectionSoFar
  <2>4. after = IF TakesNames(i) THEN before \cup {i} ELSE before
    BY <1>d, <2>2
  <2> HIDE DEF before, after
  <2>5. /\ after = {} <=> segment' = << >>
        /\ \A k \in after : segment' = Names(k) /\ \A l \in after : k = l
    <3>1. CASE TakesNames(i)
      <4>1. after = {i} /\ segment' = Names(i)
        BY <2>1, <2>3, <2>4, <3>1
      <4> QED BY <4>1, NamesAreThere
    <3>2. CASE ~TakesNames(i)
      BY <2>1, <2>3, <2>4, <3>2
    <3> QED BY <3>1, <3>2
  <2> QED BY <2>1, <2>5 DEF after
<1>2. CASE EndParse
  <2>1. pc = "parse" /\ i > Len(argv) /\ pc' = "check" /\ segment' = segment
    BY <1>2 DEF EndParse, Usage
  <2>2. \A k \in SectionOptions : k < i
    BY <1>c, <1>e, <2>1
  <2> QED BY <2>1, <2>2 DEF SectionSoFar
<1>3. CASE check_arch_flags
  <2>1. pc = "check" /\ pc' = "ready" /\ segment' = segment
    BY <1>3 DEF check_arch_flags, Usage
  <2> QED BY <2>1 DEF SectionSoFar
<1>4. CASE UNCHANGED avars
  BY <1>4 DEF avars, SectionSoFar
<1> QED BY <1>1, <1>2, <1>3, <1>4 DEF Next, Step, Reads

\* Whatever stands around it, nm takes one -s at most, and the section it lists
\* is the one that option names.
THEOREM TakesOneSection == Spec => []OneSection
<1>1. SectionSoFar => OneSection
  <2> SUFFICES ASSUME SectionSoFar, bin = "nm", pc = "ready"
               PROVE  /\ Cardinality(SectionOptions) <= 1
                      /\ SectionOptions = {} <=> segment = << >>
                      /\ \A k \in SectionOptions : segment = Names(k)
    BY Zenon DEF OneSection, Names
  <2>1. /\ SectionOptions = {} <=> segment = << >>
        /\ \A k \in SectionOptions : segment = Names(k) /\ \A l \in SectionOptions : k = l
    BY DEF SectionSoFar
  <2>2. Cardinality(SectionOptions) <= 1
    <3>1. CASE SectionOptions = {}
      BY <3>1, FS_EmptySet
    <3>2. CASE SectionOptions # {}
      <4>1. PICK k : SectionOptions = {k}
        BY <2>1, <3>2
      <4> QED BY <4>1, FS_Singleton
    <3> QED BY <3>1, <3>2
  <2> QED BY <2>1, <2>2
<1> QED
  BY <1>1, InitType, TypeStep, InitFilesSoFar, StepFilesSoFar, InitSectionSoFar,
     StepSectionSoFar, PTL DEF Spec
=============================================================================
