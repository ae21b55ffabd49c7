----------------------------- MODULE FatProofs -----------------------------
(***************************************************************************)
(* Proofs about Fat for every set of fat files, every list of -arch flags, *)
(* every table of architectures and every width of the integers.           *)
(***************************************************************************)
EXTENDS Fat, TLAPS

-----------------------------------------------------------------------------
(* The inductive invariant *)

\* Where the counter may stand: it numbers slices, then -arch flags.
Counting ==
  /\ archs \in ArchFlags
  /\ pc = "check"  => i \in 0..N
  /\ pc = "choose" => i = 0
  /\ pc = "all"    => i \in 0..N
  /\ pc = "flags"  => i \in 0..Len(archs)

\* Nothing is handed on before the check is over, and for nm the slices the
\* check has passed are sound: all of them when it is over.
Checked ==
  /\ pc \in {"check", "choose", "refused"} => handed = << >>
  /\ bin = "nm" /\ pc = "check" => \A n \in 1..i : check_fat_arch(n, FALSE)
  /\ bin = "nm" /\ pc \in {"choose", "all", "flags", "done"} =>
       \A n \in 1..N : check_fat_arch(n, FALSE)

IInv == TypeOK /\ Counting /\ SlicesInside /\ Checked

-----------------------------------------------------------------------------
(* What is handed on *)

LEMMA SliceType ==
  ASSUME file \in FatFile, NEW n \in 1..N
  PROVE  /\ A(n) \in FatArch
         /\ A(n).offset \in Nat /\ A(n).size \in Nat /\ file.fsize \in Nat
         /\ A(n).cputype \in Int /\ A(n).hdcpu \in Int
         /\ Clamp(n) \in Int
<1>1. file.fsize \in Nat /\ file.archs \in Seq(FatArch)
  BY DEF FatFile
<1>2. A(n) \in FatArch
  BY <1>1 DEF A, N
<1>3. /\ A(n).offset \in Nat /\ A(n).size \in Nat
      /\ A(n).cputype \in Int /\ A(n).hdcpu \in Int
  <2>1. A(n).offset \in 0..(U32 - 1) /\ A(n).size \in 0..(U32 - 1)
        /\ A(n).cputype \in Int /\ A(n).hdcpu \in Int
    BY <1>2 DEF FatArch
  <2> QED BY <2>1, WidthAssumption
<1> QED BY <1>1, <1>2, <1>3 DEF Clamp

\* What remains of a slice that begins inside the file, or at its end, lies in
\* the file: the clamp of handle_fat_file needs the guard of handle_fat_arch.
LEMMA ClampInside ==
  ASSUME file \in FatFile, NEW n \in 1..N, A(n).offset <= file.fsize
  PROVE  Clamp(n) >= 0 /\ A(n).offset + Clamp(n) <= file.fsize
<1>1. A(n).offset \in Nat /\ A(n).size \in Nat /\ file.fsize \in Nat
  BY SliceType
<1>2. CASE A(n).offset + A(n).size > file.fsize
  BY <1>1, <1>2 DEF Clamp
<1>3. CASE ~(A(n).offset + A(n).size > file.fsize)
  BY <1>1, <1>3 DEF Clamp
<1> QED BY <1>2, <1>3

\* Handing on one more slice keeps what is known of the ones handed on.
LEMMA HandOnKeeps ==
  ASSUME TypeOK, SlicesInside, file' = file,
         NEW n \in 1..N, NEW label \in BOOLEAN, NEW cputype \in Int,
         HandOn(n, label, cputype)
  PROVE  /\ handed' \in Seq(HandedSlice)
         /\ \A j \in DOMAIN handed' : handed'[j].n \in 1..N
         /\ SlicesInside'
<1>1. /\ file \in FatFile /\ handed \in Seq(HandedSlice)
      /\ \A j \in DOMAIN handed : handed[j].n \in 1..N
  BY DEF TypeOK
<1>2. CASE handed' = handed
  BY <1>1, <1>2 DEF SlicesInside, A, N
<1>3. CASE /\ A(n).offset <= file.fsize
           /\ handed' = Append(handed, Slice(n, label, cputype))
  <2>1. Slice(n, label, cputype) \in HandedSlice
    <3>1. Clamp(n) \in Int
      BY <1>1, SliceType
    <3>2. N \in Nat
      BY <1>1 DEF N, FatFile
    <3>3. n \in Nat \ {0}
      BY <3>2
    <3> QED BY <3>1, <3>3 DEF Slice, HandedSlice
  <2>2. /\ Slice(n, label, cputype).n = n
        /\ Slice(n, label, cputype).size = Clamp(n)
    BY DEF Slice
  <2>3. /\ handed' \in Seq(HandedSlice)
        /\ DOMAIN handed' = 1..(Len(handed) + 1)
        /\ \A j \in 1..Len(handed) : handed'[j] = handed[j]
        /\ handed'[Len(handed) + 1] = Slice(n, label, cputype)
    BY <1>1, <1>3, <2>1
  <2>4. DOMAIN handed = 1..Len(handed) /\ Len(handed) \in Nat
    BY <1>1
  <2>5. \A j \in DOMAIN handed' : j \in DOMAIN handed \/ j = Len(handed) + 1
    BY <2>3, <2>4
  <2>6. \A j \in DOMAIN handed' : handed'[j].n \in 1..N
    BY <1>1, <2>2, <2>3, <2>4, <2>5
  <2>7. Clamp(n) >= 0 /\ A(n).offset + Clamp(n) <= file.fsize
    BY <1>1, <1>3, ClampInside
  <2>8. ASSUME NEW j \in DOMAIN handed'
        PROVE  /\ handed'[j].size >= 0
               /\ A(handed'[j].n).offset + handed'[j].size <= file.fsize
    <3>1. CASE j \in DOMAIN handed
      BY <3>1, <2>3, <2>4 DEF SlicesInside
    <3>2. CASE j = Len(handed) + 1
      BY <3>2, <2>2, <2>3, <2>7
    <3> QED BY <2>5, <3>1, <3>2
  <2>9. SlicesInside'
    BY <2>8 DEF SlicesInside, A
  <2> QED BY <2>3, <2>6, <2>9 DEF N
<1> QED BY <1>2, <1>3 DEF HandOn

-----------------------------------------------------------------------------
(* The inductive invariant holds *)

LEMMA FlagsType ==
  ASSUME archs \in ArchFlags
  PROVE  archs \in Seq(STRING) /\ Len(archs) \in Nat /\ DOMAIN archs = 1..Len(archs)
BY FlagsAssumption

LEMMA CountType ==
  ASSUME file \in FatFile
  PROVE  N \in Nat /\ file.fsize \in Nat
BY DEF FatFile, N

LEMMA InitIInv == Init => IInv
<1> SUFFICES ASSUME Init PROVE IInv
  OBVIOUS
<1>1. file \in FatFile /\ bin \in {"nm", "otool"} /\ N \in Nat
  BY FatsAssumption, BinsAssumption, CountType DEF Init
<1>2. handed = << >> /\ handed \in Seq(HandedSlice) /\ DOMAIN handed = {}
  BY DEF Init
<1>3. TypeOK
  BY <1>1, <1>2 DEF Init, TypeOK
<1>4. Counting
  BY <1>1 DEF Init, Counting
<1>5. SlicesInside
  BY <1>2 DEF SlicesInside
<1>6. Checked
  <2>1. i = 0 /\ (pc = "check" \/ (pc = "choose" /\ bin # "nm"))
    BY DEF Init
  <2>2. \A n \in 1..i : FALSE
    BY <2>1
  <2> QED BY <1>2, <2>1, <2>2 DEF Checked
<1> QED BY <1>3, <1>4, <1>5, <1>6 DEF IInv

LEMMA CheckArchKeeps == IInv /\ CheckArch => IInv'
<1> SUFFICES ASSUME IInv, CheckArch PROVE IInv'
  OBVIOUS
<1>1. /\ TypeOK /\ Counting /\ SlicesInside /\ Checked
      /\ N \in Nat /\ i \in 0..N /\ pc = "check"
      /\ UNCHANGED <<file, archs, bin, missing, handed>>
  BY CountType DEF IInv, TypeOK, Counting, CheckArch, input
<1>2. \/ pc' = "refused" /\ i' = i
      \/ pc' = "choose" /\ i' = 0 /\ i = N
      \/ pc' = "check" /\ i' = i + 1 /\ i < N /\ check_fat_arch(i + 1, FALSE)
  <2>1. CASE N = 0
    BY <1>1, <2>1 DEF CheckArch
  <2>2. CASE N # 0 /\ i = N
    BY <1>1, <2>2 DEF CheckArch
  <2>3. CASE N # 0 /\ i # N
    <3>1. i < N
      BY <1>1, <2>3
    <3> QED BY <1>1, <2>3, <3>1 DEF CheckArch
  <2> QED BY <2>1, <2>2, <2>3
<1>3. TypeOK'
  <2>1. pc' \in {"refused", "choose", "check"}
    BY <1>2
  <2>2. i' = i \/ i' = 0 \/ i' = i + 1
    BY <1>2
  <2>3. i' \in Nat
    BY <1>1, <2>2
  <2> QED BY <1>1, <2>1, <2>3 DEF TypeOK, N
<1>4. Counting'
  <2>1. N' = N
    BY <1>1 DEF N
  <2>2. pc' = "check" => i' \in 0..N
    BY <1>1, <1>2
  <2> QED BY <1>1, <1>2, <2>1, <2>2 DEF Counting
<1>5. SlicesInside'
  BY <1>1 DEF SlicesInside, A
<1>6. Checked'
  <2>1. \A n : check_fat_arch(n, FALSE)' = check_fat_arch(n, FALSE)
    BY <1>1 DEF check_fat_arch, A, N, Twice
  <2>2. handed' = << >>
    BY <1>1 DEF Checked
  <2>3. bin' = "nm" /\ pc' = "check" => \A n \in 1..i' : check_fat_arch(n, FALSE)'
    <3> SUFFICES ASSUME bin = "nm", pc' = "check", NEW n \in 1..i'
                 PROVE  check_fat_arch(n, FALSE)
      BY <1>1, <2>1
    <3>0. i' = i + 1 /\ check_fat_arch(i + 1, FALSE)
      BY <1>2
    <3>1. n \in 1..i \/ n = i + 1
      BY <1>1, <3>0
    <3>2. \A m \in 1..i : check_fat_arch(m, FALSE)
      BY <1>1 DEF Checked
    <3> QED BY <3>0, <3>1, <3>2
  <2>4. bin' = "nm" /\ pc' \in {"choose", "all", "flags", "done"} =>
          \A n \in 1..N' : check_fat_arch(n, FALSE)'
    <3>1. pc' = "choose" => i = N
      BY <1>2
    <3>2. N' = N
      BY <1>1 DEF N
    <3> QED BY <1>1, <1>2, <2>1, <3>1, <3>2 DEF Checked
  <2> QED BY <2>2, <2>3, <2>4 DEF Checked
<1> QED BY <1>3, <1>4, <1>5, <1>6 DEF IInv

\* A step behind the check leaves the soundness of the slices as it is.
LEMMA CheckedKeeps ==
  ASSUME Checked, UNCHANGED input, pc \in {"choose", "all", "flags", "done"},
         pc' \in {"all", "flags", "done"}
  PROVE  Checked'
<1>1. /\ N' = N /\ bin' = bin
      /\ \A n : check_fat_arch(n, FALSE)' = check_fat_arch(n, FALSE)
  BY DEF check_fat_arch, A, N, Twice, input
<1> QED BY <1>1 DEF Checked

LEMMA ChooseKeeps == IInv /\ Choose => IInv'
<1> SUFFICES ASSUME IInv, Choose PROVE IInv'
  OBVIOUS
<1>1. /\ TypeOK /\ Counting /\ SlicesInside /\ Checked
      /\ pc = "choose" /\ i = 0 /\ i' = 0
      /\ UNCHANGED <<file, archs, bin, missing>>
      /\ N \in Nat /\ Len(archs) \in Nat /\ file \in FatFile
  BY CountType, FlagsType DEF IInv, TypeOK, Counting, Choose, input
<1>2. pc' \in {"all", "flags", "done"}
  BY DEF Choose
<1>3. /\ handed' \in Seq(HandedSlice)
      /\ \A j \in DOMAIN handed' : handed'[j].n \in 1..N
      /\ SlicesInside'
  <2>1. CASE handed' = handed
    BY <1>1, <2>1 DEF TypeOK, SlicesInside, A
  <2>2. CASE \E n \in Best : HandOn(n, FALSE, A(n).cputype)
    <3>1. PICK n \in Best : HandOn(n, FALSE, A(n).cputype)
      BY <2>2
    <3>2. n \in 1..N
      BY DEF Best
    <3>3. A(n).cputype \in Int
      BY <1>1, <3>2, SliceType
    <3> QED BY <1>1, <3>1, <3>2, <3>3, HandOnKeeps
  <2> QED BY <2>1, <2>2 DEF Choose
<1>4. TypeOK'
  BY <1>1, <1>2, <1>3 DEF TypeOK, N
<1>5. Counting'
  BY <1>1, <1>2 DEF Counting, N
<1>6. Checked'
  BY <1>1, <1>2, CheckedKeeps DEF input
<1> QED BY <1>3, <1>4, <1>5, <1>6 DEF IInv

LEMMA AllSlicesKeeps == IInv /\ AllSlices => IInv'
<1> SUFFICES ASSUME IInv, AllSlices PROVE IInv'
  OBVIOUS
<1>1. /\ TypeOK /\ Counting /\ SlicesInside /\ Checked
      /\ pc = "all" /\ N \in Nat /\ i \in 0..N /\ file \in FatFile
      /\ UNCHANGED <<file, archs, bin, missing>>
  BY CountType DEF IInv, TypeOK, Counting, AllSlices, input
<1>2. \/ pc' = "done" /\ i' = i /\ handed' = handed
      \/ /\ pc' = "all" /\ i' = i + 1 /\ i + 1 \in 1..N
         /\ \/ HandOn(i + 1, TRUE, A(i + 1).cputype)
            \/ handed' = handed
  <2>1. CASE i = N
    BY <1>1, <2>1 DEF AllSlices
  <2>2. CASE i # N
    <3>1. i + 1 \in 1..N
      BY <1>1, <2>2
    <3> QED BY <1>1, <2>2, <3>1 DEF AllSlices
  <2> QED BY <2>1, <2>2
<1>3. /\ handed' \in Seq(HandedSlice)
      /\ \A j \in DOMAIN handed' : handed'[j].n \in 1..N
      /\ SlicesInside'
  <2>1. CASE handed' = handed
    BY <1>1, <2>1 DEF TypeOK, SlicesInside, A
  <2>2. CASE i + 1 \in 1..N /\ HandOn(i + 1, TRUE, A(i + 1).cputype)
    <3>1. A(i + 1).cputype \in Int
      BY <1>1, <2>2, SliceType
    <3> QED BY <1>1, <2>2, <3>1, HandOnKeeps
  <2> QED BY <1>2, <2>1, <2>2
<1>9. pc' \in {"all", "done"} /\ i' \in 0..N /\ i' \in Nat
  <2>1. pc' \in {"all", "done"} /\ (i' = i \/ (i' = i + 1 /\ i + 1 \in 1..N))
    BY <1>2
  <2> QED BY <1>1, <2>1
<1>4. TypeOK'
  BY <1>1, <1>3, <1>9 DEF TypeOK, N
<1>5. Counting'
  BY <1>1, <1>9 DEF Counting, N
<1>6. Checked'
  BY <1>1, <1>2, CheckedKeeps DEF input
<1> QED BY <1>3, <1>4, <1>5, <1>6 DEF IInv

LEMMA EndFlagsKeeps == IInv /\ EndFlags => IInv'
<1> SUFFICES ASSUME IInv, EndFlags PROVE IInv'
  OBVIOUS
<1>1. /\ TypeOK /\ Counting /\ SlicesInside /\ Checked
      /\ pc = "flags" /\ pc' = "done"
      /\ UNCHANGED <<file, archs, bin, i, missing, handed>>
  BY DEF IInv, EndFlags, input
<1>2. TypeOK'
  BY <1>1 DEF TypeOK, N
<1>3. Counting' /\ SlicesInside'
  BY <1>1 DEF Counting, SlicesInside, A
<1>4. Checked'
  BY <1>1, CheckedKeeps DEF input
<1> QED BY <1>2, <1>3, <1>4 DEF IInv

LEMMA FlagMissingKeeps == IInv /\ FlagMissing => IInv'
<1> SUFFICES ASSUME IInv, FlagMissing PROVE IInv'
  OBVIOUS
<1>1. /\ TypeOK /\ Counting /\ SlicesInside /\ Checked
      /\ pc = "flags" /\ pc' = "flags" /\ i < Len(archs) /\ i' = i + 1
      /\ missing' = missing \cup {archs[i + 1]}
      /\ UNCHANGED <<file, archs, bin, handed>>
      /\ i \in 0..Len(archs) /\ Len(archs) \in Nat /\ DOMAIN archs = 1..Len(archs)
  BY FlagsType DEF IInv, Counting, FlagMissing, input
<1>2. i + 1 \in DOMAIN archs
  BY <1>1
<1>3. TypeOK'
  BY <1>1, <1>2 DEF TypeOK, N
<1>4. Counting'
  BY <1>1 DEF Counting
<1>5. SlicesInside'
  BY <1>1 DEF SlicesInside, A
<1>6. Checked'
  BY <1>1, CheckedKeeps DEF input
<1> QED BY <1>3, <1>4, <1>5, <1>6 DEF IInv

LEMMA FlagSliceKeeps == IInv /\ FlagSlice => IInv'
<1> SUFFICES ASSUME IInv, FlagSlice PROVE IInv'
  OBVIOUS
<1>1. /\ TypeOK /\ Counting /\ SlicesInside /\ Checked
      /\ pc = "flags" /\ pc' = "flags" /\ i < Len(archs) /\ i' = i + 1
      /\ UNCHANGED <<file, archs, bin, missing>> /\ file \in FatFile
      /\ i \in 0..Len(archs) /\ Len(archs) \in Nat
  BY FlagsType DEF IInv, TypeOK, Counting, FlagSlice, input
<1>2. PICK n \in 1..N :
        HandOn(n, Len(archs) > 1, IF A(n).kind = "MH" THEN A(n).hdcpu ELSE 0)
  BY DEF FlagSlice
<1>3. (IF A(n).kind = "MH" THEN A(n).hdcpu ELSE 0) \in Int
  BY <1>1, SliceType
<1>4. (Len(archs) > 1) \in BOOLEAN
  OBVIOUS
<1>5. /\ handed' \in Seq(HandedSlice)
      /\ \A j \in DOMAIN handed' : handed'[j].n \in 1..N
      /\ SlicesInside'
  BY <1>1, <1>2, <1>3, <1>4, HandOnKeeps
<1>6. TypeOK'
  BY <1>1, <1>5 DEF TypeOK, N
<1>7. Counting'
  BY <1>1 DEF Counting
<1>8. Checked'
  BY <1>1, CheckedKeeps DEF input
<1> QED BY <1>5, <1>6, <1>7, <1>8 DEF IInv

LEMMA StepKeeps == IInv /\ [Next]_vars => IInv'
<1>1. IInv /\ UNCHANGED vars => IInv'
  <2> SUFFICES ASSUME IInv, UNCHANGED vars PROVE IInv'
    OBVIOUS
  <2>1. UNCHANGED <<file, archs, bin, pc, i, missing, handed>>
    BY DEF vars
  <2>2. \A n : check_fat_arch(n, FALSE)' = check_fat_arch(n, FALSE)
    BY <2>1 DEF check_fat_arch, A, N, Twice
  <2>3. TypeOK' /\ Counting' /\ SlicesInside'
    BY <2>1 DEF IInv, TypeOK, Counting, SlicesInside, A, N
  <2>4. Checked'
    BY <2>1, <2>2 DEF IInv, Checked, N
  <2> QED BY <2>3, <2>4 DEF IInv
<1> QED BY <1>1, CheckArchKeeps, ChooseKeeps, AllSlicesKeeps, EndFlagsKeeps,
           FlagMissingKeeps, FlagSliceKeeps DEF Next, Step

LEMMA Invariance == Spec => []IInv
BY InitIInv, StepKeeps, PTL DEF Spec

-----------------------------------------------------------------------------
(* Theorems *)

\* The walk over the slices keeps its types: every slice handed on is one of
\* the file, every architecture reported missing is one that was asked for.
THEOREM FatTypeCorrect == Spec => []TypeOK
<1>1. IInv => TypeOK
  BY DEF IInv
<1> QED BY <1>1, Invariance, PTL

\* Whatever offsets and sizes the fat header claims, in integers of any width,
\* and whichever of the three ways handle_fat_file takes, what is handed on to
\* handle_macho_file or handle_archive_file lies inside the file.
THEOREM HandedInside == Spec => []SlicesInside
<1>1. IInv => SlicesInside
  BY DEF IInv
<1> QED BY <1>1, Invariance, PTL

\* One malformed slice keeps nm from listing any of the others, however many
\* slices there are and whichever were asked for.
THEOREM NothingOfABadFile == Spec => []AllOrNothing
<1>1. IInv => AllOrNothing
  <2> SUFFICES ASSUME IInv, bin = "nm", handed # << >>, NEW n \in 1..N,
                      A(n).kind \in {"MH", "ARCHIVE"}
               PROVE  A(n).ok
    BY DEF AllOrNothing
  <2>1. pc \in {"all", "flags", "done"}
    BY DEF IInv, TypeOK, Checked
  <2>2. check_fat_arch(n, FALSE)
    BY <2>1 DEF IInv, Checked
  <2> QED BY <2>2 DEF check_fat_arch
<1> QED BY <1>1, Invariance, PTL

-----------------------------------------------------------------------------
(* Which slices are handed on *)

Matches(n, name) == Cpu(A(n)) = Cpu(Info(name))
FirstOf(n, name) == Matches(n, name) /\ \A m \in 1..N : Matches(m, name) => n <= m

Got    == {handed[j].n : j \in DOMAIN handed}
Fits(n)   == Suits(n) /\ A(n).offset <= file.fsize
Usable(n) == Suits(n) /\ A(n).offset < file.fsize /\ Known(n)

\* The slice of this machine is not given up for all slices.
Native == Best # {} /\ \A n \in Best : A(n).offset < file.fsize

\* What has been handed on, at every stage of each of the three ways.
Exact ==
  /\ pc \in {"check", "choose"} => handed = << >>
  /\ pc = "all" =>
       /\ AllArchs(archs) /\ (archs = << >> => ~Native)
       /\ \A n \in 1..N : n \in Got <=> n <= i /\ Usable(n)
  /\ pc = "flags" =>
       /\ ~AllArchs(archs)
       /\ \A n \in 1..N : n \in Got <=> Fits(n) /\ \E k \in 1..i : FirstOf(n, archs[k])
  /\ pc = "done" =>
       \/ /\ archs = << >>
          /\ \E n \in Best : /\ A(n).offset < file.fsize
                             /\ \A m \in 1..N : m \in Got <=> m = n /\ Usable(m)
       \/ /\ AllArchs(archs) /\ (archs = << >> => ~Native)
          /\ \A n \in 1..N : n \in Got <=> Usable(n)
       \/ /\ ~AllArchs(archs)
          /\ \A n \in 1..N :
               n \in Got <=> Fits(n) /\ \E k \in 1..Len(archs) : FirstOf(n, archs[k])

Distinct == \A j, l \in DOMAIN handed : handed[j].n = handed[l].n => j = l

\* No slice is handed on twice.
NoneTwice == AllArchs(archs) \/ AskedOnce => Distinct

SInv == IInv /\ Exact /\ NoneTwice

\* The file and what is asked of it stay, and with them what every slice is.
LEMMA SameFile ==
  ASSUME UNCHANGED input
  PROVE  /\ N' = N /\ Best' = Best /\ (Native' <=> Native) /\ (AskedOnce' <=> AskedOnce)
         /\ \A n : A(n)' = A(n) /\ (Fits(n)' <=> Fits(n)) /\ (Usable(n)' <=> Usable(n))
         /\ \A n, name : FirstOf(n, name)' <=> FirstOf(n, name)
<1>1. file' = file /\ archs' = archs /\ bin' = bin
  BY DEF input
<1>2. N' = N /\ \A n : A(n)' = A(n)
  BY <1>1 DEF A, N
<1>3. Best' = Best
  BY <1>2 DEF Best
<1>4. \A n : (Suits(n)' <=> Suits(n)) /\ (Known(n)' <=> Known(n))
  BY <1>1, <1>2 DEF Suits, Known
<1>5. \A n : (Fits(n)' <=> Fits(n)) /\ (Usable(n)' <=> Usable(n))
  BY <1>1, <1>2, <1>4 DEF Fits, Usable
<1>6. Native' <=> Native
  BY <1>1, <1>2, <1>3 DEF Native
<1>7. AskedOnce' <=> AskedOnce
  BY <1>1 DEF AskedOnce
<1>8. \A n, name : FirstOf(n, name)' <=> FirstOf(n, name)
  BY <1>2 DEF FirstOf, Matches
<1> QED BY <1>2, <1>3, <1>5, <1>6, <1>7, <1>8

\* A slice is added to those handed on exactly if it fits, and one that is new
\* to them makes none come twice.
LEMMA HandOnAdds ==
  ASSUME handed \in Seq(HandedSlice), NEW n, NEW label, NEW cputype,
         Slice(n, label, cputype) \in HandedSlice, HandOn(n, label, cputype)
  PROVE  /\ \A m : m \in Got' <=> m \in Got \/ (m = n /\ Fits(n))
         /\ Distinct /\ n \notin Got => Distinct'
<1> DEFINE s == Slice(n, label, cputype)
<1>1. CASE Fits(n)
  <2>1. handed' = Append(handed, s)
    BY <1>1 DEF HandOn, Fits
  <2>2. s.n = n
    BY DEF Slice
  <2> HIDE DEF s
  <2>3. /\ Len(handed) \in Nat /\ DOMAIN handed = 1..Len(handed)
        /\ DOMAIN handed' = 1..(Len(handed) + 1)
        /\ \A j \in 1..Len(handed) : handed'[j] = handed[j]
        /\ handed'[Len(handed) + 1] = s
    BY <2>1 DEF s
  <2>4. /\ \A j \in DOMAIN handed' : j \in DOMAIN handed \/ j = Len(handed) + 1
        /\ \A j \in DOMAIN handed : j \in DOMAIN handed'
        /\ Len(handed) + 1 \in DOMAIN handed'
    BY <2>3
  <2>5. \A m : m \in Got' <=> m \in Got \/ m = n
    BY <2>2, <2>3, <2>4 DEF Got
  <2>6. ASSUME Distinct, n \notin Got PROVE Distinct'
    <3> SUFFICES ASSUME NEW j \in DOMAIN handed', NEW l \in DOMAIN handed',
                        handed'[j].n = handed'[l].n
                 PROVE  j = l
      BY DEF Distinct
    <3>1. \A k \in DOMAIN handed : handed'[k] = handed[k] /\ handed[k].n # n
      BY <2>3, <2>6 DEF Got
    <3>2. CASE j \in DOMAIN handed /\ l \in DOMAIN handed
      BY <2>6, <3>1, <3>2 DEF Distinct
    <3>3. CASE j = Len(handed) + 1 /\ l = Len(handed) + 1
      BY <3>3
    <3>4. CASE j \in DOMAIN handed /\ l = Len(handed) + 1
      BY <2>2, <2>3, <3>1, <3>4
    <3>5. CASE j = Len(handed) + 1 /\ l \in DOMAIN handed
      BY <2>2, <2>3, <3>1, <3>5
    <3> QED BY <2>4, <3>2, <3>3, <3>4, <3>5
  <2> QED BY <1>1, <2>5, <2>6
<1>2. CASE ~Fits(n)
  BY <1>2 DEF HandOn, Fits, Got, Distinct
<1> QED BY <1>1, <1>2

\* A slice of this machine's cputype is one the table knows.
LEMMA NativeIsKnown ==
  ASSUME NEW n \in Best
  PROVE  n \in 1..N /\ Known(n)
BY HostAssumption DEF Best, Known

LEMMA InitSInv == Init => SInv
<1> SUFFICES ASSUME Init PROVE SInv
  OBVIOUS
<1>1. handed = << >> /\ DOMAIN handed = {} /\ pc \in {"check", "choose"}
  BY DEF Init
<1>2. Exact
  BY <1>1 DEF Exact
<1>3. NoneTwice
  BY <1>1 DEF NoneTwice, Distinct
<1> QED BY <1>2, <1>3, InitIInv DEF SInv

\* The slices before the loop that ends at i, and the one it adds.
LEMMA OneMore ==
  ASSUME NEW m \in Nat, NEW n \in Nat
  PROVE  /\ n <= m + 1 <=> n <= m \/ n = m + 1
         /\ ~(m + 1 <= m)
         /\ \A k : k \in 1..(m + 1) <=> k \in 1..m \/ k = m + 1
  OBVIOUS

LEMMA CheckArchExact == SInv /\ CheckArch => Exact' /\ NoneTwice'
<1> SUFFICES ASSUME SInv, CheckArch PROVE Exact' /\ NoneTwice'
  OBVIOUS
<1>1. pc' \in {"refused", "check", "choose"} /\ handed' = handed /\ handed = << >>
  BY DEF CheckArch, SInv, Exact
<1>2. DOMAIN handed' = {}
  BY <1>1
<1> QED BY <1>1, <1>2 DEF Exact, NoneTwice, Distinct

\* The types of a state in which slices may be handed on.
LEMMA Handing ==
  ASSUME SInv
  PROVE  /\ file \in FatFile /\ handed \in Seq(HandedSlice) /\ Len(archs) \in Nat
         /\ N \in Nat /\ Exact /\ NoneTwice
         /\ \A n \in 1..N, label \in BOOLEAN, cputype \in Int :
              Slice(n, label, cputype) \in HandedSlice
         /\ \A n \in 1..N : A(n).cputype \in Int /\ A(n).hdcpu \in Int
         /\ Got \subseteq 1..N
<1>1. /\ TypeOK /\ Counting /\ Exact /\ NoneTwice
      /\ file \in FatFile /\ handed \in Seq(HandedSlice) /\ N \in Nat /\ Len(archs) \in Nat
  BY CountType, FlagsType DEF SInv, IInv, TypeOK, Counting
<1>2. ASSUME NEW n \in 1..N, NEW label \in BOOLEAN, NEW cputype \in Int
      PROVE  Slice(n, label, cputype) \in HandedSlice
  <2>1. Clamp(n) \in Int /\ n \in Nat \ {0}
    BY <1>1, SliceType
  <2> QED BY <2>1 DEF Slice, HandedSlice
<1>3. \A n \in 1..N : A(n).cputype \in Int /\ A(n).hdcpu \in Int
  BY <1>1, SliceType
<1>4. Got \subseteq 1..N
  BY <1>1 DEF Got, TypeOK
<1> QED BY <1>1, <1>2, <1>3, <1>4

LEMMA ChooseExact == SInv /\ Choose => Exact' /\ NoneTwice'
<1> SUFFICES ASSUME SInv, Choose PROVE Exact' /\ NoneTwice'
  OBVIOUS
<1>1. /\ pc = "choose" /\ i' = i /\ UNCHANGED input /\ i = 0
      /\ archs' = archs /\ bin' = bin /\ handed = << >> /\ Got = {} /\ Distinct
  BY DEF Choose, input, SInv, IInv, Counting, Exact, Got, Distinct
<1>2. /\ N' = N /\ Best' = Best /\ (Native' <=> Native)
      /\ \A n : A(n)' = A(n) /\ (Fits(n)' <=> Fits(n)) /\ (Usable(n)' <=> Usable(n))
      /\ file' = file /\ N \in Nat
  BY <1>1, SameFile, Handing DEF input
<1>3. CASE /\ archs = << >> /\ pc' = "done"
           /\ \E n \in Best : A(n).offset < file.fsize /\ HandOn(n, FALSE, A(n).cputype)
  <2>1. PICK n \in Best : A(n).offset < file.fsize /\ HandOn(n, FALSE, A(n).cputype)
    BY <1>3
  <2>2. n \in 1..N /\ Known(n)
    BY NativeIsKnown
  <2>3. A(n).offset \in Nat /\ file.fsize \in Nat
    BY <2>2, SliceType, Handing
  <2>4. Fits(n) <=> Usable(n)
    BY <2>1, <2>2, <2>3 DEF Fits, Usable
  <2>5. /\ \A m : m \in Got' <=> m \in Got \/ (m = n /\ Fits(n))
        /\ Distinct /\ n \notin Got => Distinct'
    <3>1. Slice(n, FALSE, A(n).cputype) \in HandedSlice /\ handed \in Seq(HandedSlice)
      BY <2>2, Handing
    <3> QED BY <2>1, <3>1, HandOnAdds
  <2>6. \A m \in 1..N : m \in Got' <=> m = n /\ Usable(m)
    BY <1>1, <2>4, <2>5
  <2>7. \E q \in Best' : /\ A(q)'.offset < file'.fsize
                         /\ \A m \in 1..N' : m \in Got' <=> m = q /\ Usable(m)'
    BY <1>2, <2>1, <2>6
  <2> QED BY <1>1, <1>3, <2>5, <2>7 DEF Exact, NoneTwice
<1>4. CASE /\ archs = << >> => Best = {} \/ \E n \in Best : A(n).offset >= file.fsize
           /\ pc' = (IF AllArchs(archs) THEN "all" ELSE "flags")
           /\ handed' = handed
  <2>1. Got' = {} /\ Distinct'
    BY <1>1, <1>4 DEF Got, Distinct
  <2>2. archs = << >> => ~Native
    <3>1. \A n \in Best : A(n).offset \in Nat /\ file.fsize \in Nat
      BY NativeIsKnown, SliceType, Handing
    <3>2. \A n \in Best : A(n).offset >= file.fsize => ~(A(n).offset < file.fsize)
      BY <3>1
    <3> QED BY <1>4, <3>2 DEF Native
  <2>3. \A n \in 1..N : ~(n <= 0)
    OBVIOUS
  <2>4. \A k \in 1..0 : FALSE
    OBVIOUS
  <2> QED BY <1>1, <1>2, <1>4, <2>1, <2>2, <2>3, <2>4 DEF Exact, NoneTwice
<1> QED BY <1>3, <1>4 DEF Choose

LEMMA AllSlicesExact == SInv /\ AllSlices => Exact' /\ NoneTwice'
<1> SUFFICES ASSUME SInv, AllSlices PROVE Exact' /\ NoneTwice'
  OBVIOUS
<1>1. /\ pc = "all" /\ UNCHANGED input /\ archs' = archs /\ bin' = bin /\ i \in 0..N
      /\ AllArchs(archs) /\ (archs = << >> => ~Native)
      /\ \A n \in 1..N : n \in Got <=> n <= i /\ Usable(n)
  BY DEF AllSlices, input, SInv, IInv, Counting, Exact
<1>2. /\ N' = N /\ (Native' <=> Native) /\ (AskedOnce' <=> AskedOnce)
      /\ \A n : Usable(n)' <=> Usable(n)
  BY <1>1, SameFile
<1>3. N \in Nat /\ i \in Nat /\ NoneTwice /\ Got \subseteq 1..N
  BY <1>1, Handing
<1>4. CASE i = N
  <2>1. pc' = "done" /\ i' = i /\ handed' = handed
    BY <1>1, <1>4 DEF AllSlices
  <2>2. Got' = Got /\ (Distinct' <=> Distinct)
    BY <2>1 DEF Got, Distinct
  <2>3. \A n \in 1..N : n \in Got <=> Usable(n)
    BY <1>1, <1>3, <1>4
  <2>4. Exact'
    BY <1>1, <1>2, <2>1, <2>2, <2>3 DEF Exact
  <2> QED BY <1>1, <1>2, <1>3, <2>2, <2>4 DEF NoneTwice
<1>5. CASE i # N
  <2>1. pc' = "all" /\ i' = i + 1 /\ i + 1 \in 1..N
    BY <1>1, <1>3, <1>5 DEF AllSlices
  <2>2. i + 1 \notin Got
    BY <1>1, <1>3, <2>1
  <2>3. /\ \A m : m \in Got' <=> m \in Got \/ (m = i + 1 /\ Usable(i + 1))
        /\ Distinct => Distinct'
    <3>1. CASE Known(i + 1) /\ A(i + 1).offset < file.fsize
      <4>1. HandOn(i + 1, TRUE, A(i + 1).cputype)
        BY <1>1, <1>5, <3>1 DEF AllSlices
      <4>2. /\ Slice(i + 1, TRUE, A(i + 1).cputype) \in HandedSlice
            /\ handed \in Seq(HandedSlice)
        BY <2>1, Handing
      <4>3. A(i + 1).offset \in Nat /\ file.fsize \in Nat
        BY <2>1, SliceType, Handing
      <4>4. Fits(i + 1) <=> Usable(i + 1)
        BY <3>1, <4>3 DEF Fits, Usable
      <4> QED BY <2>2, <4>1, <4>2, <4>4, HandOnAdds
    <3>2. CASE ~(Known(i + 1) /\ A(i + 1).offset < file.fsize)
      <4>1. handed' = handed
        BY <1>1, <1>5, <3>2 DEF AllSlices
      <4> QED BY <3>2, <4>1 DEF Usable, Got, Distinct
    <3> QED BY <3>1, <3>2
  <2>4. \A n \in 1..N : n \in Got' <=> n <= i + 1 /\ Usable(n)
    <3> SUFFICES ASSUME NEW n \in 1..N PROVE n \in Got' <=> n <= i + 1 /\ Usable(n)
      OBVIOUS
    <3>1. n \in Nat /\ (n <= i + 1 <=> n <= i \/ n = i + 1)
      BY <1>3
    <3> QED BY <1>1, <2>3, <3>1
  <2>5. Exact'
    BY <1>1, <1>2, <2>1, <2>4 DEF Exact
  <2> QED BY <1>1, <1>2, <1>3, <2>3, <2>5 DEF NoneTwice
<1> QED BY <1>4, <1>5

LEMMA EndFlagsExact == SInv /\ EndFlags => Exact' /\ NoneTwice'
<1> SUFFICES ASSUME SInv, EndFlags PROVE Exact' /\ NoneTwice'
  OBVIOUS
<1>1. /\ pc = "flags" /\ pc' = "done" /\ i = Len(archs) /\ handed' = handed
      /\ UNCHANGED input /\ archs' = archs /\ bin' = bin /\ Exact /\ NoneTwice
  BY DEF EndFlags, input, SInv
<1>2. /\ N' = N /\ (AskedOnce' <=> AskedOnce) /\ \A n : Fits(n)' <=> Fits(n)
      /\ \A n, name : FirstOf(n, name)' <=> FirstOf(n, name)
  BY <1>1, SameFile
<1>3. Got' = Got /\ (Distinct' <=> Distinct)
  BY <1>1 DEF Got, Distinct
<1>4. Exact'
  BY <1>1, <1>2, <1>3 DEF Exact
<1> QED BY <1>1, <1>2, <1>3, <1>4 DEF NoneTwice

\* A flag whose architecture no slice has leaves what is handed on as it is.
LEMMA FlagMissingExact == SInv /\ FlagMissing => Exact' /\ NoneTwice'
<1> SUFFICES ASSUME SInv, FlagMissing PROVE Exact' /\ NoneTwice'
  OBVIOUS
<1>1. /\ pc = "flags" /\ pc' = "flags" /\ i' = i + 1 /\ handed' = handed
      /\ UNCHANGED input /\ archs' = archs /\ bin' = bin /\ Exact /\ NoneTwice
      /\ i \in Nat /\ get_corr_fat_arch(archs[i + 1]) = {}
  BY Handing DEF FlagMissing, input, SInv, IInv, Counting
<1>2. /\ N' = N /\ (AskedOnce' <=> AskedOnce) /\ \A n : Fits(n)' <=> Fits(n)
      /\ \A n, name : FirstOf(n, name)' <=> FirstOf(n, name)
  BY <1>1, SameFile
<1>3. Got' = Got /\ (Distinct' <=> Distinct)
  BY <1>1 DEF Got, Distinct
<1>4. \A n \in 1..N : (\E k \in 1..(i + 1) : FirstOf(n, archs[k]))
                      <=> \E k \in 1..i : FirstOf(n, archs[k])
  <2>1. \A n \in 1..N : ~FirstOf(n, archs[i + 1])
    BY <1>1 DEF get_corr_fat_arch, FirstOf, Matches
  <2>2. \A k : k \in 1..(i + 1) <=> k \in 1..i \/ k = i + 1
    BY <1>1
  <2> QED BY <2>1, <2>2
<1>5. Exact'
  BY <1>1, <1>2, <1>3, <1>4 DEF Exact
<1> QED BY <1>1, <1>2, <1>3, <1>5 DEF NoneTwice

LEMMA FlagSliceExact == SInv /\ FlagSlice => Exact' /\ NoneTwice'
<1> SUFFICES ASSUME SInv, FlagSlice PROVE Exact' /\ NoneTwice'
  OBVIOUS
<1>1. /\ pc = "flags" /\ pc' = "flags" /\ i' = i + 1
      /\ UNCHANGED input /\ archs' = archs /\ bin' = bin /\ Exact /\ NoneTwice
      /\ i \in Nat /\ ~AllArchs(archs) /\ i + 1 \in DOMAIN archs
      /\ DOMAIN archs = 1..Len(archs) /\ N \in Nat
  <2>1. pc = "flags" /\ i < Len(archs) /\ Exact /\ i \in 0..Len(archs)
    BY DEF FlagSlice, SInv, IInv, Counting
  <2>2. Len(archs) \in Nat /\ DOMAIN archs = 1..Len(archs)
    BY FlagsType DEF SInv, IInv, Counting
  <2>3. i + 1 \in DOMAIN archs
    BY <2>1, <2>2
  <2> QED BY <2>1, <2>2, <2>3, Handing DEF FlagSlice, input, SInv, Exact
<1>2. /\ N' = N /\ (AskedOnce' <=> AskedOnce) /\ \A n : Fits(n)' <=> Fits(n)
      /\ \A n, name : FirstOf(n, name)' <=> FirstOf(n, name)
  BY <1>1, SameFile
<1>3. PICK n \in 1..N :
        /\ First(n, get_corr_fat_arch(archs[i + 1]))
        /\ HandOn(n, Len(archs) > 1, IF A(n).kind = "MH" THEN A(n).hdcpu ELSE 0)
  BY DEF FlagSlice
<1>4. FirstOf(n, archs[i + 1])
  BY <1>3 DEF First, get_corr_fat_arch, FirstOf, Matches
<1>5. /\ \A m : m \in Got' <=> m \in Got \/ (m = n /\ Fits(n))
      /\ Distinct /\ n \notin Got => Distinct'
  <2> DEFINE cputype == IF A(n).kind = "MH" THEN A(n).hdcpu ELSE 0
             label == Len(archs) > 1
  <2>1. cputype \in Int /\ label \in BOOLEAN /\ handed \in Seq(HandedSlice)
    BY Handing
  <2> HIDE DEF cputype, label
  <2>2. Slice(n, label, cputype) \in HandedSlice
    BY <2>1, Handing
  <2>3. HandOn(n, label, cputype)
    BY <1>3 DEF label, cputype
  <2> QED BY <2>1, <2>2, <2>3, HandOnAdds
<1>6. \A m \in 1..N : FirstOf(m, archs[i + 1]) => m = n
  <2> SUFFICES ASSUME NEW m \in 1..N, FirstOf(m, archs[i + 1]) PROVE m = n
    OBVIOUS
  <2>1. m <= n /\ n <= m
    BY <1>4 DEF FirstOf
  <2> QED BY <1>1, <2>1
<1>7. \A m \in 1..N : m \in Got <=> Fits(m) /\ \E k \in 1..i : FirstOf(m, archs[k])
  BY <1>1 DEF Exact
<1>8. \A k : k \in 1..(i + 1) <=> k \in 1..i \/ k = i + 1
  BY <1>1
<1>9. \A m \in 1..N :
        m \in Got' <=> Fits(m) /\ \E k \in 1..(i + 1) : FirstOf(m, archs[k])
  BY <1>4, <1>5, <1>6, <1>7, <1>8
<1>10. Exact'
  BY <1>1, <1>2, <1>9 DEF Exact
<1>11. AskedOnce => n \notin Got
  <2> SUFFICES ASSUME AskedOnce, n \in Got PROVE FALSE
    OBVIOUS
  <2>1. PICK k \in 1..i : FirstOf(n, archs[k])
    BY <1>3, <1>7
  <2>2. k \in DOMAIN archs /\ k # i + 1
    BY <1>1, <2>1
  <2>3. Cpu(Info(archs[k])) = Cpu(Info(archs[i + 1]))
    BY <1>4, <2>1 DEF FirstOf, Matches
  <2> QED BY <1>1, <2>2, <2>3 DEF AskedOnce
<1>12. NoneTwice'
  BY <1>1, <1>2, <1>5, <1>11 DEF NoneTwice
<1> QED BY <1>10, <1>12

LEMMA StepSInv == SInv /\ [Next]_vars => SInv'
<1> SUFFICES ASSUME SInv, [Next]_vars PROVE SInv'
  OBVIOUS
<1>1. IInv'
  BY StepKeeps DEF SInv
<1>2. CASE UNCHANGED vars
  <2>1. /\ UNCHANGED input /\ pc' = pc /\ i' = i /\ handed' = handed
        /\ archs' = archs /\ bin' = bin /\ file' = file
    BY <1>2 DEF vars, input
  <2>2. Got' = Got /\ (Distinct' <=> Distinct)
    BY <2>1 DEF Got, Distinct
  <2>3. Exact'
    BY <2>1, <2>2, SameFile DEF SInv, Exact
  <2>4. NoneTwice'
    BY <2>1, <2>2, SameFile DEF SInv, NoneTwice
  <2> QED BY <1>1, <2>3, <2>4 DEF SInv
<1>3. CASE Step
  <2>1. Exact' /\ NoneTwice'
    BY <1>3, CheckArchExact, ChooseExact, AllSlicesExact, EndFlagsExact,
       FlagMissingExact, FlagSliceExact DEF Step
  <2> QED BY <1>1, <2>1 DEF SInv
<1> QED BY <1>2, <1>3 DEF Next

LEMMA ExactInvariance == Spec => []SInv
BY InitSInv, StepSInv, PTL DEF Spec

-----------------------------------------------------------------------------
(* Theorems about which slices *)

\* With -arch what has been handed on is the first slice of an architecture.
LEMMA NamedAreFirst ==
  ASSUME SInv, ~AllArchs(archs), NEW n \in Got
  PROVE  n \in 1..N /\ \E k : FirstOf(n, archs[k])
<1>1. n \in 1..N /\ handed # << >> /\ pc \in {"all", "flags", "done"}
  BY Handing DEF Got, SInv, IInv, TypeOK, Checked
<1>2. archs # << >>
  BY DEF AllArchs
<1> QED BY <1>1, <1>2 DEF SInv, Exact

\* nm hands on each architecture of its table once, as check_fat_file tells them
\* apart, and what -arch names is handed on once even if the fat file has several
\* slices that only differ in capability bits.
THEOREM EachAtMostOnce == Spec => []EachOnce
<1>1. SInv => EachOnce
  <2> SUFFICES ASSUME SInv PROVE EachOnce
    OBVIOUS
  <2>1. ASSUME bin = "nm", AllArchs(archs),
               NEW j \in DOMAIN handed, NEW l \in DOMAIN handed,
               A(handed[j].n).cputype = A(handed[l].n).cputype,
               A(handed[j].n).cpusubtype = A(handed[l].n).cpusubtype
        PROVE  j = l
    <3>1. Distinct
      BY <2>1 DEF SInv, NoneTwice
    <3>2. handed[j].n \in 1..N /\ handed[l].n \in 1..N /\ handed # << >>
      BY DEF SInv, IInv, TypeOK
    <3>3. pc \in {"all", "flags", "done"}
      BY <3>2 DEF SInv, IInv, TypeOK, Checked
    <3>4. ~Twice(handed[j].n)
      BY <2>1, <3>2, <3>3 DEF SInv, IInv, Checked, check_fat_arch
    <3>5. handed[l].n = handed[j].n
      BY <2>1, <3>2, <3>4 DEF Twice
    <3> QED BY <3>1, <3>5 DEF Distinct
  <2>2. ASSUME ~AllArchs(archs), AskedOnce,
               NEW j \in DOMAIN handed, NEW l \in DOMAIN handed,
               Cpu(A(handed[j].n)) = Cpu(A(handed[l].n))
        PROVE  j = l
    <3>1. Distinct
      BY <2>2 DEF SInv, NoneTwice
    <3>2. PICK n \in Got : n = handed[j].n
      BY DEF Got
    <3>3. PICK m \in Got : m = handed[l].n
      BY DEF Got
    <3>4. n \in 1..N /\ \E k : FirstOf(n, archs[k])
      BY <2>2, NamedAreFirst
    <3>5. m \in 1..N /\ \E k : FirstOf(m, archs[k])
      BY <2>2, NamedAreFirst
    <3>6. Cpu(A(n)) = Cpu(A(m))
      BY <2>2, <3>2, <3>3
    <3>7. n <= m
      BY <3>4, <3>5, <3>6 DEF FirstOf, Matches
    <3>8. m <= n
      BY <3>4, <3>5, <3>6 DEF FirstOf, Matches
    <3>9. n = m
      BY <3>4, <3>5, <3>7, <3>8
    <3> QED BY <3>1, <3>2, <3>3, <3>9 DEF Distinct
  <2> QED BY <2>1, <2>2 DEF EachOnce
<1> QED BY <1>1, ExactInvariance, PTL

\* For every fat file, table of architectures and list of -arch flags, what is
\* handed on at the end is what was asked for: the slice of this machine, all
\* usable slices, or the first slice of each architecture named, by nm and by otool.
THEOREM AlwaysTheRightSlices == Spec => []RightSlices
<1>1. SInv => RightSlices
  <2> SUFFICES ASSUME SInv, pc = "done" PROVE RightSlices
    BY DEF RightSlices
  <2> DEFINE usable == {n \in 1..N : Suits(n) /\ A(n).offset < file.fsize /\ Known(n)}
             native == {n \in Best : A(n).offset < file.fsize}
             named  == {n \in 1..N : /\ \A m \in 1..(n - 1) : Cpu(A(m)) # Cpu(A(n))
                                     /\ \E j \in DOMAIN archs :
                                          Cpu(A(n)) = Cpu(Info(archs[j]))}
  <2>1. Got \subseteq 1..N /\ usable \subseteq 1..N /\ Best \subseteq 1..N
    BY Handing, NativeIsKnown
  <2>2. \A n \in 1..N : n \in usable <=> Usable(n)
    BY DEF Usable
  <2>3. Native <=> Best # {} /\ native = Best
    BY DEF Native
  <2>4. \A n \in Best : n \in native <=> A(n).offset < file.fsize
    OBVIOUS
  <2>5. DOMAIN archs = 1..Len(archs)
    BY FlagsType DEF SInv, IInv, Counting
  <2>6. \A n \in 1..N : n \in named <=> \E k \in 1..Len(archs) : FirstOf(n, archs[k])
    <3> SUFFICES ASSUME NEW n \in 1..N
                 PROVE  n \in named <=> \E k \in 1..Len(archs) : FirstOf(n, archs[k])
      OBVIOUS
    <3>1. N \in Nat
      BY Handing
    <3>2. \A m \in 1..N : ~(n <= m) <=> m \in 1..(n - 1)
      BY <3>1
    <3>3. \A m \in 1..(n - 1) : m \in 1..N
      BY <3>1
    <3>4. \A k \in 1..Len(archs) :
            FirstOf(n, archs[k]) <=> /\ Cpu(A(n)) = Cpu(Info(archs[k]))
                                     /\ \A m \in 1..(n - 1) : Cpu(A(m)) # Cpu(A(n))
      BY <3>2, <3>3 DEF FirstOf, Matches
    <3> QED BY <2>5, <3>4
  <2>7. AllArchs(<< >>) /\ AllArchs(<<"all">>)
    BY DEF AllArchs
  <2> HIDE DEF usable, native, named
  <2>8. /\ archs = << >> /\ Best # {} /\ native = Best =>
             \E n \in native : Got = {n} \cap usable
        /\ archs = << >> /\ native = {} => Got = usable
        /\ archs = <<"all">> => Got = usable
        /\ ~AllArchs(archs) => Got = {n \in named : Fits(n)}
    <3>1. CASE /\ archs = << >>
               /\ \E n \in Best : /\ A(n).offset < file.fsize
                                  /\ \A m \in 1..N : m \in Got <=> m = n /\ Usable(m)
      <4>1. PICK n \in Best : /\ A(n).offset < file.fsize
                              /\ \A m \in 1..N : m \in Got <=> m = n /\ Usable(m)
        BY <3>1
      <4>2. n \in native /\ Got = {n} \cap usable
        BY <2>1, <2>2, <2>4, <4>1
      <4>3. archs # <<"all">>
        BY <3>1
      <4> QED BY <2>7, <3>1, <4>2, <4>3
    <3>2. CASE /\ AllArchs(archs) /\ (archs = << >> => ~Native)
               /\ \A n \in 1..N : n \in Got <=> Usable(n)
      <4>1. Got = usable
        BY <2>1, <2>2, <3>2
      <4> QED BY <2>3, <3>2, <4>1
    <3>3. CASE /\ ~AllArchs(archs)
               /\ \A n \in 1..N :
                    n \in Got <=> Fits(n) /\ \E k \in 1..Len(archs) : FirstOf(n, archs[k])
      <4>1. archs # << >> /\ archs # <<"all">>
        BY <2>7, <3>3
      <4>2. named \subseteq 1..N
        BY DEF named
      <4>3. Got = {n \in named : Fits(n)}
        BY <2>1, <2>6, <3>3, <4>2
      <4> QED BY <4>1, <4>3
    <3> QED BY <3>1, <3>2, <3>3 DEF SInv, Exact
  <2> QED BY <2>8 DEF RightSlices, Got, Fits, usable, native, named
<1> QED BY <1>1, ExactInvariance, PTL
=============================================================================
