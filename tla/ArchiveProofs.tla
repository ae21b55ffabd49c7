--------------------------- MODULE ArchiveProofs ---------------------------
(***************************************************************************)
(* Proofs about Archive for every archive, every list of -arch flags and   *)
(* any table of architectures: what the check walk refuses and which flags *)
(* it finds, and what the handle walk hands on.                            *)
(***************************************************************************)
EXTENDS Archive, SequenceTheorems, TLAPS

-----------------------------------------------------------------------------
(* Types *)

Types ==
  /\ file \in Archives /\ archs \in ArchFlags /\ bin \in {"nm", "otool"}
  /\ pc \in {"open", "flag", "check", "handle", "refused", "done"}
  /\ k \in Nat \ {0} /\ pos \in Int /\ (pc = "handle" => pos \in Nat)
  /\ seen \subseteq Int /\ handed \in Seq(Nat)

\* A header is read at every offset, and its size is a number.
LEMMA HeaderIs ==
  ASSUME file \in Archives, NEW p
  PROVE  /\ HeaderAt(p) \in Header /\ HeaderAt(p).size \in Int
         /\ HeaderAt(p).symdef => HeaderAt(p).ext
         /\ HeaderAt(p).ext \in BOOLEAN /\ HeaderAt(p).symdef \in BOOLEAN
<1>1. HeaderAt(p) \in Header
  BY ArchivesAssumption DEF HeaderAt
<1> QED BY <1>1 DEF Header

LEMMA StridesAre ==
  ASSUME file \in Archives, NEW p
  PROVE  /\ CheckStride(HeaderAt(p)) = HeaderAt(p).size + ArHdr
         /\ HandleStride(HeaderAt(p)) \in Int /\ CheckStride(HeaderAt(p)) \in Int
         /\ HeaderAt(p).size >= 0 => /\ HandleStride(HeaderAt(p)) \in Nat
                                     /\ CheckStride(HeaderAt(p)) \in Nat
                                     /\ HandleStride(HeaderAt(p)) >= ArHdr
         /\ HeaderAt(p).size % 2 = 0 => HandleStride(HeaderAt(p)) = CheckStride(HeaderAt(p))
         /\ HandleStride(HeaderAt(p)) % 2 = 0
<1> DEFINE n == HeaderAt(p).size
<1>1. n \in Int
  BY HeaderIs
<1>2. n + 60 \in Int /\ (n + 60) % 2 \in {0, 1} /\ (n % 2 = 0 => (n + 60) % 2 = 0)
      /\ ((n + 60) + ((n + 60) % 2)) % 2 = 0
  BY <1>1
<1>3. CheckStride(HeaderAt(p)) = n + 60
  BY DEF CheckStride, ArHdr
<1>4. HandleStride(HeaderAt(p)) = (n + 60) + ((n + 60) % 2)
  BY DEF HandleStride, ArHdr
<1> HIDE DEF n
<1>5. /\ HandleStride(HeaderAt(p)) \in Int
      /\ n >= 0 => HandleStride(HeaderAt(p)) \in Nat /\ HandleStride(HeaderAt(p)) >= 60
  BY <1>1, <1>2, <1>4
<1> QED BY <1>1, <1>2, <1>3, <1>4, <1>5 DEF n, ArHdr

LEMMA InitTypes == Init => Types
BY BinsAssumption DEF Init, Types

\* What one member comes to, as far as the cursor is concerned.
LEMMA HandleMemberDoes ==
  ASSUME Types, HandleMember
  PROVE  /\ pc = "handle" /\ pos < file.fsize /\ seen' = seen /\ k' = k
         /\ UNCHANGED <<file, archs, bin>>
         /\ handed' \in {handed, Append(handed, pos)}
         /\ \/ pc' = "done" /\ pos' = pos
            \/ pc' = pc /\ HeaderAt(pos).size >= 0 /\ pos' = pos + HandleStride(HeaderAt(pos))
<1>1. HeaderAt(pos).size \in Int
  BY HeaderIs DEF Types
<1> QED BY <1>1 DEF HandleMember, input

LEMMA StepTypes == Types /\ [Next]_vars => Types'
<1> SUFFICES ASSUME Types, [Next]_vars PROVE Types'
  OBVIOUS
<1>1. CASE Open
  BY <1>1 DEF Open, Types, input, SARMAG
<1>2. CASE StartFlag
  BY <1>2 DEF StartFlag, Types, input, SARMAG
<1>3. CASE CheckMember
  <2>1. CheckStride(HeaderAt(pos)) \in Int
    BY StridesAre DEF Types
  <2>2. pos + CheckStride(HeaderAt(pos)) \in Int
    BY <2>1 DEF Types
  <2>3. /\ pos' \in {pos, pos + CheckStride(HeaderAt(pos))} /\ seen' = seen \cup {pos}
        /\ pc = "check" /\ pc' \in {"refused", pc} /\ UNCHANGED <<file, archs, bin, k, handed>>
    BY <1>3 DEF CheckMember, input
  <2> QED BY <2>2, <2>3 DEF Types
<1>4. CASE EndFlag
  BY <1>4 DEF EndFlag, Types, input
<1>5. CASE EndCheck
  BY <1>5 DEF EndCheck, Types, input, SARMAG
<1>6. CASE HandleMember
  <2>1. HeaderAt(pos).size >= 0 => HandleStride(HeaderAt(pos)) \in Nat
    BY StridesAre DEF Types
  <2>2. pos \in Nat
    BY <1>6 DEF HandleMember, Types
  <2>3. /\ \/ pos' = pos
           \/ HeaderAt(pos).size >= 0 /\ pos' = pos + HandleStride(HeaderAt(pos))
        /\ handed' \in {handed, Append(handed, pos)}
        /\ pc' \in {"done", pc} /\ UNCHANGED <<file, archs, bin, k, seen>>
    BY <1>6, HandleMemberDoes
  <2>5. pos' \in Nat
    BY <2>1, <2>2, <2>3
  <2>4. Append(handed, pos) \in Seq(Nat)
    BY <2>2, AppendProperties DEF Types
  <2> QED BY <2>3, <2>4, <2>5 DEF Types
<1>7. CASE EndHandle
  BY <1>7 DEF EndHandle, Types, input
<1>8. CASE UNCHANGED vars
  BY <1>8 DEF vars, Types
<1> QED BY <1>1, <1>2, <1>3, <1>4, <1>5, <1>6, <1>7, <1>8 DEF Next, Step

\* The loop over the flags turns at least once.
LEMMA SomeFlag == Types => Flags \in Nat \ {0}
BY ArchFlagsAssumption, EmptySeq DEF Types, Flags

\* The file stays, and with it what is read anywhere.
LEMMA FileStays ==
  ASSUME [Next]_vars
  PROVE  /\ UNCHANGED <<file, archs, bin>>
         /\ \A p : HeaderAt(p)' = HeaderAt(p) /\ ContentAt(p)' = ContentAt(p)
<1>1. UNCHANGED <<file, archs, bin>>
  BY DEF Next, Step, vars, input, Open, StartFlag, CheckMember, EndFlag, EndCheck,
         HandleMember, EndHandle
<1> QED BY <1>1 DEF HeaderAt, ContentAt

LEMMA AppendIs ==
  ASSUME NEW s \in Seq(Nat), NEW p \in Nat
  PROVE  /\ DOMAIN Append(s, p) = 1..(Len(s) + 1) /\ DOMAIN s = 1..Len(s) /\ Len(s) \in Nat
         /\ \A j \in 1..Len(s) : Append(s, p)[j] = s[j]
         /\ Append(s, p)[Len(s) + 1] = p
         /\ {Append(s, p)[j] : j \in DOMAIN Append(s, p)} = {s[j] : j \in DOMAIN s} \cup {p}
<1>1. /\ DOMAIN Append(s, p) = 1..(Len(s) + 1) /\ DOMAIN s = 1..Len(s) /\ Len(s) \in Nat
      /\ \A j \in 1..Len(s) : Append(s, p)[j] = s[j]
      /\ Append(s, p)[Len(s) + 1] = p
  BY AppendProperties
<1>2. 1..(Len(s) + 1) = 1..Len(s) \cup {Len(s) + 1}
  BY <1>1
<1> QED BY <1>1, <1>2

-----------------------------------------------------------------------------
(* Each object once *)

\* The members handed on lie behind the cursor, in the order of the file.
Forward ==
  /\ \A j \in DOMAIN handed : /\ handed[j] < file.fsize
                              /\ pc = "handle" => handed[j] < pos
  /\ \A j, l \in DOMAIN handed : j < l => handed[j] < handed[l]
  /\ pc \notin {"handle", "done"} => handed = << >>

LEMMA InitForward == Init => Forward
BY DEF Init, Forward

LEMMA StepForward == Types /\ Forward /\ [Next]_vars => Forward'
<1> SUFFICES ASSUME Types, Forward, [Next]_vars PROVE Forward'
  OBVIOUS
<1>0. file' = file
  BY FileStays
<1>1. CASE Open \/ StartFlag \/ CheckMember \/ EndFlag \/ EndCheck
  <2>1. handed' = handed /\ handed = << >>
    BY <1>1 DEF Open, StartFlag, CheckMember, EndFlag, EndCheck, Forward
  <2> QED BY <2>1 DEF Forward
<1>2. CASE HandleMember
  <2>1. /\ pc = "handle" /\ pos < file.fsize /\ pc' \in {"handle", "done"}
        /\ handed' \in {handed, Append(handed, pos)}
        /\ pc' = "handle" => /\ HeaderAt(pos).size >= 0
                             /\ pos' = pos + HandleStride(HeaderAt(pos))
    BY <1>2, HandleMemberDoes
  <2>2. pos \in Nat /\ handed \in Seq(Nat) /\ (pc' = "handle" => pos' > pos)
    BY <2>1, StridesAre DEF Types, ArHdr
  <2>3. /\ DOMAIN Append(handed, pos) = 1..(Len(handed) + 1) /\ DOMAIN handed = 1..Len(handed)
        /\ Len(handed) \in Nat /\ \A j \in 1..Len(handed) : Append(handed, pos)[j] = handed[j]
        /\ Append(handed, pos)[Len(handed) + 1] = pos
    BY <2>2, AppendIs
  <2>4. \A j \in 1..Len(handed) : handed[j] \in Nat /\ handed[j] < pos /\ handed[j] < file.fsize
    BY <2>1, <2>2, <2>3 DEF Forward
  <2>5. file.fsize \in Nat
    BY ArchivesAssumption DEF Types
  <2>6. CASE handed' = handed
    <3>1. \A j \in DOMAIN handed : pc' = "handle" => handed[j] < pos'
      BY <2>2, <2>3, <2>4, <2>1, StridesAre DEF Types
    <3> QED BY <1>0, <2>1, <2>6, <3>1 DEF Forward
  <2>7. CASE handed' = Append(handed, pos)
    <3>1. pc' = "handle" => pos' \in Nat
      BY <2>1, <2>2, StridesAre DEF Types
    <3>2. ASSUME NEW j \in DOMAIN handed'
          PROVE  handed'[j] < file.fsize /\ (pc' = "handle" => handed'[j] < pos')
      <4>1. CASE j = Len(handed) + 1
        BY <2>1, <2>2, <2>3, <2>7, <4>1
      <4>2. CASE j \in 1..Len(handed)
        BY <2>2, <2>3, <2>4, <2>7, <3>1, <4>2
      <4> QED BY <2>3, <2>7, <4>1, <4>2
    <3>3. ASSUME NEW j \in DOMAIN handed', NEW l \in DOMAIN handed', j < l
          PROVE  handed'[j] < handed'[l]
      <4>1. j \in 1..Len(handed)
        BY <2>3, <2>7, <3>3
      <4>2. CASE l = Len(handed) + 1
        BY <2>3, <2>4, <2>7, <4>1, <4>2
      <4>3. CASE l \in 1..Len(handed)
        BY <2>3, <2>7, <3>3, <4>1, <4>3 DEF Forward
      <4> QED BY <2>3, <2>7, <4>2, <4>3
    <3> QED BY <1>0, <2>1, <3>2, <3>3 DEF Forward
  <2> QED BY <2>1, <2>6, <2>7
<1>3. CASE EndHandle
  BY <1>0, <1>3 DEF EndHandle, Forward
<1>4. CASE UNCHANGED vars
  BY <1>4 DEF vars, Forward
<1> QED BY <1>1, <1>2, <1>3, <1>4 DEF Next, Step

\* However the sizes of the members lead it, the handle walk hands on no object
\* twice and none in front of an earlier one.
THEOREM HandedInOrder == Spec => [](\A j, l \in DOMAIN handed : j < l => handed[j] < handed[l])
<1>1. Forward => \A j, l \in DOMAIN handed : j < l => handed[j] < handed[l]
  BY DEF Forward
<1> QED BY <1>1, InitTypes, StepTypes, InitForward, StepForward, PTL DEF Spec

-----------------------------------------------------------------------------
(* The two walks of nm *)

\* Where the check walk goes from p.
After(p) == p + CheckStride(HeaderAt(p))

\* A whole check walk has gone from the first header to the end of the file; one
\* that is under way has gone as far as its cursor.
Walked ==
  bin = "nm" =>
    /\ pc = "check" => SARMAG \in seen \/ pos = SARMAG
    /\ (k > 1 \/ pc \in {"handle", "done"}) /\ file.fsize > SARMAG => SARMAG \in seen
    /\ pc # "refused" =>
         \A p \in seen : /\ After(p) + HeaderAt(After(p)).size <= file.fsize
                         /\ \/ After(p) \in seen \/ After(p) >= file.fsize
                            \/ pc = "check" /\ After(p) = pos

LEMMA InitWalked == Init => Walked
BY DEF Init, Walked

LEMMA StepWalked == Types /\ Walked /\ [Next]_vars => Walked'
<1> SUFFICES ASSUME Types, Walked, [Next]_vars, bin = "nm" PROVE Walked'
  BY FileStays DEF Walked
<1>0. /\ file' = file /\ bin' = bin /\ \A p : HeaderAt(p)' = HeaderAt(p)
      /\ \A p : After(p)' = After(p)
  BY FileStays DEF After
<1>a. /\ pos \in Int /\ k \in Nat \ {0} /\ file.fsize \in Nat /\ file.fsize >= SARMAG
      /\ \A p \in seen : p \in Int
  BY ArchivesAssumption DEF Types
<1>1. CASE Open
  <2>1. pc = "open" /\ pc' = "flag" /\ k' = k /\ seen' = seen
    BY <1>1 DEF Open
  <2> QED BY <1>0, <2>1 DEF Walked
<1>2. CASE StartFlag
  <2>1. /\ pc = "flag" /\ k' = k /\ seen' = seen
        /\ \/ pc' = "handle" /\ file.fsize = SARMAG
           \/ pc' = "refused"
           \/ pc' = "check" /\ pos' = SARMAG
    BY <1>2 DEF StartFlag
  <2> QED BY <1>0, <1>a, <2>1 DEF Walked
<1>3. CASE CheckMember
  <2>1. /\ pc = "check" /\ pos < file.fsize /\ k' = k /\ seen' = seen \cup {pos}
    BY <1>3 DEF CheckMember
  <2>2. \/ pc' = "refused" /\ pos' = pos
        \/ /\ pc' = "check" /\ pos' = After(pos)
           /\ ~(After(pos) + HeaderAt(After(pos)).size > file.fsize)
    BY <1>3 DEF CheckMember, Rejected, fatal, After
  <2>3. After(pos) \in Int /\ HeaderAt(After(pos)).size \in Int
    BY HeaderIs, StridesAre DEF Types, After
  <2>4. CASE pc' = "refused" /\ pos' = pos
    BY <1>0, <2>1, <2>4 DEF Walked
  <2>5. CASE /\ pc' = "check" /\ pos' = After(pos)
             /\ ~(After(pos) + HeaderAt(After(pos)).size > file.fsize)
    <3>1. After(pos) + HeaderAt(After(pos)).size <= file.fsize
      BY <1>a, <2>3, <2>5
    <3>2. SARMAG \in seen'
      BY <2>1 DEF Walked
    <3>3. ASSUME NEW p \in seen'
          PROVE  /\ After(p) + HeaderAt(After(p)).size <= file.fsize
                 /\ After(p) \in seen' \/ After(p) >= file.fsize \/ After(p) = pos'
      <4>1. CASE p = pos
        BY <2>5, <3>1, <4>1
      <4>2. CASE p \in seen
        BY <2>1, <4>2 DEF Walked
      <4> QED BY <2>1, <4>1, <4>2
    <3> QED BY <1>0, <2>1, <2>5, <3>2, <3>3 DEF Walked
  <2> QED BY <2>2, <2>4, <2>5
<1>4. CASE EndFlag
  <2>1. pc = "check" /\ pos >= file.fsize /\ pc' = "flag" /\ seen' = seen
    BY <1>4 DEF EndFlag
  <2>2. file.fsize > SARMAG => SARMAG \in seen
    BY <1>a, <2>1 DEF Walked
  <2>3. \A p \in seen : After(p) = pos => After(p) >= file.fsize
    BY <2>1
  <2> QED BY <1>0, <2>1, <2>2, <2>3 DEF Walked
<1>5. CASE EndCheck
  <2>1. pc = "flag" /\ k > 1 /\ pc' \in {"handle", "refused"} /\ seen' = seen /\ k' = k
    BY <1>5, <1>a, SomeFlag DEF EndCheck
  <2> QED BY <1>0, <2>1 DEF Walked
<1>6. CASE HandleMember
  <2>1. pc = "handle" /\ pc' \in {"handle", "done"} /\ seen' = seen /\ k' = k
    BY <1>6, HandleMemberDoes
  <2> QED BY <1>0, <2>1 DEF Walked
<1>7. CASE EndHandle
  <2>1. pc = "handle" /\ pc' = "done" /\ seen' = seen /\ k' = k
    BY <1>7 DEF EndHandle
  <2> QED BY <1>0, <2>1 DEF Walked
<1>8. CASE UNCHANGED vars
  BY <1>0, <1>8 DEF vars, Walked
<1> QED BY <1>1, <1>2, <1>3, <1>4, <1>5, <1>6, <1>7, <1>8 DEF Next, Step

\* Where every size is even the handle walk steps as the check walk did.
Follows ==
  bin = "nm" /\ EvenSizes =>
    /\ pc = "handle" => pos \in seen \/ pos >= file.fsize
    /\ \A j \in DOMAIN handed : handed[j] \in seen

LEMMA EvenEverywhere ==
  ASSUME EvenSizes, NEW p PROVE HeaderAt(p).size % 2 = 0
BY DEF EvenSizes, Members, HeaderAt

LEMMA InitFollows == Init => Follows
BY DEF Init, Follows

LEMMA StepFollows == Types /\ Forward /\ Walked /\ Follows /\ [Next]_vars => Follows'
<1> SUFFICES ASSUME Types, Forward, Walked, Follows, [Next]_vars PROVE Follows'
  OBVIOUS
<1>0. file' = file /\ bin' = bin /\ (EvenSizes' <=> EvenSizes)
  BY FileStays DEF EvenSizes, Members
<1> SUFFICES ASSUME bin = "nm", EvenSizes
             PROVE  /\ pc' = "handle" => pos' \in seen' \/ pos' >= file.fsize
                    /\ \A j \in DOMAIN handed' : handed'[j] \in seen'
  BY <1>0 DEF Follows
<1>a. /\ pos \in Int /\ file.fsize \in Nat /\ file.fsize >= SARMAG /\ k \in Nat \ {0}
      /\ pc = "handle" => pos \in Nat
  BY ArchivesAssumption DEF Types
<1>1. CASE Open \/ StartFlag \/ CheckMember \/ EndFlag \/ EndCheck
  <2>1. handed' = << >>
    BY <1>1 DEF Open, StartFlag, CheckMember, EndFlag, EndCheck, Forward
  <2>2. ASSUME pc' = "handle" PROVE pos' \in seen' \/ pos' >= file.fsize
    <3>1. CASE StartFlag
      BY <1>a, <2>2, <3>1 DEF StartFlag
    <3>2. CASE EndCheck
      <4>1. k > 1 /\ pos' = SARMAG /\ seen' = seen
        BY <1>a, <2>2, <3>2, SomeFlag DEF EndCheck
      <4> QED BY <1>a, <4>1 DEF Walked, SARMAG
    <3>3. ~Open /\ ~CheckMember /\ ~EndFlag
      BY <2>2 DEF Open, CheckMember, EndFlag
    <3> QED BY <1>1, <3>1, <3>2, <3>3
  <2> QED BY <2>1, <2>2
<1>2. CASE HandleMember
  <2>1. /\ pc = "handle" /\ pos < file.fsize /\ seen' = seen
        /\ handed' \in {handed, Append(handed, pos)}
        /\ pc' = "handle" => pos' = pos + HandleStride(HeaderAt(pos))
    BY <1>2, HandleMemberDoes
  <2>2. pos \in seen
    BY <1>a, <2>1 DEF Follows
  <2>3. HandleStride(HeaderAt(pos)) = CheckStride(HeaderAt(pos))
    BY EvenEverywhere, StridesAre DEF Types
  <2>4. pc' = "handle" => pos' \in seen' \/ pos' >= file.fsize
    BY <2>1, <2>2, <2>3 DEF Walked, After
  <2>5. handed \in Seq(Nat)
    BY DEF Types
  <2>6. \A j \in DOMAIN Append(handed, pos) : Append(handed, pos)[j] \in seen
    <3> TAKE j \in DOMAIN Append(handed, pos)
    <3>1. \/ j = Len(handed) + 1 /\ Append(handed, pos)[j] = pos
          \/ j \in DOMAIN handed /\ Append(handed, pos)[j] = handed[j]
      BY <1>a, <2>1, <2>5, AppendIs
    <3> QED BY <2>2, <3>1 DEF Follows
  <2> QED BY <2>1, <2>4, <2>6 DEF Follows
<1>3. CASE EndHandle
  BY <1>3 DEF EndHandle, Follows
<1>4. CASE UNCHANGED vars
  BY <1>4 DEF vars, Follows
<1> QED BY <1>1, <1>2, <1>3, <1>4 DEF Next, Step

NmInv == Types /\ Forward /\ Walked /\ Follows

LEMMA NmInvariant == Spec => []NmInv
<1>1. Init => NmInv
  BY InitTypes, InitForward, InitWalked, InitFollows DEF NmInv
<1>2. NmInv /\ [Next]_vars => NmInv'
  BY StepTypes, StepForward, StepWalked, StepFollows DEF NmInv
<1> QED BY <1>1, <1>2, PTL DEF Spec

\* nm hands on only what its check walk looked at, wherever the sizes lead the
\* two walks, as long as they are even.
THEOREM ChecksWhatItHandsOn == Spec => []HandedWereChecked
<1>1. NmInv => HandedWereChecked
  BY DEF NmInv, Follows, HandedWereChecked
<1> QED BY <1>1, NmInvariant, PTL

\* No header begins behind the file, nor one byte in front of that.
LEMMA BehindTheFile ==
  ASSUME file \in Archives, NEW p \in Int, p >= file.fsize
  PROVE  HeaderAt(p) = file.beyond
<1>1. file.fsize \in Nat
  BY ArchivesAssumption
<1>2. p \notin DOMAIN file.headers
  BY <1>1, ArchivesAssumption
<1>3. p \notin DOMAIN file.shifted
  <2>1. \A q \in DOMAIN file.shifted : q + 1 \in DOMAIN file.headers
    BY ArchivesAssumption
  <2>2. \A q \in DOMAIN file.headers : q \in SARMAG..(file.fsize - 1)
    BY ArchivesAssumption
  <2>3. p + 1 \notin DOMAIN file.headers
    BY <1>1, <2>2 DEF SARMAG
  <2> QED BY <2>1, <2>3
<1>4. ~(p + ArHdr <= file.fsize)
  BY <1>1 DEF ArHdr
<1> QED BY <1>2, <1>3, <1>4 DEF HeaderAt

\* A member nm hands on ends inside the file: the check walk compared its end,
\* and what would stand behind it, with the size of the file.
THEOREM HandsOnWholeMembers == Spec => []MembersInside
<1>1. NmInv => MembersInside
  <2> SUFFICES ASSUME NmInv, bin = "nm", EvenSizes, file.beyond.size >= 0,
                      NEW j \in DOMAIN handed
               PROVE  handed[j] + ArHdr + HeaderAt(handed[j]).size <= file.fsize
    BY DEF MembersInside
  <2> DEFINE p == handed[j]
  <2>1. p \in seen /\ pc # "refused" /\ p \in Int /\ file.fsize \in Nat
    BY ArchivesAssumption DEF NmInv, Follows, Forward, Types
  <2> HIDE DEF p
  <2>2. After(p) + HeaderAt(After(p)).size <= file.fsize
    BY <2>1 DEF NmInv, Walked
  <2>3. HeaderAt(p).size \in Int /\ HeaderAt(After(p)).size \in Int
    BY HeaderIs DEF NmInv, Types
  <2>4. After(p) = p + (HeaderAt(p).size + ArHdr)
    BY StridesAre DEF NmInv, Types, After
  <2>5. After(p) <= file.fsize
    <3> DEFINE q == After(p)
               m == HeaderAt(q).size
    <3>1. q \in Int /\ m \in Int /\ q + m <= file.fsize
      BY <2>1, <2>2, <2>3, <2>4 DEF ArHdr
    <3>2. q >= file.fsize => m >= 0
      BY <3>1, BehindTheFile DEF NmInv, Types
    <3> HIDE DEF q, m
    <3>3. q <= file.fsize
      BY <2>1, <3>1, <3>2
    <3> QED BY <3>3 DEF q
  <2>6. p + ArHdr + HeaderAt(p).size <= file.fsize
    BY <2>1, <2>3, <2>4, <2>5 DEF ArHdr
  <2> QED BY <2>6 DEF p
<1> QED BY <1>1, NmInvariant, PTL

-----------------------------------------------------------------------------
(* Every object *)

\* The case the property is about.
Sound == /\ WellLaidOut
         /\ bin = "otool" => \A p \in Members :
              ContentAt(Data(p)).kind = "FAT" => ContentAt(Data(p)).fatok

Given == {handed[j] : j \in DOMAIN handed}

\* The cursor stands at a member, and all objects in front of it were given.
Complete ==
  Sound =>
    /\ pc = "handle" => /\ pos % 2 = 0 /\ (pos \in Members \/ pos >= file.fsize)
                        /\ Given = {p \in Objects : p < pos}
    /\ pc = "done" => Given = Objects

\* What a well laid out archive holds at a member.
LEMMA MemberIs ==
  ASSUME file \in Archives, WellLaidOut, NEW p \in Members
  PROVE  /\ p \in Nat /\ p < file.fsize /\ file.fsize \in Nat
         /\ HeaderAt(p) = file.headers[p]
         /\ HeaderAt(p).size \in Nat /\ HeaderAt(p).size <= file.fsize
         /\ Data(p) < file.fsize
         /\ Data(p) = p + ArHdr + (IF HeaderAt(p).ext THEN HeaderAt(p).len ELSE 0)
<1>1. p \in SARMAG..(file.fsize - 1) /\ file.fsize \in Nat
  BY ArchivesAssumption DEF Members
<1>2. HeaderAt(p) = file.headers[p]
  BY DEF Members, HeaderAt
<1>3. HeaderAt(p).size \in Nat
  BY <1>2, HeaderIs DEF WellLaidOut
<1>4. End(p) <= file.fsize /\ Data(p) < file.fsize
  BY DEF WellLaidOut
<1> QED BY <1>1, <1>2, <1>3, <1>4 DEF End, Data, SARMAG, ArHdr

\* Both the layout and the handle walk go on at the even end of a member.
LEMMA NextIsEvenEnd ==
  ASSUME file \in Archives, WellLaidOut, NEW p \in Members, p % 2 = 0
  PROVE  /\ p + HandleStride(HeaderAt(p)) = EvenEnd(p)
         /\ EvenEnd(p) % 2 = 0 /\ EvenEnd(p) > p /\ EvenEnd(p) \in Nat
<1> DEFINE n == HeaderAt(p).size
<1>1. n \in Nat /\ p \in Nat /\ HeaderAt(p) = file.headers[p]
  BY HeaderIs, MemberIs
<1>2. End(p) = p + 60 + n /\ HandleStride(HeaderAt(p)) = (n + 60) + ((n + 60) % 2)
  BY <1>1 DEF End, HandleStride, ArHdr
<1>3. EvenEnd(p) = (p + 60 + n) + ((p + 60 + n) % 2)
  BY <1>2 DEF EvenEnd
<1> HIDE DEF n
<1>4. (p + 60 + n) % 2 = (n + 60) % 2 /\ (n + 60) % 2 \in {0, 1}
  BY <1>1
<1>5. ((p + 60 + n) + ((p + 60 + n) % 2)) % 2 = 0
  BY <1>1
<1> QED BY <1>1, <1>2, <1>3, <1>4, <1>5

\* The step over one member of a sound archive.
LEMMA HandleSound ==
  ASSUME Types, Forward, Complete, Sound, HandleMember
  PROVE  /\ pc' = "handle" /\ pos' % 2 = 0 /\ (pos' \in Members \/ pos' >= file.fsize)
         /\ {handed'[j] : j \in DOMAIN handed'} = {p \in Objects : p < pos'}
<1>1. /\ pc = "handle" /\ pos < file.fsize /\ pos \in Nat /\ file \in Archives /\ WellLaidOut
      /\ handed \in Seq(Nat) /\ file.fsize \in Nat /\ bin \in {"nm", "otool"}
  BY HandleMemberDoes, ArchivesAssumption DEF Types, Sound
<1>2. pos \in Members /\ pos % 2 = 0 /\ Given = {p \in Objects : p < pos}
  BY <1>1 DEF Complete
<1>3. /\ HeaderAt(pos) = file.headers[pos] /\ HeaderAt(pos).size <= file.fsize
      /\ Data(pos) < file.fsize
      /\ Data(pos) = pos + ArHdr + (IF HeaderAt(pos).ext THEN HeaderAt(pos).len ELSE 0)
      /\ HeaderAt(pos).size \in Nat
  BY <1>1, <1>2, MemberIs, HeaderIs
<1>4. pos + HandleStride(HeaderAt(pos)) = EvenEnd(pos) /\ EvenEnd(pos) % 2 = 0
      /\ EvenEnd(pos) > pos /\ EvenEnd(pos) \in Nat
  BY <1>1, <1>2, NextIsEvenEnd
<1> DEFINE h == HeaderAt(pos)
           c == ContentAt(Data(pos))
           skip == h.ext /\ h.symdef
<1>5. /\ handed' = (IF ~skip /\ c.kind = "MH" THEN Append(handed, pos) ELSE handed)
      /\ IF \/ ~skip /\ c.kind = "FAT" /\ bin = "otool" /\ ~c.fatok
            \/ h.size < 0 \/ h.size > file.fsize
           THEN pc' = "done" /\ pos' = pos
           ELSE pc' = pc /\ pos' = pos + HandleStride(h)
  BY <1>3 DEF HandleMember
<1>6. pos \in Objects <=> ~skip /\ c.kind = "MH"
  BY <1>1, <1>2, <1>3, HeaderIs DEF Objects
<1>7. /\ ~(bin = "otool" /\ c.kind = "FAT" /\ ~c.fatok)
      /\ ~(h.size < 0) /\ ~(h.size > file.fsize)
  BY <1>1, <1>2, <1>3 DEF Sound
<1>8. pc' = "handle" /\ pos' = EvenEnd(pos)
  BY <1>1, <1>4, <1>5, <1>7
<1>9. pos' \in Members \/ pos' >= file.fsize
  BY <1>1, <1>2, <1>8 DEF WellLaidOut
<1>10. \A p \in Objects : p < pos' <=> p < pos \/ p = pos
  <2> TAKE p \in Objects
  <2>1. p \in Members /\ p \in Nat
    BY <1>1, MemberIs DEF Objects
  <2>2. pos < p => EvenEnd(pos) <= p
    BY <1>1, <1>2, <2>1 DEF WellLaidOut
  <2> QED BY <1>1, <1>4, <1>8, <2>1, <2>2
<1>11. {handed'[j] : j \in DOMAIN handed'} = IF pos \in Objects THEN Given \cup {pos} ELSE Given
  <2>1. CASE pos \in Objects
    <3>1. handed' = Append(handed, pos)
      BY <1>5, <1>6, <2>1
    <3>2. handed \in Seq(Nat) /\ pos \in Nat
      BY <1>1
    <3>3. {Append(handed, pos)[j] : j \in DOMAIN Append(handed, pos)}
            = {handed[j] : j \in DOMAIN handed} \cup {pos}
      BY <3>2, AppendIs
    <3>4. {handed'[j] : j \in DOMAIN handed'} = Given \cup {pos}
      BY <3>1, <3>3, Zenon DEF Given
    <3> QED BY <2>1, <3>4
  <2>2. CASE pos \notin Objects
    <3>1. handed' = handed
      BY <1>5, <1>6, <2>2
    <3> QED BY <2>2, <3>1 DEF Given
  <2> QED BY <2>1, <2>2
<1>12. {handed'[j] : j \in DOMAIN handed'} = {p \in Objects : p < pos'}
  BY <1>2, <1>10, <1>11
<1> QED BY <1>4, <1>8, <1>9, <1>12

LEMMA InitComplete == Init => Complete
BY DEF Init, Complete

LEMMA StepComplete == Types /\ Forward /\ Complete /\ [Next]_vars => Complete'
<1> SUFFICES ASSUME Types, Forward, Complete, [Next]_vars PROVE Complete'
  OBVIOUS
<1>0. /\ file' = file /\ bin' = bin /\ (Sound' <=> Sound) /\ Objects' = Objects
      /\ Members' = Members
  BY FileStays DEF Sound, WellLaidOut, Members, Objects, End, EvenEnd, Data
<1> SUFFICES ASSUME Sound
             PROVE  /\ pc' = "handle" =>
                         /\ pos' % 2 = 0 /\ (pos' \in Members \/ pos' >= file.fsize)
                         /\ {handed'[j] : j \in DOMAIN handed'} = {p \in Objects : p < pos'}
                    /\ pc' = "done" => {handed'[j] : j \in DOMAIN handed'} = Objects
  BY <1>0 DEF Complete, Given
<1>a. /\ file \in Archives /\ WellLaidOut /\ pos \in Int
      /\ \A p \in Objects : p \in Nat /\ p < file.fsize /\ p >= SARMAG
  <2>1. file \in Archives /\ WellLaidOut /\ pos \in Int
    BY DEF Types, Sound
  <2>2. \A p \in Members : p \in SARMAG..(file.fsize - 1) /\ file.fsize \in Nat
    BY <2>1, ArchivesAssumption DEF Members
  <2> QED BY <2>1, <2>2 DEF Objects, SARMAG
<1>b. ASSUME handed' = << >>, pos' = SARMAG
      PROVE  /\ pos' % 2 = 0 /\ (pos' \in Members \/ pos' >= file.fsize)
             /\ {handed'[j] : j \in DOMAIN handed'} = {p \in Objects : p < pos'}
  <2>1. SARMAG \in Members \/ SARMAG >= file.fsize
    BY <1>a, ArchivesAssumption DEF WellLaidOut, SARMAG
  <2>2. \A p \in Objects : ~(p < SARMAG)
    BY <1>a DEF SARMAG
  <2> QED BY <1>b, <2>1, <2>2 DEF SARMAG
<1>1. CASE Open \/ StartFlag \/ CheckMember \/ EndFlag \/ EndCheck
  <2>1. handed' = << >> /\ pc' # "done" /\ (pc' = "handle" => pos' = SARMAG)
    BY <1>1 DEF Open, StartFlag, CheckMember, EndFlag, EndCheck, Forward
  <2> QED BY <1>b, <2>1
<1>2. CASE HandleMember
  BY <1>2, HandleSound
<1>3. CASE EndHandle
  <2>1. pc = "handle" /\ pos >= file.fsize /\ pc' = "done" /\ handed' = handed
    BY <1>3 DEF EndHandle
  <2>2. Given = {p \in Objects : p < pos} /\ \A p \in Objects : p < pos
    <3>1. file.fsize \in Nat
      BY <1>a, ArchivesAssumption
    <3> QED BY <1>a, <2>1, <3>1 DEF Complete
  <2> QED BY <2>1, <2>2 DEF Given
<1>4. CASE UNCHANGED vars
  BY <1>4 DEF vars, Complete, Given
<1> QED BY <1>1, <1>2, <1>3, <1>4 DEF Next, Step

\* Of a well laid out archive that is not refused the handle walk hands on every
\* object, whatever sizes and names the members have, and in their order.
THEOREM HandsOnEveryObject == Spec => []ListsEveryObject
<1>1. Init => Types /\ Forward /\ Complete
  BY InitTypes, InitForward, InitComplete
<1>2. Types /\ Forward /\ Complete /\ [Next]_vars => (Types /\ Forward /\ Complete)'
  BY StepTypes, StepForward, StepComplete
<1>3. Forward /\ Complete => ListsEveryObject
  BY DEF Forward, Complete, Sound, Given, ListsEveryObject
<1> QED BY <1>1, <1>2, <1>3, PTL DEF Spec

-----------------------------------------------------------------------------
(* The check walk over a well laid out archive *)

\* Layouts on which the check walk steps from member to member.
Regular == WellLaidOut /\ EvenSizes /\ UniformNames

KindAt(p) == ContentAt(Data(p)).kind

\* The cursor of the check walk stands at a member, whose name is written as the
\* first one's was, or behind the last.
AtMembers ==
  Regular /\ pc = "check" =>
    /\ pos % 2 = 0 /\ (pos \in Members \/ pos >= file.fsize)
    /\ \A p \in Members : file.headers[p].ext = extended

\* nm has passed by no fat file, and after one turn it has passed by everything.
NoFatBehind ==
  Regular /\ bin = "nm" =>
    /\ pc = "check" => \A p \in Members : p < pos => KindAt(p) # "FAT"
    /\ k > 1 \/ pc \in {"handle", "done"} => \A p \in Members : KindAt(p) # "FAT"

\* No architecture is to be looked for.
AnyArch == from \/ AllArchs(archs)

\* Then the check passes at once, and only a finding refuses the archive.
Accepting == AnyArch => (pc = "check" => check) /\ (k > 1 => finalCheck)

OnlyFatRefuses ==
  Regular /\ pc = "refused" /\ AnyArch /\ file.beyond.size = 0 =>
    bin = "nm" /\ \E p \in Members : KindAt(p) = "FAT"

LEMMA RegularStays ==
  ASSUME [Next]_vars
  PROVE  /\ UNCHANGED <<file, archs, bin, from>> /\ Members' = Members
         /\ Regular' <=> Regular
         /\ \A p : Data(p)' = Data(p) /\ ContentAt(p)' = ContentAt(p)
                   /\ KindAt(p)' = KindAt(p)
<1>1. UNCHANGED <<file, archs, bin, from>>
  BY DEF Next, Step, vars, input, Open, StartFlag, CheckMember, EndFlag, EndCheck,
         HandleMember, EndHandle
<1> QED BY <1>1 DEF Members, Regular, WellLaidOut, EvenSizes, UniformNames, End,
                    EvenEnd, Data, ContentAt, KindAt

\* From a member the check walk goes where the layout goes on.
LEMMA CheckFollowsLayout ==
  ASSUME file \in Archives, Regular, NEW p \in Members, p % 2 = 0
  PROVE  /\ After(p) = EvenEnd(p) /\ After(p) \in Nat /\ After(p) % 2 = 0
         /\ p < After(p) /\ After(p) <= file.fsize
         /\ After(p) \in Members \/ After(p) = file.fsize
         /\ After(p) \in Members \/ file.beyond.size = 0 =>
              After(p) + HeaderAt(After(p)).size <= file.fsize
<1> DEFINE n == HeaderAt(p).size
<1>1. /\ n \in Nat /\ p \in Nat /\ HeaderAt(p) = file.headers[p] /\ file.fsize \in Nat
      /\ n % 2 = 0
  BY HeaderIs, MemberIs, EvenEverywhere DEF Regular
<1>2. After(p) = p + (n + 60) /\ End(p) = p + 60 + n
  BY <1>1, StridesAre DEF After, End, ArHdr
<1>3. EvenEnd(p) = (p + 60 + n) + ((p + 60 + n) % 2)
  BY <1>2 DEF EvenEnd
<1>4. End(p) <= file.fsize /\ (EvenEnd(p) \in Members \/ EvenEnd(p) >= file.fsize)
  BY DEF Regular, WellLaidOut
<1> HIDE DEF n
<1>5. (p + 60 + n) % 2 = 0
  BY <1>1
<1>6. /\ After(p) = EvenEnd(p) /\ After(p) \in Nat /\ After(p) % 2 = 0
      /\ p < After(p) /\ After(p) <= file.fsize
      /\ After(p) \in Members \/ After(p) = file.fsize
  BY <1>1, <1>2, <1>3, <1>4, <1>5
<1>7. ASSUME After(p) \in Members
      PROVE  After(p) + HeaderAt(After(p)).size <= file.fsize
  <2> DEFINE q == After(p)
             m == HeaderAt(q).size
  <2>1. q \in Members /\ q \in Nat /\ m \in Nat /\ HeaderAt(q) = file.headers[q]
    BY <1>6, <1>7, HeaderIs, MemberIs DEF Regular
  <2>2. q + 60 + m <= file.fsize
    BY <2>1 DEF Regular, WellLaidOut, End, ArHdr
  <2> HIDE DEF q, m
  <2>3. q + m <= file.fsize
    BY <1>1, <2>1, <2>2
  <2> QED BY <2>3 DEF q, m
<1>8. ASSUME After(p) \notin Members, file.beyond.size = 0
      PROVE  After(p) + HeaderAt(After(p)).size <= file.fsize
  <2>1. After(p) = file.fsize
    BY <1>6, <1>8
  <2>2. file.fsize \notin DOMAIN file.headers /\ file.fsize + 1 \notin DOMAIN file.headers
    BY <1>1, ArchivesAssumption DEF SARMAG
  <2>3. file.fsize \notin DOMAIN file.shifted
    BY <2>2, ArchivesAssumption
  <2>4. ~(file.fsize + ArHdr <= file.fsize)
    BY <1>1 DEF ArHdr
  <2>5. HeaderAt(file.fsize) = file.beyond
    BY <2>2, <2>3, <2>4 DEF HeaderAt
  <2> QED BY <1>1, <1>8, <2>1, <2>5
<1> QED BY <1>6, <1>7, <1>8

\* What stands at the offset of a member the check walk looks at.
LEMMA CheckLooksAt ==
  ASSUME file \in Archives, Regular, NEW p \in Members, file.headers[p].ext = extended
  PROVE  /\ p + ArHdr + (IF extended THEN HeaderAt(p).len ELSE 0) = Data(p)
         /\ Rejected(Data(p), After(p)) =>
              /\ bin = "nm"
              /\ KindAt(p) = "FAT" \/ After(p) + HeaderAt(After(p)).size > file.fsize
         /\ bin = "nm" /\ KindAt(p) = "FAT" => Rejected(Data(p), After(p))
<1>1. HeaderAt(p) = file.headers[p] /\ Data(p) < file.fsize
  BY MemberIs DEF Regular
<1>2. Data(p) = p + ArHdr + (IF extended THEN HeaderAt(p).len ELSE 0)
  BY <1>1 DEF Data
<1>3. HeaderAt(p).len \in Int /\ p \in Nat /\ file.fsize \in Nat
  BY HeaderIs, MemberIs DEF Regular, Header
<1>4. Data(p) \in Int
  BY <1>2, <1>3 DEF ArHdr
<1>5. ~(Data(p) > file.fsize)
  BY <1>1, <1>3, <1>4
<1> QED BY <1>2, <1>5 DEF Rejected, fatal, KindAt

\* One step of the check walk over a regular archive.
LEMMA CheckStep ==
  ASSUME Types, AtMembers, Regular, CheckMember
  PROVE  /\ pc = "check" /\ pos \in Members /\ pos \in Nat /\ pos % 2 = 0
         /\ \/ /\ pc' = "refused" /\ bin = "nm"
               /\ KindAt(pos) = "FAT" \/ file.beyond.size # 0
            \/ /\ pc' = "check" /\ pos' = EvenEnd(pos) /\ pos' % 2 = 0
               /\ pos' \in Members \/ pos' >= file.fsize
               /\ bin = "nm" => KindAt(pos) # "FAT"
         /\ cpu' = (IF KindAt(pos) = "MH" /\ cpu.cputype = 0
                      THEN [cputype |-> ContentAt(Data(pos)).cputype,
                            cpusubtype |-> ContentAt(Data(pos)).cpusubtype] ELSE cpu)
         /\ IF KindAt(pos) = "MH" /\ ~check
              THEN check' \in check_arch_in_file(cpu'.cputype, cpu'.cpusubtype,
                                                 archs, archs[k])
              ELSE check' = check
<1>1. /\ pc = "check" /\ pos < file.fsize /\ pos \in Int /\ file \in Archives
      /\ file.fsize \in Nat
  BY ArchivesAssumption DEF CheckMember, Types
<1>2. /\ pos \in Members /\ pos \in Nat /\ pos % 2 = 0 /\ file.headers[pos].ext = extended
  <2>1. pos \in Members /\ pos % 2 = 0 /\ file.headers[pos].ext = extended
    BY <1>1 DEF AtMembers
  <2> QED BY <1>1, <2>1, MemberIs DEF Regular
<1>3. /\ pos + ArHdr + (IF extended THEN HeaderAt(pos).len ELSE 0) = Data(pos)
      /\ Rejected(Data(pos), After(pos)) =>
           /\ bin = "nm"
           /\ KindAt(pos) = "FAT" \/ After(pos) + HeaderAt(After(pos)).size > file.fsize
      /\ bin = "nm" /\ KindAt(pos) = "FAT" => Rejected(Data(pos), After(pos))
  BY <1>1, <1>2, CheckLooksAt
<1>4. /\ After(pos) = EvenEnd(pos) /\ After(pos) \in Nat /\ After(pos) % 2 = 0
      /\ After(pos) \in Members \/ After(pos) = file.fsize
      /\ After(pos) \in Members \/ file.beyond.size = 0 =>
           After(pos) + HeaderAt(After(pos)).size <= file.fsize
  BY <1>1, <1>2, CheckFollowsLayout
<1>5. HeaderAt(After(pos)).size \in Int
  BY <1>1, HeaderIs
<1>6. /\ cpu' = (IF KindAt(pos) = "MH" /\ cpu.cputype = 0
                   THEN [cputype |-> ContentAt(Data(pos)).cputype,
                         cpusubtype |-> ContentAt(Data(pos)).cpusubtype] ELSE cpu)
      /\ IF KindAt(pos) = "MH" /\ ~check
           THEN check' \in check_arch_in_file(cpu'.cputype, cpu'.cpusubtype,
                                              archs, archs[k])
           ELSE check' = check
      /\ IF Rejected(Data(pos), After(pos))
           THEN pc' = "refused" /\ pos' = pos
           ELSE pc' = pc /\ pos' = After(pos)
  BY <1>3 DEF CheckMember, KindAt, After
<1>7. CASE Rejected(Data(pos), After(pos))
  <2>1. KindAt(pos) = "FAT" \/ file.beyond.size # 0
    BY <1>1, <1>3, <1>4, <1>5, <1>7
  <2> QED BY <1>1, <1>2, <1>3, <1>6, <1>7, <2>1
<1>8. CASE ~Rejected(Data(pos), After(pos))
  <2>1. pc' = "check" /\ pos' = EvenEnd(pos) /\ pos' % 2 = 0
        /\ (pos' \in Members \/ pos' >= file.fsize)
    BY <1>1, <1>4, <1>6, <1>8
  <2> QED BY <1>1, <1>2, <1>3, <1>6, <1>8, <2>1
<1> QED BY <1>7, <1>8

\* Between a member and its even end no other member begins.
LEMMA NoneBetween ==
  ASSUME file \in Archives, Regular, NEW p \in Members, p % 2 = 0, NEW q \in Members
  PROVE  q < EvenEnd(p) <=> q < p \/ q = p
<1>1. /\ p \in Nat /\ q \in Nat /\ EvenEnd(p) \in Nat /\ p < EvenEnd(p)
  BY MemberIs, CheckFollowsLayout DEF Regular
<1>2. p < q => EvenEnd(p) <= q
  BY DEF Regular, WellLaidOut
<1> QED BY <1>1, <1>2

\* The check walk of a regular archive begins at its first member.
LEMMA CheckStarts ==
  ASSUME Types, Regular, StartFlag
  PROVE  /\ pc = "flag" /\ k' = k /\ k <= Flags /\ check' = (from \/ AllArchs(archs))
         /\ cpu' = NoCpu /\ finalCheck' = finalCheck /\ missing' = missing
         /\ \/ pc' = "handle" /\ Members = {}
            \/ /\ pc' = "check" /\ pos' = SARMAG /\ SARMAG \in Members
               /\ \A p \in Members : file.headers[p].ext = extended'
<1>1. file \in Archives /\ file.fsize \in Nat /\ file.fsize >= SARMAG
  BY ArchivesAssumption DEF Types
<1>2. CASE file.fsize = SARMAG
  BY <1>2 DEF StartFlag, Regular, WellLaidOut
<1>3. CASE file.fsize # SARMAG
  <2>1. SARMAG \in Members
    BY <1>3 DEF Regular, WellLaidOut
  <2>2. HeaderAt(SARMAG) = file.headers[SARMAG] /\ HeaderAt(SARMAG).size \in Nat
    BY <1>1, <2>1, HeaderIs, MemberIs DEF Regular
  <2>3. SARMAG + ArHdr + HeaderAt(SARMAG).size <= file.fsize
    BY <2>1, <2>2 DEF Regular, WellLaidOut, End
  <2>4. ~(SARMAG + ArHdr > file.fsize) /\ ~(SARMAG + HeaderAt(SARMAG).size > file.fsize)
    BY <1>1, <2>2, <2>3 DEF SARMAG, ArHdr
  <2>5. \A p \in Members : file.headers[p].ext = HeaderAt(SARMAG).ext
    BY <2>1, <2>2 DEF Regular, UniformNames
  <2> QED BY <1>3, <2>1, <2>4, <2>5 DEF StartFlag
<1> QED BY <1>2, <1>3

LEMMA InitAtMembers == Init => AtMembers /\ NoFatBehind /\ Accepting /\ OnlyFatRefuses
BY DEF Init, AtMembers, NoFatBehind, Accepting, OnlyFatRefuses

LEMMA StepAtMembers == Types /\ AtMembers /\ [Next]_vars => AtMembers'
<1> SUFFICES ASSUME Types, AtMembers, [Next]_vars, Regular, pc' = "check"
             PROVE  /\ pos' % 2 = 0 /\ (pos' \in Members \/ pos' >= file.fsize)
                    /\ \A p \in Members : file.headers[p].ext = extended'
  BY RegularStays DEF AtMembers
<1>1. CASE StartFlag
  BY <1>1, CheckStarts DEF SARMAG
<1>2. CASE CheckMember
  <2>1. extended' = extended
    BY <1>2 DEF CheckMember
  <2>2. pc = "check" /\ pos' % 2 = 0 /\ (pos' \in Members \/ pos' >= file.fsize)
    BY <1>2, CheckStep
  <2> QED BY <2>1, <2>2 DEF AtMembers
<1>3. CASE UNCHANGED vars
  BY <1>3 DEF vars, AtMembers
<1>4. ~Open /\ ~EndFlag /\ ~EndCheck /\ ~HandleMember /\ ~EndHandle
  BY DEF Open, EndFlag, EndCheck, HandleMember, EndHandle
<1> QED BY <1>1, <1>2, <1>3, <1>4 DEF Next, Step

LEMMA StepNoFatBehind ==
  Types /\ AtMembers /\ NoFatBehind /\ [Next]_vars => NoFatBehind'
<1> SUFFICES ASSUME Types, AtMembers, NoFatBehind, [Next]_vars PROVE NoFatBehind'
  OBVIOUS
<1> SUFFICES ASSUME Regular, bin = "nm"
             PROVE  /\ pc' = "check" => \A p \in Members : p < pos' => KindAt(p) # "FAT"
                    /\ k' > 1 \/ pc' \in {"handle", "done"} =>
                         \A p \in Members : KindAt(p) # "FAT"
  <2>1. /\ bin' = bin /\ Members' = Members /\ (Regular' <=> Regular)
        /\ \A p : KindAt(p)' = KindAt(p)
    BY RegularStays
  <2> QED BY <2>1 DEF NoFatBehind
<1>0. /\ file \in Archives /\ k \in Nat \ {0} /\ file.fsize \in Nat /\ pos \in Int
      /\ file.fsize >= SARMAG
      /\ \A p \in Members : p \in Nat /\ p < file.fsize /\ p >= SARMAG
  BY ArchivesAssumption DEF Types, Members, SARMAG
<1>1. CASE Open
  <2>1. pc' = "flag" /\ k' = k /\ pc = "open"
    BY <1>1 DEF Open
  <2> QED BY <2>1 DEF NoFatBehind
<1>2. CASE StartFlag
  <2>1. \/ pc' = "handle" /\ Members = {}
        \/ pc' = "check" /\ pos' = SARMAG
    BY <1>2, CheckStarts
  <2>2. k' = k
    BY <1>2, CheckStarts
  <2>3. \A p \in Members : ~(p < SARMAG)
    BY <1>0 DEF SARMAG
  <2> QED BY <2>1, <2>2, <2>3 DEF NoFatBehind
<1>3. CASE CheckMember
  <2>1. /\ pc = "check" /\ pos \in Members /\ pos % 2 = 0
        /\ \/ pc' = "refused"
           \/ pc' = "check" /\ pos' = EvenEnd(pos) /\ KindAt(pos) # "FAT"
    BY <1>3, CheckStep
  <2>2. k' = k
    BY <1>3 DEF CheckMember
  <2>3. \A p \in Members : p < EvenEnd(pos) <=> p < pos \/ p = pos
    BY <1>0, <2>1, NoneBetween
  <2> QED BY <2>1, <2>2, <2>3 DEF NoFatBehind
<1>4. CASE EndFlag
  <2>1. pc = "check" /\ pos >= file.fsize
    BY <1>4 DEF EndFlag
  <2>2. \A p \in Members : p < pos
    BY <1>0, <2>1
  <2>3. \A p \in Members : KindAt(p) # "FAT"
    BY <2>1, <2>2 DEF NoFatBehind
  <2> QED BY <2>3
<1>5. CASE EndCheck
  <2>1. k > 1 /\ k' = k /\ pc' # "check"
    BY <1>5, <1>0, SomeFlag DEF EndCheck
  <2> QED BY <2>1 DEF NoFatBehind
<1>6. CASE HandleMember
  <2>1. pc = "handle" /\ pc' # "check" /\ k' = k
    BY <1>6, HandleMemberDoes
  <2> QED BY <2>1 DEF NoFatBehind
<1>7. CASE EndHandle
  <2>1. pc = "handle" /\ pc' # "check" /\ k' = k
    BY <1>7 DEF EndHandle
  <2> QED BY <2>1 DEF NoFatBehind
<1>8. CASE UNCHANGED vars
  BY <1>8 DEF vars, NoFatBehind
<1> QED BY <1>1, <1>2, <1>3, <1>4, <1>5, <1>6, <1>7, <1>8 DEF Next, Step

LEMMA StepAccepting == Types /\ Accepting /\ [Next]_vars => Accepting'
<1> SUFFICES ASSUME Types, Accepting, [Next]_vars, AnyArch
             PROVE  (pc' = "check" => check') /\ (k' > 1 => finalCheck')
  BY RegularStays DEF Accepting, AnyArch
<1>0. k \in Nat \ {0}
  BY DEF Types
<1>1. CASE Open
  BY <1>1 DEF Open, Accepting
<1>2. CASE StartFlag
  BY <1>2 DEF StartFlag, Accepting, AnyArch
<1>3. CASE CheckMember
  <2>1. pc = "check" /\ k' = k /\ finalCheck' = finalCheck
    BY <1>3 DEF CheckMember
  <2>2. check
    BY <2>1 DEF Accepting
  <2>3. check' = check
    BY <1>3, <2>2 DEF CheckMember
  <2> QED BY <2>1, <2>2, <2>3 DEF Accepting
<1>4. CASE EndFlag
  BY <1>4 DEF EndFlag, Accepting
<1>5. CASE EndCheck
  BY <1>5 DEF EndCheck, Accepting
<1>6. CASE HandleMember
  <2>1. pc' # "check" /\ k' = k /\ finalCheck' = finalCheck
    BY <1>6 DEF HandleMember
  <2> QED BY <2>1 DEF Accepting
<1>7. CASE EndHandle
  BY <1>7 DEF EndHandle, Accepting
<1>8. CASE UNCHANGED vars
  BY <1>8 DEF vars, Accepting
<1> QED BY <1>1, <1>2, <1>3, <1>4, <1>5, <1>6, <1>7, <1>8 DEF Next, Step

LEMMA StepOnlyFatRefuses ==
  Types /\ AtMembers /\ Accepting /\ OnlyFatRefuses /\ [Next]_vars => OnlyFatRefuses'
<1> SUFFICES ASSUME Types, AtMembers, Accepting, OnlyFatRefuses, [Next]_vars
             PROVE  OnlyFatRefuses'
  OBVIOUS
<1> SUFFICES ASSUME Regular, pc' = "refused", AnyArch, file.beyond.size = 0
             PROVE  bin = "nm" /\ \E p \in Members : KindAt(p) = "FAT"
  <2>1. /\ UNCHANGED <<file, archs, bin, from>> /\ Members' = Members
        /\ (Regular' <=> Regular) /\ \A p : KindAt(p)' = KindAt(p)
    BY RegularStays
  <2> QED BY <2>1 DEF OnlyFatRefuses, AnyArch
<1>1. CASE CheckMember
  BY <1>1, CheckStep
<1>2. CASE EndCheck
  <2>1. k > 1
    BY <1>2, SomeFlag DEF EndCheck, Types
  <2>2. finalCheck
    BY <2>1 DEF Accepting
  <2> QED BY <1>2, <2>2 DEF EndCheck
<1>3. CASE StartFlag
  BY <1>3, CheckStarts
<1>4. CASE HandleMember
  BY <1>4, HandleMemberDoes
<1>5. CASE UNCHANGED vars
  BY <1>5 DEF vars, OnlyFatRefuses
<1>6. ~Open /\ ~EndFlag /\ ~EndHandle
  BY DEF Open, EndFlag, EndHandle
<1> QED BY <1>1, <1>2, <1>3, <1>4, <1>5, <1>6 DEF Next, Step

\* nm lists no regular archive that holds a fat file, and refuses one for no other
\* reason when it looks for no architecture: the check walk meets each member.
THEOREM RefusesOnlyFat == Spec => []RefusedForAReason
<1> DEFINE I == Types /\ AtMembers /\ NoFatBehind /\ Accepting /\ OnlyFatRefuses
<1>1. Init => I
  BY InitTypes, InitAtMembers
<1>2. I /\ [Next]_vars => I'
  BY StepTypes, StepAtMembers, StepNoFatBehind, StepAccepting, StepOnlyFatRefuses
<1>3. I => RefusedForAReason
  BY DEF NoFatBehind, OnlyFatRefuses, AnyArch, Regular, KindAt, RefusedForAReason
<1> QED BY <1>1, <1>2, <1>3, PTL DEF Spec

-----------------------------------------------------------------------------
(* Which flags are found *)

IsObject(p) == KindAt(p) = "MH"

FirstObject == CHOOSE p \in Members :
                 IsObject(p) /\ \A q \in Members : IsObject(q) => p <= q

\* The first object has the architecture of that name.
Exact(name) == \E p \in Members :
                 IsObject(p) /\ Cpu(ContentAt(Data(FirstObject))) = Cpu(Info(name))

\* The case the property is about.
Asked == /\ ~AnyArch /\ Regular
         /\ bin = "nm" => \A p \in Members : KindAt(p) # "FAT"
         /\ file.beyond.size = 0

\* No architecture is noted in front of the first object; once that is passed a
\* flag it answers to is found, and stays found when the turns of the others end.
Found ==
  Asked =>
    /\ pc = "check" =>
         /\ (\A p \in Members : p < pos => ~IsObject(p)) => cpu = NoCpu
         /\ (\E p \in Members : p < pos /\ IsObject(p)) /\ Exact(archs[k]) => check
    /\ \A j \in DOMAIN archs : j < k /\ Exact(archs[j]) => finalCheck
    /\ pc = "refused" => \A j \in DOMAIN archs : ~Exact(archs[j])
    /\ \A name \in missing : ~Exact(name)

LEMMA ExactStays ==
  ASSUME [Next]_vars
  PROVE  /\ UNCHANGED <<file, archs, bin, from>> /\ Members' = Members /\ (Asked' <=> Asked)
         /\ \A p : IsObject(p)' <=> IsObject(p)
         /\ \A name : Exact(name)' <=> Exact(name)
<1>1. UNCHANGED <<file, archs, bin, from>> /\ Members' = Members /\ (Regular' <=> Regular)
  BY RegularStays
<1>2. \A p : /\ IsObject(p)' <=> IsObject(p)
             /\ KindAt(p)' = KindAt(p) /\ Data(p)' = Data(p) /\ ContentAt(p)' = ContentAt(p)
  BY RegularStays DEF IsObject
<1>3. Asked' <=> Asked
  BY <1>1, <1>2 DEF Asked, AnyArch
<1>4. FirstObject' = FirstObject
  BY <1>1 DEF FirstObject, Members, IsObject, KindAt, ContentAt, Data
<1>5. \A name : Exact(name)' <=> Exact(name)
  BY <1>1, <1>2, <1>4 DEF Exact, Members, IsObject, KindAt, ContentAt, Data
<1> QED BY <1>1, <1>2, <1>3, <1>5

\* The first object the check walk meets is the first of all.
LEMMA MetFirst ==
  ASSUME file \in Archives, Regular, NEW p \in Members, IsObject(p),
         \A q \in Members : q < p => ~IsObject(q)
  PROVE  FirstObject = p
<1>1. \A q \in Members : q \in Nat
  BY MemberIs DEF Regular
<1>2. \A q \in Members : IsObject(q) => p <= q
  BY <1>1
<1>3. \A q \in Members : IsObject(q) /\ (\A r \in Members : IsObject(r) => q <= r) => q = p
  BY <1>1, <1>2
<1> QED BY <1>2, <1>3 DEF FirstObject

\* An object of exactly the architecture of a flag answers to it.
LEMMA ExactAnswers ==
  ASSUME NEW t, NEW s, NEW name,
         t = Info(name).cputype, Masked(s) = Masked(Info(name).cpusubtype)
  PROVE  check_arch_in_file(t, s, archs, name) = {TRUE}
BY DEF check_arch_in_file

LEMMA InitFound == Init => Found
BY DEF Init, Found

\* One step of the check walk.
LEMMA CheckFinds ==
  ASSUME Types, AtMembers, Found, Asked, CheckMember
  PROVE  /\ pc' = "check"
         /\ (\A p \in Members : p < pos' => ~IsObject(p)) => cpu' = NoCpu
         /\ (\E p \in Members : p < pos' /\ IsObject(p)) /\ Exact(archs[k]) => check'
<1>1. /\ pc = "check" /\ pos \in Members /\ pos \in Nat /\ pos % 2 = 0
      /\ pc' = "check" /\ pos' = EvenEnd(pos)
      /\ cpu' = (IF KindAt(pos) = "MH" /\ cpu.cputype = 0
                   THEN [cputype |-> ContentAt(Data(pos)).cputype,
                         cpusubtype |-> ContentAt(Data(pos)).cpusubtype] ELSE cpu)
      /\ IF KindAt(pos) = "MH" /\ ~check
           THEN check' \in check_arch_in_file(cpu'.cputype, cpu'.cpusubtype,
                                              archs, archs[k])
           ELSE check' = check
  BY CheckStep DEF Asked
<1>2. \A p \in Members : p < pos' <=> p < pos \/ p = pos
  BY <1>1, NoneBetween DEF Types, Asked
<1>3. CASE ~IsObject(pos)
  <2>1. cpu' = cpu /\ check' = check
    BY <1>1, <1>3 DEF IsObject
  <2> QED BY <1>1, <1>2, <1>3, <2>1 DEF Found
<1>4. CASE IsObject(pos)
  <2>1. ASSUME Exact(archs[k]) PROVE check'
    <3>1. CASE check
      BY <1>1, <3>1
    <3>2. CASE ~check
      <4>1. \A p \in Members : p < pos => ~IsObject(p)
        BY <1>1, <2>1, <3>2 DEF Found
      <4>2. cpu = NoCpu /\ FirstObject = pos
        BY <1>1, <1>4, <4>1, MetFirst DEF Found, Types, Asked
      <4>3. /\ cpu'.cputype = Info(archs[k]).cputype
            /\ Masked(cpu'.cpusubtype) = Masked(Info(archs[k]).cpusubtype)
        BY <1>1, <1>4, <2>1, <4>2 DEF NoCpu, IsObject, Exact, Cpu
      <4>4. check' \in check_arch_in_file(cpu'.cputype, cpu'.cpusubtype, archs, archs[k])
        BY <1>1, <1>4, <3>2 DEF IsObject
      <4>5. check' \in {TRUE}
        BY <4>3, <4>4, ExactAnswers
      <4> QED BY <4>5, Zenon
    <3> QED BY <3>1, <3>2
  <2> QED BY <1>1, <1>2, <1>4, <2>1
<1> QED BY <1>3, <1>4

LEMMA StepFound == Types /\ AtMembers /\ Found /\ [Next]_vars => Found'
<1> SUFFICES ASSUME Types, AtMembers, Found, [Next]_vars PROVE Found'
  OBVIOUS
<1> SUFFICES ASSUME Asked
             PROVE  /\ pc' = "check" =>
                         /\ (\A p \in Members : p < pos' => ~IsObject(p)) => cpu' = NoCpu
                         /\ (\E p \in Members : p < pos' /\ IsObject(p)) /\ Exact(archs[k'])
                              => check'
                    /\ \A j \in DOMAIN archs : j < k' /\ Exact(archs[j]) => finalCheck'
                    /\ pc' = "refused" => \A j \in DOMAIN archs : ~Exact(archs[j])
                    /\ \A name \in missing' : ~Exact(name)
  <2>1. /\ UNCHANGED <<archs>> /\ Members' = Members /\ (Asked' <=> Asked)
        /\ \A p : IsObject(p)' <=> IsObject(p)
        /\ \A name : Exact(name)' <=> Exact(name)
    BY ExactStays
  <2> QED BY <2>1 DEF Found
<1>0. /\ file \in Archives /\ k \in Nat \ {0} /\ file.fsize \in Nat /\ pos \in Int
      /\ file.fsize >= SARMAG
      /\ \A p \in Members : p \in Nat /\ p < file.fsize /\ p >= SARMAG
  BY ArchivesAssumption DEF Types, Members, SARMAG
<1>1. CASE Open
  <2>1. /\ pc' \notin {"check", "refused"} /\ k' = k /\ finalCheck' = finalCheck
        /\ missing' = missing
    BY <1>1 DEF Open
  <2> QED BY <2>1 DEF Found
<1>2. CASE StartFlag
  <2>1. /\ k' = k /\ finalCheck' = finalCheck /\ missing' = missing /\ cpu' = NoCpu
        /\ pc' = "handle" \/ (pc' = "check" /\ pos' = SARMAG)
    BY <1>2, CheckStarts DEF Asked
  <2>2. \A p \in Members : ~(p < SARMAG)
    BY <1>0 DEF SARMAG
  <2> QED BY <2>1, <2>2 DEF Found
<1>3. CASE CheckMember
  <2>1. k' = k /\ finalCheck' = finalCheck /\ missing' = missing
    BY <1>3 DEF CheckMember
  <2>2. /\ pc' = "check"
        /\ (\A p \in Members : p < pos' => ~IsObject(p)) => cpu' = NoCpu
        /\ (\E p \in Members : p < pos' /\ IsObject(p)) /\ Exact(archs[k]) => check'
    BY <1>3, CheckFinds
  <2> QED BY <2>1, <2>2 DEF Found
<1>4. CASE EndFlag
  <2>1. /\ pc = "check" /\ pos >= file.fsize /\ pc' = "flag" /\ k' = k + 1
        /\ finalCheck' = (finalCheck \/ check)
        /\ missing' = (IF check THEN missing ELSE missing \cup {archs[k]})
    BY <1>4 DEF EndFlag
  <2>2. Exact(archs[k]) => check
    <3>1. Exact(archs[k]) => \E p \in Members : p < pos /\ IsObject(p)
      BY <1>0, <2>1 DEF Exact
    <3> QED BY <2>1, <3>1 DEF Found
  <2>3. \A j \in DOMAIN archs : j < k' => j < k \/ j = k
    BY <1>0, <2>1, ArchFlagsAssumption DEF Types
  <2>4. \A j \in DOMAIN archs : j < k' /\ Exact(archs[j]) => finalCheck'
    BY <2>1, <2>2, <2>3 DEF Found
  <2>5. \A name \in missing' : ~Exact(name)
    BY <2>1, <2>2 DEF Found
  <2> QED BY <2>1, <2>4, <2>5
<1>5. CASE EndCheck
  <2>1. /\ k > Flags /\ pc' # "check" /\ k' = k /\ finalCheck' = finalCheck
        /\ missing' = missing /\ (pc' = "refused" => ~finalCheck)
    BY <1>5 DEF EndCheck
  <2>2. \A j \in DOMAIN archs : j < k
    BY <1>0, <2>1, ArchFlagsAssumption DEF Flags, Asked, AnyArch, AllArchs, Types
  <2> QED BY <2>1, <2>2 DEF Found
<1>6. CASE HandleMember
  <2>1. pc = "handle" /\ pc' \in {"handle", "done"} /\ k' = k
    BY <1>6, HandleMemberDoes
  <2>2. finalCheck' = finalCheck /\ missing' = missing
    BY <1>6 DEF HandleMember
  <2> QED BY <2>1, <2>2 DEF Found
<1>7. CASE EndHandle
  <2>1. pc' = "done" /\ k' = k /\ finalCheck' = finalCheck /\ missing' = missing
    BY <1>7 DEF EndHandle
  <2> QED BY <2>1 DEF Found
<1>8. CASE UNCHANGED vars
  BY <1>8 DEF vars, Found
<1> QED BY <1>1, <1>2, <1>3, <1>4, <1>5, <1>6, <1>7, <1>8 DEF Next, Step

\* Some object is found first, and no flag is of its family.
Foreign == /\ ~AnyArch /\ Regular /\ \E p \in Members : IsObject(p)
           /\ ContentAt(Data(FirstObject)).cputype # 0
           /\ \A j \in DOMAIN archs :
                Info(archs[j]).cputype # ContentAt(Data(FirstObject)).cputype

\* Then no flag is ever found.
NoneFound ==
  Foreign =>
    /\ pc \notin {"handle", "done"} /\ ~finalCheck
    /\ pc = "check" =>
         /\ k \in DOMAIN archs /\ ~check
         /\ (\A p \in Members : p < pos => ~IsObject(p)) => cpu = NoCpu
         /\ (\E p \in Members : p < pos /\ IsObject(p)) =>
              cpu.cputype = ContentAt(Data(FirstObject)).cputype

LEMMA ForeignStays ==
  ASSUME [Next]_vars
  PROVE  /\ archs' = archs /\ Members' = Members /\ (Foreign' <=> Foreign)
         /\ \A p : IsObject(p)' <=> IsObject(p)
         /\ ContentAt(Data(FirstObject))' = ContentAt(Data(FirstObject))
<1>1. UNCHANGED <<file, archs, bin, from>> /\ Members' = Members /\ (Regular' <=> Regular)
  BY RegularStays
<1>2. \A p : IsObject(p)' <=> IsObject(p)
  BY RegularStays DEF IsObject
<1>3. FirstObject' = FirstObject /\ ContentAt(Data(FirstObject))' = ContentAt(Data(FirstObject))
  BY <1>1 DEF FirstObject, Members, IsObject, KindAt, ContentAt, Data
<1> QED BY <1>1, <1>2, <1>3 DEF Foreign, AnyArch

LEMMA InitNoneFound == Init => NoneFound
BY DEF Init, NoneFound

\* One step of the check walk past a member, in front of or behind the first object.
LEMMA CheckFindsNone ==
  ASSUME Types, AtMembers, NoneFound, Foreign, CheckMember
  PROVE  /\ ~check' /\ pc' \in {"check", "refused"}
         /\ pc' = "check" =>
              /\ (\A p \in Members : p < pos' => ~IsObject(p)) => cpu' = NoCpu
              /\ (\E p \in Members : p < pos' /\ IsObject(p)) =>
                   cpu'.cputype = ContentAt(Data(FirstObject)).cputype
<1>1. /\ pc = "check" /\ pos \in Members /\ pos \in Nat /\ pos % 2 = 0
      /\ pc' = "refused" \/ (pc' = "check" /\ pos' = EvenEnd(pos))
      /\ cpu' = (IF KindAt(pos) = "MH" /\ cpu.cputype = 0
                   THEN [cputype |-> ContentAt(Data(pos)).cputype,
                         cpusubtype |-> ContentAt(Data(pos)).cpusubtype] ELSE cpu)
      /\ IF KindAt(pos) = "MH" /\ ~check
           THEN check' \in check_arch_in_file(cpu'.cputype, cpu'.cpusubtype,
                                              archs, archs[k])
           ELSE check' = check
  BY CheckStep DEF Foreign
<1>2. \A p \in Members : p < EvenEnd(pos) <=> p < pos \/ p = pos
  BY <1>1, NoneBetween DEF Types, Foreign
<1>3. k \in DOMAIN archs /\ ~check
  BY <1>1 DEF NoneFound
<1>4. CASE ~IsObject(pos)
  <2>1. cpu' = cpu /\ check' = check
    BY <1>1, <1>4 DEF IsObject
  <2> QED BY <1>1, <1>2, <1>3, <1>4, <2>1 DEF NoneFound
<1>5. CASE IsObject(pos)
  <2>1. cpu'.cputype = ContentAt(Data(FirstObject)).cputype
    <3>1. CASE \E p \in Members : p < pos /\ IsObject(p)
      <4>1. cpu.cputype = ContentAt(Data(FirstObject)).cputype /\ cpu.cputype # 0
        BY <1>1, <3>1 DEF NoneFound, Foreign
      <4> QED BY <1>1, <4>1
    <3>2. CASE \A p \in Members : p < pos => ~IsObject(p)
      <4>1. cpu = NoCpu /\ FirstObject = pos
        BY <1>1, <1>5, <3>2, MetFirst DEF NoneFound, Foreign, Types
      <4> QED BY <1>1, <1>5, <4>1 DEF NoCpu, IsObject
    <3> QED BY <3>1, <3>2
  <2>2. check' \in check_arch_in_file(cpu'.cputype, cpu'.cpusubtype, archs, archs[k])
    BY <1>1, <1>3, <1>5 DEF IsObject
  <2>3. check_arch_in_file(cpu'.cputype, cpu'.cpusubtype, archs, archs[k]) = {FALSE}
    BY <1>3, <2>1 DEF check_arch_in_file, Foreign
  <2>4. check' \in {FALSE}
    BY <2>2, <2>3
  <2>5. ~check'
    BY <2>4, Zenon
  <2> QED BY <1>1, <1>2, <1>5, <2>1, <2>5
<1> QED BY <1>4, <1>5

LEMMA StepNoneFound == Types /\ AtMembers /\ NoneFound /\ [Next]_vars => NoneFound'
<1> SUFFICES ASSUME Types, AtMembers, NoneFound, [Next]_vars, Foreign
             PROVE  /\ pc' \notin {"handle", "done"} /\ ~finalCheck'
                    /\ pc' = "check" =>
                         /\ k' \in DOMAIN archs /\ ~check'
                         /\ (\A p \in Members : p < pos' => ~IsObject(p)) => cpu' = NoCpu
                         /\ (\E p \in Members : p < pos' /\ IsObject(p)) =>
                              cpu'.cputype = ContentAt(Data(FirstObject)).cputype
  BY ForeignStays DEF NoneFound
<1>0. archs # << >> /\ pc \notin {"handle", "done"} /\ ~finalCheck
  BY DEF Foreign, AnyArch, AllArchs, NoneFound
<1>1. CASE Open
  BY <1>0, <1>1 DEF Open
<1>2. CASE StartFlag
  <2>1. /\ k' = k /\ k <= Flags /\ check' = (from \/ AllArchs(archs)) /\ cpu' = NoCpu
        /\ finalCheck' = finalCheck
        /\ pc' = "check" /\ pos' = SARMAG
    BY <1>2, CheckStarts DEF Foreign
  <2>2. archs \in Seq(STRING)
    BY ArchFlagsAssumption DEF Types
  <2>3. k \in DOMAIN archs
    BY <1>0, <2>1, <2>2 DEF Flags, Types
  <2>4. \A p \in Members : p \in Nat /\ p >= SARMAG
    BY ArchivesAssumption DEF Types, Members, SARMAG
  <2>5. \A p \in Members : ~(p < SARMAG)
    BY <2>4 DEF SARMAG
  <2> QED BY <1>0, <2>1, <2>3, <2>5 DEF Foreign, AnyArch
<1>3. CASE CheckMember
  <2>1. k' = k /\ finalCheck' = finalCheck /\ pc = "check"
    BY <1>3 DEF CheckMember
  <2>2. k \in DOMAIN archs
    BY <2>1 DEF NoneFound
  <2> QED BY <1>0, <1>3, <2>1, <2>2, CheckFindsNone
<1>4. CASE EndFlag
  <2>1. pc' = "flag" /\ finalCheck' = (finalCheck \/ check) /\ ~check
    BY <1>4 DEF EndFlag, NoneFound
  <2> QED BY <1>0, <2>1
<1>5. CASE EndCheck
  BY <1>0, <1>5 DEF EndCheck
<1>6. ~HandleMember /\ ~EndHandle
  BY <1>0 DEF HandleMember, EndHandle
<1>7. CASE UNCHANGED vars
  BY <1>7 DEF vars, NoneFound
<1> QED BY <1>1, <1>2, <1>3, <1>4, <1>5, <1>6, <1>7 DEF Next, Step

\* The first object decides: no archive is refused, and no flag reported missing,
\* whose architecture that object has, and none is listed whose family it has not.
THEOREM FindsTheFlag == Spec => []ListedIfFound
<1> DEFINE I == Types /\ AtMembers /\ Found /\ NoneFound
<1>1. Init => I
  BY InitTypes, InitAtMembers, InitFound, InitNoneFound
<1>2. I /\ [Next]_vars => I'
  BY StepTypes, StepAtMembers, StepFound, StepNoneFound
<1>3. I => ListedIfFound
  <2> SUFFICES ASSUME Found, NoneFound PROVE ListedIfFound
    OBVIOUS
  <2> QED BY DEF Found, NoneFound, Foreign, Asked, AnyArch, Regular, KindAt, IsObject,
                 FirstObject, Exact, ListedIfFound
<1> QED BY <1>1, <1>2, <1>3, PTL DEF Spec

=============================================================================
