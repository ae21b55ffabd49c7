-------------------------------- MODULE Fat --------------------------------
(***************************************************************************)
(* handle_fat_file: which slices of a fat file are handed on, and as how   *)
(* many bytes.  nm first checks all of them (check_fat_file).  Then one of *)
(* three ways is taken: the slice that suits this machine, all slices, or  *)
(* the slices named with -arch.                                            *)
(***************************************************************************)
EXTENDS Arch

CONSTANTS
  Fats,       \* the fat files to handle
  ArchFlags,  \* the lists check_arch_flags may leave: << >>, <<"all">>, names
  Bins,       \* a subset of {"nm", "otool"}
  HostCpu,    \* [cputype, cpusubtype] of get_local_arch_info
  U32,        \* number of values of a uint32_t
  MaxAlign    \* sizeof(uint32_t) * 8: its width in bits

\* One struct fat_arch and what stands at its offset: the kind of file, the
\* cputype of a Mach-O header there, and whether check_macho_file or
\* check_archive_file accepts it.
FatArch == [cputype : Int, cpusubtype : Int, offset : 0..(U32 - 1), size : 0..(U32 - 1),
            align : 0..(U32 - 1), kind : {"MH", "ARCHIVE", "FAT", "UNKNOWN"},
            hdcpu : Int, ok : BOOLEAN]

FatFile == [fsize : Nat, archs : Seq(FatArch)]

ASSUME WidthAssumption == U32 \in Nat \ {0} /\ MaxAlign \in Nat \ {0}
ASSUME FatsAssumption  == Fats \subseteq FatFile
ASSUME FlagsAssumption ==
  \A fl \in ArchFlags : /\ fl \in Seq(STRING)
                        /\ AllArchs(fl) \/ \A j \in DOMAIN fl : fl[j] \in ArchNames
ASSUME BinsAssumption  == Bins \subseteq {"nm", "otool"}

\* Both of NXGetLocalArchInfo's answers are entries of the table.
ASSUME HostAssumption ==
  \E j \in DOMAIN ArchTable : ArchTable[j].cputype = HostCpu.cputype

VARIABLES
  file, archs, bin,  \* the file, pinfo->options->arch_flags, pinfo->bin
  pc,      \* "check", "choose", "all", "flags", "done" or "refused"
  i,       \* slices checked or handled, or -arch flags looked for
  missing, \* flags reported as not contained
  handed   \* the slices handed on: [n, size, label, cputype]

vars  == <<file, archs, bin, pc, i, missing, handed>>
input == <<file, archs, bin>>

N    == Len(file.archs)
A(n) == file.archs[n]

-----------------------------------------------------------------------------
(* check_fat_file *)

\* 1 << align of a 32-bit integer; the machine takes the count modulo 32.
Unit(align) == 2 ^ (align % MaxAlign)

\* Mutant: neighbours only are compared.
Twice_Next(n) == \E m \in 1..N : m = n + 1 /\ A(m).cputype = A(n).cputype
                                 /\ A(m).cpusubtype = A(n).cpusubtype

\* The subtypes as they stand there: unlike everywhere else, slices that differ
\* in capability bits are different.
Twice(n) == \E m \in 1..N : m # n /\ A(m).cputype = A(n).cputype
                            /\ A(m).cpusubtype = A(n).cpusubtype

\* A cputype that differs from the one in the Mach-O header is only reported.
check_fat_arch(n, ar_from) ==
  /\ (A(n).offset + A(n).size) % U32 <= file.fsize
  /\ A(n).align <= MaxAlign
  /\ A(n).offset % Unit(A(n).align) = 0
  /\ ~Twice(n)
  /\ A(n).kind = "MH" => A(n).ok
  /\ A(n).kind = "ARCHIVE" => ~ar_from /\ A(n).ok

Init ==
  /\ file \in Fats /\ archs \in ArchFlags /\ bin \in Bins
  /\ pc = (IF bin = "nm" THEN "check" ELSE "choose")
  /\ i = 0 /\ missing = {} /\ handed = << >>

\* Mutant: the first slice answers for all.
CheckArch_First ==
  /\ pc = "check"
  /\ IF N = 0 THEN pc' = "refused" /\ i' = i
     ELSE IF ~check_fat_arch(1, FALSE) THEN pc' = "refused" /\ i' = i
     ELSE pc' = "choose" /\ i' = 0
  /\ UNCHANGED <<input, missing, handed>>

CheckArch ==
  /\ pc = "check"
  /\ IF N = 0 THEN pc' = "refused" /\ i' = i
     ELSE IF i = N THEN pc' = "choose" /\ i' = 0
     ELSE IF check_fat_arch(i + 1, FALSE) THEN pc' = pc /\ i' = i + 1
     ELSE pc' = "refused" /\ i' = i
  /\ UNCHANGED <<input, missing, handed>>

-----------------------------------------------------------------------------
(* Handing on *)

\* Mutant: the slice keeps the size its header claims.
Clamp_Claimed(n) == A(n).size

\* What of the slice lies in the file; negative when none does.
Clamp(n) == IF A(n).offset + A(n).size > file.fsize
              THEN file.fsize - A(n).offset ELSE A(n).size

Suits(n) == \/ A(n).kind = "ARCHIVE"
            \/ A(n).kind = "MH" /\ (bin = "otool" \/ A(n).hdcpu = A(n).cputype)

Slice(n, label, cputype) ==
  [n |-> n, size |-> Clamp(n), label |-> label, cputype |-> cputype]

\* The slice is handed on, or a message takes its place.
HandOn(n, label, cputype) ==
  handed' = IF Suits(n) /\ A(n).offset <= file.fsize
              THEN Append(handed, Slice(n, label, cputype)) ELSE handed

\* NXFindBestFatArch: a slice of this machine's cputype, the one of its subtype
\* if there is one.
Best ==
  LET same  == {n \in 1..N : A(n).cputype = HostCpu.cputype}
      exact == {n \in same : Cpu(A(n)) = Cpu(HostCpu)}
  IN  IF exact # {} THEN exact ELSE same

Choose ==
  /\ pc = "choose"
  /\ \/ \E n \in Best : /\ archs = << >> /\ A(n).offset < file.fsize
                        /\ HandOn(n, FALSE, A(n).cputype)
                        /\ pc' = "done"
     \/ /\ archs = << >> => Best = {} \/ \E n \in Best : A(n).offset >= file.fsize
        /\ pc' = (IF AllArchs(archs) THEN "all" ELSE "flags")
        /\ handed' = handed
  /\ UNCHANGED <<input, i, missing>>

\* NXGetArchInfoFromCpuType knows every cputype of its table.
Known(n) == \E j \in DOMAIN ArchTable : ArchTable[j].cputype = A(n).cputype

AllSlices ==
  /\ pc = "all"
  /\ IF i = N THEN pc' = "done" /\ UNCHANGED <<i, handed>>
     ELSE /\ pc' = pc /\ i' = i + 1
          /\ IF Known(i + 1) /\ A(i + 1).offset < file.fsize
               THEN HandOn(i + 1, TRUE, A(i + 1).cputype) ELSE handed' = handed
  /\ UNCHANGED <<input, missing>>

\* Mutant: the capability bits are compared, too.
get_corr_fat_arch_Raw(name) ==
  {n \in 1..N : /\ A(n).cputype = Info(name).cputype
                /\ A(n).cpusubtype = Info(name).cpusubtype}

get_corr_fat_arch(name) == {n \in 1..N : Cpu(A(n)) = Cpu(Info(name))}

EndFlags ==
  /\ pc = "flags" /\ i = Len(archs)
  /\ pc' = "done"
  /\ UNCHANGED <<input, i, missing, handed>>

FlagMissing ==
  /\ pc = "flags" /\ i < Len(archs) /\ get_corr_fat_arch(archs[i + 1]) = {}
  /\ missing' = missing \cup {archs[i + 1]} /\ i' = i + 1
  /\ UNCHANGED <<input, pc, handed>>

First(n, found) == n \in found /\ \A m \in found : n <= m

\* The first slice of that architecture.  The cputype handed on is that of the
\* header at the slice, since get_parse_info overwrites the one set before; an
\* archive has none.
FlagSlice ==
  /\ pc = "flags" /\ i < Len(archs)
  /\ \E n \in 1..N : /\ First(n, get_corr_fat_arch(archs[i + 1]))
                     /\ HandOn(n, Len(archs) > 1,
                               IF A(n).kind = "MH" THEN A(n).hdcpu ELSE 0)
  /\ i' = i + 1
  /\ UNCHANGED <<input, pc, missing>>

Step == CheckArch \/ Choose \/ AllSlices \/ EndFlags \/ FlagMissing \/ FlagSlice

Next == Step \/ (pc \in {"done", "refused"} /\ UNCHANGED vars)

Spec == Init /\ [][Next]_vars

-----------------------------------------------------------------------------
(* Properties *)

HandedSlice == [n : Nat \ {0}, size : Int, label : BOOLEAN, cputype : Int]

TypeOK ==
  /\ file \in FatFile /\ bin \in Bins
  /\ pc \in {"check", "choose", "all", "flags", "done", "refused"}
  /\ i \in Nat
  /\ handed \in Seq(HandedSlice)
  /\ missing \subseteq {archs[j] : j \in DOMAIN archs}
  /\ \A j \in DOMAIN handed : handed[j].n \in 1..N

\* What is handed on lies inside the file, whatever the fat header claims and
\* whichever way was taken: the -arch way alone does not ask first whether the
\* slice begins inside the file.
SlicesInside ==
  \A j \in DOMAIN handed :
    /\ handed[j].size >= 0
    /\ A(handed[j].n).offset + handed[j].size <= file.fsize

\* nm lists nothing of a fat file if one slice of it is malformed, also one it
\* would not list.
AllOrNothing ==
  bin = "nm" /\ handed # << >> =>
    \A n \in 1..N : A(n).kind \in {"MH", "ARCHIVE"} => A(n).ok

\* The -arch flags name different architectures: two names may stand for one.
AskedOnce ==
  \A j, l \in DOMAIN archs : Cpu(Info(archs[j])) = Cpu(Info(archs[l])) => j = l

\* Of all slices nm hands on no two that fat.c:240-241 takes for the same; slices
\* that differ in capability bits alone it does hand on, one after the other.
\* With -arch neither program does even that, unless asked for one twice.
EachOnce ==
  /\ bin = "nm" /\ AllArchs(archs) =>
       \A j, l \in DOMAIN handed :
         /\ A(handed[j].n).cputype = A(handed[l].n).cputype
         /\ A(handed[j].n).cpusubtype = A(handed[l].n).cpusubtype
         => j = l
  /\ ~AllArchs(archs) /\ AskedOnce =>
       \A j, l \in DOMAIN handed : Cpu(A(handed[j].n)) = Cpu(A(handed[l].n)) => j = l

\* Without -arch: the slice of this machine if it begins inside the file, and
\* otherwise every suitable slice that does; with -arch, for both programs, the
\* first slice of each architecture that was asked for, and that one only.
RightSlices ==
  LET got    == {handed[j].n : j \in DOMAIN handed}
      usable == {n \in 1..N : Suits(n) /\ A(n).offset < file.fsize /\ Known(n)}
      native == {n \in Best : A(n).offset < file.fsize}
      named  == {n \in 1..N : /\ \A m \in 1..(n - 1) : Cpu(A(m)) # Cpu(A(n))
                              /\ \E j \in DOMAIN archs : Cpu(A(n)) = Cpu(Info(archs[j]))}
  IN  pc = "done" =>
        /\ archs = << >> /\ Best # {} /\ native = Best =>
             \E n \in native : got = {n} \cap usable
        /\ archs = << >> /\ native = {} => got = usable
        /\ archs = <<"all">> => got = usable
        /\ ~AllArchs(archs) =>
             got = {n \in named : Suits(n) /\ A(n).offset <= file.fsize}

=============================================================================
