------------------------------ MODULE Archive ------------------------------
(***************************************************************************)
(* handle_archive_file: the check walk over the members of an archive      *)
(* (check_archive_file), once per -arch flag, then the handle walk, which  *)
(* hands the object files on to handle_macho_file.  The two walks step     *)
(* differently: only the handle walk skips the byte that pads a member to  *)
(* an even length.                                                         *)
(*                                                                         *)
(* The archive is what a read at each offset yields: `headers' has the     *)
(* member headers, `contents' what stands at the offsets where contents    *)
(* begin; `shifted' has what reads one byte in front of a header yield.    *)
(* Any other read, also in front of the file, yields the file's `noise', a *)
(* read of a header that ends behind the file its `beyond'.  A number read *)
(* by ft_atoll may have a minus sign.                                      *)
(***************************************************************************)
EXTENDS Arch, FiniteSets

CONSTANTS
  Archives,   \* the archives to handle
  ArchFlags,  \* the lists check_arch_flags may leave: << >>, <<"all">>, names
  Bins        \* a subset of {"nm", "otool"}

SARMAG == 8   \* the archive magic
ArHdr  == 60  \* sizeof(struct ar_hdr)

\* `ext': the name starts with AR_EFMT1; `len': ft_atoll of what follows those
\* three characters, whatever the name is; `symdef': the extended name is
\* __.SYMDEF or __.SYMDEF SORTED.
Header  == {h \in [size : Int, ext : BOOLEAN, len : Int, symdef : BOOLEAN] :
              h.symdef => h.ext}
Content == [kind : {"MH", "FAT", "ARCHIVE", "UNKNOWN"}, cputype : Int,
            cpusubtype : Int, fatok : BOOLEAN]

NoContent == [kind |-> "UNKNOWN", cputype |-> 0, cpusubtype |-> 0, fatok |-> FALSE]
NoCpu     == [cputype |-> 0, cpusubtype |-> 0]

ASSUME ArchivesAssumption ==
  \A f \in Archives :
    /\ f.fsize \in Nat /\ f.fsize >= SARMAG
    /\ DOMAIN f.headers \subseteq SARMAG..(f.fsize - 1)
    /\ \A p \in DOMAIN f.headers : f.headers[p] \in Header
    /\ \A p \in DOMAIN f.shifted : f.shifted[p] \in Header /\ p + 1 \in DOMAIN f.headers
    /\ f.noise \in Header /\ f.beyond \in Header
ASSUME ArchFlagsAssumption ==
  \A fl \in ArchFlags :
    /\ fl \in Seq(STRING)
    /\ AllArchs(fl) \/ \A j \in DOMAIN fl : fl[j] \in ArchNames
ASSUME BinsAssumption == Bins \subseteq {"nm", "otool"}

VARIABLES
  file, archs, bin,  \* the archive, pinfo->options->arch_flags, pinfo->bin
  from,              \* pinfo->fat_arch_from is set
  pc,                \* "open", "flag", "check", "handle", "refused", "done"
  k,                 \* the -arch flag being looked for
  pos,               \* ar_hd - mfile
  extended,          \* the check walk's extended
  cpu,               \* cputype and cpusubtype of the first object seen
  check, finalCheck,
  missing,           \* flags reported as not contained
  seen,              \* history: header offsets the check walk has looked at
  handed             \* header offsets of the members handed on, in order

vars == <<file, archs, bin, from, pc, k, pos, extended, cpu, check, finalCheck,
          missing, seen, handed>>
input == <<file, archs, bin, from>>

HeaderAt(p)  == IF p \in DOMAIN file.headers THEN file.headers[p]
                ELSE IF p \in DOMAIN file.shifted THEN file.shifted[p]
                ELSE IF p + ArHdr <= file.fsize THEN file.noise ELSE file.beyond
ContentAt(p) == IF p \in DOMAIN file.contents THEN file.contents[p] ELSE NoContent

fatal == bin = "nm"

-----------------------------------------------------------------------------
Init ==
  /\ file \in Archives /\ archs \in ArchFlags /\ bin \in Bins /\ from \in BOOLEAN
  /\ pc = "open" /\ k = 1 /\ pos = 0 /\ extended = FALSE /\ cpu = NoCpu
  /\ check = FALSE /\ finalCheck = FALSE
  /\ missing = {} /\ seen = {} /\ handed = << >>

\* Mutant: nm checks an archive only to look for an architecture, too.
Open_OnlyWithArch ==
  /\ pc = "open"
  /\ IF archs # << >> THEN pc' = "flag" /\ pos' = pos
                      ELSE pc' = "handle" /\ pos' = SARMAG
  /\ UNCHANGED <<input, k, extended, cpu, check, finalCheck, missing, seen, handed>>

\* otool checks an archive only to look for an architecture.
Open ==
  /\ pc = "open"
  /\ IF bin = "nm" \/ archs # << >>
       THEN pc' = "flag" /\ pos' = pos
       ELSE pc' = "handle" /\ pos' = SARMAG
  /\ UNCHANGED <<input, k, extended, cpu, check, finalCheck, missing, seen, handed>>

-----------------------------------------------------------------------------
(* check_archive_file *)

\* Mutant: the loop does not turn without an -arch flag.
Flags_None == Len(archs)

Flags == IF archs = << >> THEN 1 ELSE Len(archs)

\* One turn of the outer loop begins.
StartFlag ==
  /\ pc = "flag" /\ k <= Flags
  /\ check' = (from \/ AllArchs(archs))
  /\ cpu' = NoCpu
  /\ IF file.fsize = SARMAG
       THEN pc' = "handle" /\ pos' = SARMAG /\ extended' = extended
     ELSE IF fatal /\ \/ SARMAG + ArHdr > file.fsize
                      \/ SARMAG + HeaderAt(SARMAG).size > file.fsize
       THEN pc' = "refused" /\ UNCHANGED <<pos, extended>>
     ELSE pc' = "check" /\ pos' = SARMAG /\ extended' = HeaderAt(SARMAG).ext
  /\ UNCHANGED <<input, k, finalCheck, missing, seen, handed>>

\* Mutant: nobody looks where the next member would stand.
Rejected_NoNext(hd, next) ==
  fatal /\ \/ hd > file.fsize
           \/ ContentAt(hd).kind = "FAT"

\* The fatal findings about one member and the header behind it.
Rejected(hd, next) ==
  fatal /\ \/ hd > file.fsize
           \/ ContentAt(hd).kind = "FAT"
           \/ next + HeaderAt(next).size > file.fsize

\* Not a step forward where the size is -60, and one back where it is smaller.
CheckStride(h) == h.size + ArHdr

\* Only the first object's architecture is compared, by every later one too.
CheckMember ==
  /\ pc = "check" /\ pos < file.fsize
  /\ LET h    == HeaderAt(pos)
         hd   == pos + ArHdr + (IF extended THEN h.len ELSE 0)
         c    == ContentAt(hd)
         next == pos + CheckStride(h)
     IN /\ seen' = seen \cup {pos}
        /\ cpu' = (IF c.kind = "MH" /\ cpu.cputype = 0
                     THEN [cputype |-> c.cputype, cpusubtype |-> c.cpusubtype] ELSE cpu)
        /\ IF c.kind = "MH" /\ ~check
             THEN check' \in check_arch_in_file(cpu'.cputype, cpu'.cpusubtype,
                                                archs, archs[k])
             ELSE check' = check
        /\ IF Rejected(hd, next)
             THEN pc' = "refused" /\ pos' = pos
             ELSE pc' = pc /\ pos' = next
  /\ UNCHANGED <<input, k, extended, finalCheck, missing, handed>>

\* Mutant: the last flag decides alone.
EndFlag_Last ==
  /\ pc = "check" /\ pos >= file.fsize
  /\ finalCheck' = check
  /\ missing' = (IF check THEN missing ELSE missing \cup {archs[k]})
  /\ k' = k + 1 /\ pc' = "flag"
  /\ UNCHANGED <<input, pos, extended, cpu, check, seen, handed>>

EndFlag ==
  /\ pc = "check" /\ pos >= file.fsize
  /\ finalCheck' = (finalCheck \/ check)
  /\ missing' = (IF check THEN missing ELSE missing \cup {archs[k]})
  /\ k' = k + 1 /\ pc' = "flag"
  /\ UNCHANGED <<input, pos, extended, cpu, check, seen, handed>>

EndCheck ==
  /\ pc = "flag" /\ k > Flags
  /\ IF finalCheck THEN pc' = "handle" /\ pos' = SARMAG
                   ELSE pc' = "refused" /\ pos' = pos
  /\ UNCHANGED <<input, k, extended, cpu, check, finalCheck, missing, seen, handed>>

-----------------------------------------------------------------------------
(* The handle walk *)

\* Mutant: no padding.
HandleStride_NoPad(h) == h.size + ArHdr

HandleStride(h) == h.size + ArHdr + ((h.size + ArHdr) % 2)

\* Mutant: the size is compared with its sign, so that one below 0 is small.
HandleMember_Signed ==
  /\ pc = "handle" /\ pos < file.fsize
  /\ LET h  == HeaderAt(pos)
         hd == pos + ArHdr + (IF h.ext THEN h.len ELSE 0)
         c  == IF hd < file.fsize THEN ContentAt(hd) ELSE NoContent
         skip == h.ext /\ h.symdef
     IN /\ handed' = (IF ~skip /\ c.kind = "MH" THEN Append(handed, pos) ELSE handed)
        /\ IF \/ ~skip /\ c.kind = "FAT" /\ bin = "otool" /\ ~c.fatok
              \/ h.size > file.fsize
             THEN pc' = "done" /\ pos' = pos
             ELSE pc' = pc /\ pos' = pos + HandleStride(h)
  /\ UNCHANGED <<input, k, extended, cpu, check, finalCheck, missing, seen>>

\* What one member comes to: an object is handed on unless it is the symbol
\* index; the other kinds only make otool print a line, and a fat file that
\* does not pass check_fat_file ends the walk of otool.  The size is compared as
\* an unsigned number: one below 0 ends the walk like one that is too large.
HandleMember ==
  /\ pc = "handle" /\ pos < file.fsize
  /\ LET h  == HeaderAt(pos)
         hd == pos + ArHdr + (IF h.ext THEN h.len ELSE 0)
         c  == IF hd < file.fsize THEN ContentAt(hd) ELSE NoContent
         skip == h.ext /\ h.symdef
     IN /\ handed' = (IF ~skip /\ c.kind = "MH" THEN Append(handed, pos) ELSE handed)
        /\ IF \/ ~skip /\ c.kind = "FAT" /\ bin = "otool" /\ ~c.fatok
              \/ h.size < 0 \/ h.size > file.fsize
             THEN pc' = "done" /\ pos' = pos
             ELSE pc' = pc /\ pos' = pos + HandleStride(h)
  /\ UNCHANGED <<input, k, extended, cpu, check, finalCheck, missing, seen>>

EndHandle ==
  /\ pc = "handle" /\ pos >= file.fsize
  /\ pc' = "done"
  /\ UNCHANGED <<input, k, pos, extended, cpu, check, finalCheck, missing, seen, handed>>

Step == \/ Open \/ StartFlag \/ CheckMember \/ EndFlag \/ EndCheck
        \/ HandleMember \/ EndHandle

Stopped == pc \in {"refused", "done"}

Next == Step \/ (Stopped /\ UNCHANGED vars)

Spec == Init /\ [][Next]_vars /\ WF_vars(Step)

-----------------------------------------------------------------------------
(* The reference: the members as ar(5) lays them out. *)

End(p)      == p + ArHdr + file.headers[p].size
EvenEnd(p)  == End(p) + (End(p) % 2)
Data(p)     == p + ArHdr + (IF file.headers[p].ext THEN file.headers[p].len ELSE 0)
Members     == DOMAIN file.headers

\* Every member stands inside the file, the next one at its even end, none
\* inside another.
WellLaidOut ==
  /\ Members = {} <=> file.fsize = SARMAG
  /\ Members # {} => SARMAG \in Members
  /\ \A p, q \in Members : p < q => EvenEnd(p) <= q
  /\ \A p \in Members : /\ file.headers[p].size >= 0
                        /\ End(p) <= file.fsize
                        /\ Data(p) < file.fsize
                        /\ EvenEnd(p) \in Members \/ EvenEnd(p) >= file.fsize

\* Every size that is read is even, whatever stands there.
EvenSizes ==
  /\ \A p \in Members : file.headers[p].size % 2 = 0
  /\ \A p \in DOMAIN file.shifted : file.shifted[p].size % 2 = 0
  /\ file.noise.size % 2 = 0 /\ file.beyond.size % 2 = 0

\* All members write their names in the same way.
UniformNames == \A p, q \in Members : file.headers[p].ext = file.headers[q].ext

Objects == {p \in Members : ContentAt(Data(p)).kind = "MH" /\ ~file.headers[p].symdef}

-----------------------------------------------------------------------------
(* Properties *)

\* A well laid out archive that is not refused is handed on completely and in
\* file order, each object once and nothing else, odd sizes included; only a bad
\* fat member ends otool's walk early.
ListsEveryObject ==
  /\ pc = "done" /\ WellLaidOut
  /\ bin = "otool" => \A p \in Members :
       ContentAt(Data(p)).kind = "FAT" => ContentAt(Data(p)).fatok
  => /\ {handed[j] : j \in DOMAIN handed} = Objects
     /\ \A j, l \in DOMAIN handed : j < l => handed[j] < handed[l]

\* nm hands on no member the check walk passed by, though the two walks step
\* differently.  Needed: even sizes (see the README for odd ones).
HandedWereChecked ==
  bin = "nm" /\ EvenSizes => {handed[j] : j \in DOMAIN handed} \subseteq seen

\* nm lists no well laid out archive with a fat file among its members, and when
\* no architecture is to be looked for it refuses one for no other reason.  Needed:
\* what stands behind the file does not read as a large member, since the check
\* walk reads the size of a header behind the last member too.
RefusedForAReason ==
  LET fat == \E p \in Members : ContentAt(Data(p)).kind = "FAT" IN
  bin = "nm" /\ WellLaidOut /\ EvenSizes /\ UniformNames =>
    /\ pc = "done" => ~fat
    /\ pc = "refused" /\ (from \/ AllArchs(archs)) /\ file.beyond.size = 0 => fat

\* With -arch the archive is listed when one flag was found, whichever it is.
\* A flag is found when the first object has that architecture, and none is when
\* it is of another family than all of them.
ListedIfFound ==
  LET object(p) == ContentAt(Data(p)).kind = "MH"
      first == ContentAt(Data(CHOOSE p \in Members :
                 object(p) /\ \A q \in Members : object(q) => p <= q))
      exact(name) == \E p \in Members : /\ object(p)
                                        /\ Cpu(first) = Cpu(Info(name))
  IN  ~AllArchs(archs) /\ ~from /\ WellLaidOut /\ EvenSizes /\ UniformNames =>
        /\ (bin = "nm" => \A p \in Members : ContentAt(Data(p)).kind # "FAT")
           /\ file.beyond.size = 0
           => /\ pc = "refused" => \A j \in DOMAIN archs : ~exact(archs[j])
              /\ \A j \in DOMAIN archs : archs[j] \in missing => ~exact(archs[j])
        /\ pc = "done" /\ (\E p \in Members : object(p)) /\ first.cputype # 0 =>
             \E j \in DOMAIN archs : Info(archs[j]).cputype = first.cputype

\* Every member nm hands on ends inside the file, whatever the last header
\* claims: the check walk compares where it would go next with the file's end.
\* Needed: no minus sign behind the file, for the size read there is added.
MembersInside ==
  bin = "nm" /\ EvenSizes /\ file.beyond.size >= 0 => \A j \in DOMAIN handed :
    handed[j] + ArHdr + HeaderAt(handed[j]).size <= file.fsize

\* "is a fat file (not allowed in an archive)": whatever the sizes and the
\* names of the other members are.
FatNotAllowed ==
  bin = "nm" /\ pc = "done" /\ WellLaidOut =>
    \A p \in Members : ContentAt(Data(p)).kind # "FAT"

\* The handle walk comes to an end on every archive, negative sizes included: an
\* otool without -arch, which takes no other walk, always stops.  The check walk
\* comes to its end, too, where every size it may read moves it forward; a size of
\* -60 keeps it where it stands for ever.
Sizes == {file.headers[p].size : p \in DOMAIN file.headers}
         \cup {file.shifted[p].size : p \in DOMAIN file.shifted}
         \cup {file.noise.size, file.beyond.size}

ArchiveEnds ==
  (bin = "otool" /\ archs = << >>) \/ (\A size \in Sizes : size > -ArHdr) => <>Stopped
=============================================================================
