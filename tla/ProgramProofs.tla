--------------------------- MODULE ProgramProofs ---------------------------
(***************************************************************************)
(* Proofs about Program for every disk, every command line and every table *)
(* of architectures: a heading stands over a listing of what it names, and *)
(* no two listings carry the same name.  And for every disk whose archives *)
(* and fat files are laid out as they should be: each file is listed as it *)
(* would be alone, in the order of the command line.  For that the proofs  *)
(* about Archive are instantiated for the archive being handled.           *)
(***************************************************************************)
EXTENDS Program, SequenceTheorems, FiniteSetTheorems, WellFoundedInduction, TLAPS

-----------------------------------------------------------------------------
(* Types *)

FatPlaces     == {"check", "choose", "all", "flags", "done", "refused"}
ArchivePlaces == {"open", "flag", "check", "handle", "done", "refused"}

\* Who is running, and on whose behalf.
Modes ==
  /\ mode \in {"main", "fat", "archive", "macho"}
  /\ fpc \in FatPlaces \cup {"idle"} /\ apc \in ArchivePlaces \cup {"idle"}
  /\ mode = "main" => ~InFat /\ ~InAr
  /\ mode = "fat" => InFat /\ ~InAr
  /\ mode = "archive" => InAr
  /\ InFat /\ mode # "fat" => fhanded # << >>
  /\ InAr /\ mode = "macho" => ahanded # << >>

Title == [file : Nat, arch : {<< >>} \cup (Int \X Int), member : Nat]
Places == [file : Nat, slice : Nat, member : Nat]
Entry  == [what : {"heading", "listing"}, name : Title, origin : Places \cup {Nowhere}]

FatTypes ==
  /\ File.kind = "FAT"
  /\ fi \in Nat
  /\ fpc \in {"check", "all"} => fi <= F!N
  /\ fpc = "choose" => fi = 0
  /\ fpc = "flags" => fi <= Len(req.archs)
  /\ fhanded \in Seq(F!HandedSlice)
  /\ \A j \in DOMAIN fhanded : fhanded[j].n \in DOMAIN File.fat.archs

ArchiveTypes ==
  /\ IF InFat THEN File.fat.archs[Slice.n].kind = "ARCHIVE" ELSE File.kind = "ARCHIVE"
  /\ pos \in Int /\ (apc = "handle" => pos \in Nat)
  /\ ahanded \in Seq(Nat)

Types ==
  /\ req \in Requests
  /\ n \in 0..Len(req.files)
  /\ mode # "main" => n # 0
  /\ Modes
  /\ InFat => FatTypes
  /\ InAr => ArchiveTypes
  /\ out \in Seq(Entry)
  /\ start \in Nat

LEMMA RequestIs ==
  ASSUME Types
  PROVE  /\ Len(req.files) \in Nat
         /\ \A j \in 1..Len(req.files) : req.files[j] \in DOMAIN Disk
         /\ Len(req.archs) \in Nat
         /\ req.bin \in {"nm", "otool"}
<1>1. /\ req.files \in Seq(DOMAIN Disk) /\ req.archs \in Seq(STRING)
      /\ req.bin \in {"nm", "otool"}
  BY RequestsAssumption DEF Types
<1> QED BY <1>1

\* The file being handled.
LEMMA FileIs ==
  ASSUME Types, n # 0
  PROVE  /\ n \in 1..Len(req.files)
         /\ req.files[n] \in DOMAIN Disk
<1>1. n \in 1..Len(req.files)
  BY RequestIs DEF Types
<1> QED BY <1>1, RequestIs

LEMMA SliceIs ==
  ASSUME Types, InFat
  PROVE  /\ File.fat \in F!FatFile
         /\ \A s \in DOMAIN File.fat.archs : File.fat.archs[s] \in F!FatArch
         /\ DOMAIN File.fat.archs = 1..F!N /\ F!N \in Nat
<1>1. n # 0
  BY DEF Types, Modes
<1>2. File.kind = "FAT"
  BY DEF Types, FatTypes
<1>3. File.fat \in F!FatFile
  BY <1>1, <1>2, FileIs, DiskAssumption DEF File
<1>4. File.fat.archs \in Seq(F!FatArch)
  BY <1>3 DEF F!FatFile
<1> QED BY <1>3, <1>4 DEF F!N

\* A subtype without its capability bits is a number, too.
LEMMA MaskedType ==
  ASSUME NEW t \in Int
  PROVE  Masked(t) \in Int
BY SubtypeSpanAssumption DEF Masked

LEMMA ArchIs ==
  ASSUME Types, InFat, NEW s \in DOMAIN File.fat.archs
  PROVE  /\ Cpu(File.fat.archs[s]) \in Int \X Int
         /\ File.fat.archs[s].hdcpu \in Int
         /\ F!Clamp(s) \in Int
<1>1. File.fat.archs[s] \in F!FatArch /\ File.fat.fsize \in Nat
  BY SliceIs DEF F!FatFile
<1>2. /\ File.fat.archs[s].cputype \in Int /\ File.fat.archs[s].cpusubtype \in Int
      /\ File.fat.archs[s].hdcpu \in Int
      /\ File.fat.archs[s].offset \in 0..(U32 - 1) /\ File.fat.archs[s].size \in 0..(U32 - 1)
  BY <1>1 DEF F!FatArch
<1>3. File.fat.archs[s].offset \in Int /\ File.fat.archs[s].size \in Int
  BY <1>2, WidthAssumption
<1>4. F!Clamp(s) \in Int
  BY <1>1, <1>3 DEF F!Clamp, F!A
<1>5. Masked(File.fat.archs[s].cpusubtype) \in Int
  BY <1>2, MaskedType
<1> QED BY <1>2, <1>4, <1>5 DEF Cpu

LEMMA HeaderIs ==
  ASSUME Types, InAr, NEW p \in Int
  PROVE  Ar!HeaderAt(p).size \in Int
<1>1. n # 0
  BY DEF Types, Modes
<1> DEFINE ar == IF InFat THEN File.inner[Slice.n] ELSE File.ar
<1>2. IsArchive(ar)
  <2>1. CASE InFat
    <3>1. fhanded # << >> /\ fhanded \in Seq(F!HandedSlice)
      BY <2>1 DEF Types, Modes, FatTypes
    <3>2. Slice.n \in DOMAIN File.fat.archs
      BY <2>1, <3>1 DEF Types, FatTypes, Slice
    <3>3. File.fat.archs[Slice.n].kind = "ARCHIVE" /\ File.kind = "FAT"
      BY <2>1 DEF Types, FatTypes, ArchiveTypes
    <3> QED BY <1>1, <2>1, <3>2, <3>3, FileIs, DiskAssumption DEF File
  <2>2. CASE ~InFat
    <3>1. File.kind = "ARCHIVE"
      BY <2>2 DEF Types, ArchiveTypes
    <3> QED BY <1>1, <2>2, <3>1, FileIs, DiskAssumption DEF File
  <2> QED BY <2>1, <2>2
<1>3. /\ Archive.headers = ar.headers /\ Archive.shifted = ar.shifted
      /\ Archive.noise = ar.noise /\ Archive.beyond = ar.beyond
  BY DEF Archive
<1>4. Ar!HeaderAt(p) \in Ar!Header
  <2> HIDE DEF ar
  <2> QED BY <1>2, <1>3 DEF IsArchive, Ar!HeaderAt
<1> QED BY <1>4 DEF Ar!Header

LEMMA InitTypes == Init => Types
<1> SUFFICES ASSUME Init PROVE Types
  OBVIOUS
<1>1. req \in Requests /\ n = 0 /\ mode = "main" /\ fpc = "idle" /\ apc = "idle"
      /\ out = << >> /\ start = 0
  BY DEF Init
<1>2. req.files \in Seq(DOMAIN Disk)
  BY <1>1, RequestsAssumption
<1>3. Modes
  BY <1>1 DEF Modes, InFat, InAr
<1>4. 0 \in 0..Len(req.files) /\ << >> \in Seq(Entry)
  BY <1>2
<1>5. ~InFat /\ ~InAr
  BY <1>1 DEF InFat, InAr
<1> QED BY <1>1, <1>3, <1>4, <1>5 DEF Types

\* What is printed is made of entries.
LEMMA TitleIs ==
  ASSUME Types, n # 0, NEW arch \in {<< >>} \cup (Int \X Int), NEW member \in Nat
  PROVE  /\ Name(arch, member) \in Title
         /\ Heading(Name(arch, member)) \in Entry
         /\ NmHeading(Name(arch, member)) \in Seq(Entry)
<1>1. n \in Nat
  BY FileIs, RequestIs
<1>2. Name(arch, member) \in Title
  BY <1>1 DEF Name, Title
<1>3. Heading(Name(arch, member)) \in Entry
  BY <1>2 DEF Heading, Entry
<1> QED BY <1>2, <1>3 DEF NmHeading

\* A member that was handed on has a place in the archive.
LEMMA MemberIs ==
  ASSUME Types, InAr, mode = "macho"
  PROVE  /\ Len(ahanded) \in Nat \ {0} /\ Member \in Nat
         /\ Member = ahanded[Len(ahanded)]
<1>1. ahanded \in Seq(Nat) /\ ahanded # << >>
  BY DEF Types, Modes, ArchiveTypes
<1> QED BY <1>1 DEF Member

LEMMA CurrentSlice ==
  ASSUME Types, InFat, mode # "fat"
  PROVE  /\ Len(fhanded) \in Nat \ {0} /\ Slice = fhanded[Len(fhanded)]
         /\ Slice.n \in DOMAIN File.fat.archs /\ Slice.n \in Nat
         /\ Slice.label \in BOOLEAN
         /\ ArchOf(Slice) \in Int \X Int
<1>1. fhanded \in Seq(F!HandedSlice) /\ fhanded # << >>
  BY DEF Types, Modes, FatTypes
<1>2. Len(fhanded) \in Nat \ {0} /\ Slice = fhanded[Len(fhanded)] /\ Slice \in F!HandedSlice
  BY <1>1 DEF Slice
<1>3. Slice.n \in DOMAIN File.fat.archs
  BY <1>2 DEF Types, FatTypes
<1> QED BY <1>2, <1>3, ArchIs DEF F!HandedSlice, ArchOf

\* The architecture shown with an image, its member, and so its name.
ShownArch   == IF Labelled THEN ArchOf(Slice) ELSE << >>
ShownMember == IF InAr THEN Member ELSE 0

LEMMA ShownTypes ==
  ASSUME Types, mode = "macho"
  PROVE  /\ ShownArch \in {<< >>} \cup (Int \X Int) /\ ShownMember \in Nat
         /\ Origin \in Places
         /\ n # 0 /\ n \in Nat
<1>1. n # 0 /\ n \in Nat
  BY FileIs, RequestIs DEF Types
<1>2. ShownArch \in {<< >>} \cup (Int \X Int)
  <2>1. CASE Labelled
    BY <2>1, CurrentSlice DEF Labelled, ShownArch
  <2> QED BY <2>1 DEF ShownArch
<1>3. ShownMember \in Nat
  BY MemberIs DEF ShownMember
<1>4. (IF InFat THEN Slice.n ELSE 0) \in Nat
  BY CurrentSlice
<1> QED BY <1>1, <1>2, <1>3, <1>4 DEF Origin, Places, ShownMember

\* What a step of handle_fat_file does to what was handed on.
FatAdds == \E s \in DOMAIN File.fat.archs, label \in BOOLEAN, cputype \in Int :
             fhanded' = Append(fhanded, F!Slice(s, label, cputype))

LEMMA HandsOn ==
  ASSUME Types, InFat, NEW s \in 1..F!N, NEW label \in BOOLEAN, NEW cputype \in Int,
         F!HandOn(s, label, cputype)
  PROVE  fhanded' = fhanded \/ FatAdds
<1>1. s \in DOMAIN File.fat.archs
  BY SliceIs
<1> QED BY <1>1 DEF F!HandOn, FatAdds

LEMMA FatStepIs ==
  ASSUME Types, mode = "fat", F!Step
  PROVE  /\ fpc' \in FatPlaces /\ fi' \in Nat
         /\ fpc' \in {"check", "all"} => fi' <= F!N
         /\ fpc' = "choose" => fi' = 0
         /\ fpc' = "flags" => fi' <= Len(req.archs)
         /\ fhanded' = fhanded \/ FatAdds
<1>0. /\ InFat /\ fpc \in FatPlaces /\ fi \in Nat
      /\ fpc \in {"check", "all"} => fi <= F!N
      /\ fpc = "choose" => fi = 0
      /\ fpc = "flags" => fi <= Len(req.archs)
      /\ F!N \in Nat /\ Len(req.archs) \in Nat
  BY SliceIs, RequestIs DEF Types, Modes, FatTypes, InFat
<1>1. \A s \in 1..F!N : F!A(s).cputype \in Int /\ F!A(s).hdcpu \in Int
  BY <1>0, SliceIs, ArchIs DEF F!A, F!FatArch
<1>2. CASE F!CheckArch
  <2>1. /\ fpc = "check" /\ fhanded' = fhanded
        /\ \/ fpc' \in {"check", "refused"} /\ fi' = fi
           \/ fpc' = "choose" /\ fi' = 0
           \/ fi # F!N /\ fpc' = "check" /\ fi' = fi + 1
    <3>1. CASE F!N = 0 \/ fi = F!N
      BY <1>2, <3>1, Zenon DEF F!CheckArch
    <3>2. CASE F!N # 0 /\ fi # F!N
      BY <1>2, <3>2, Zenon DEF F!CheckArch
    <3> QED BY <3>1, <3>2
  <2> QED BY <1>0, <2>1 DEF FatPlaces
<1>3. CASE F!Choose
  <2>1. fpc = "choose" /\ fpc' \in {"done", "all", "flags"} /\ fi' = fi
    BY <1>3 DEF F!Choose
  <2>2. fhanded' = fhanded \/ FatAdds
    <3>2. ASSUME NEW s \in F!Best, F!HandOn(s, FALSE, F!A(s).cputype)
          PROVE  fhanded' = fhanded \/ FatAdds
      <4>1. s \in 1..F!N
        BY DEF F!Best
      <4> QED BY <1>0, <1>1, <3>2, <4>1, HandsOn
    <3> QED BY <1>3, <3>2 DEF F!Choose
  <2> QED BY <1>0, <2>1, <2>2 DEF FatPlaces
<1>4. CASE F!AllSlices
  <2>1. fpc = "all" /\ fpc' \in {"all", "done"} /\ fi' \in Nat /\ fi' <= F!N
    <3>1. CASE fi = F!N
      BY <1>0, <1>4, <3>1 DEF F!AllSlices
    <3>2. CASE fi # F!N
      <4>1. fpc = "all" /\ fpc' = fpc /\ fi' = fi + 1
        BY <1>4, <3>2, Zenon DEF F!AllSlices
      <4> QED BY <1>0, <3>2, <4>1
    <3> QED BY <3>1, <3>2
  <2>2. fhanded' = fhanded \/ FatAdds
    <3>1. ASSUME fi # F!N, F!HandOn(fi + 1, TRUE, F!A(fi + 1).cputype)
          PROVE  fhanded' = fhanded \/ FatAdds
      <4>1. fi + 1 \in 1..F!N
        BY <1>0, <1>4, <3>1 DEF F!AllSlices
      <4> QED BY <1>0, <1>1, <3>1, <4>1, HandsOn
    <3> QED BY <1>4, <3>1 DEF F!AllSlices
  <2> QED BY <2>1, <2>2 DEF FatPlaces
<1>5. CASE F!EndFlags
  BY <1>0, <1>5 DEF F!EndFlags, FatPlaces
<1>6. CASE F!FlagMissing
  BY <1>0, <1>6 DEF F!FlagMissing
<1>7. CASE F!FlagSlice
  <2>1. fpc' = fpc /\ fi' = fi + 1 /\ fi < Len(req.archs) /\ fpc = "flags"
    BY <1>7 DEF F!FlagSlice
  <2>2. fhanded' = fhanded \/ FatAdds
    <3>1. PICK s \in 1..F!N : F!HandOn(s, Len(req.archs) > 1,
                                     IF F!A(s).kind = "MH" THEN F!A(s).hdcpu ELSE 0)
      BY <1>7 DEF F!FlagSlice
    <3>2. (Len(req.archs) > 1) \in BOOLEAN
      BY <1>0
    <3> DEFINE cputype == IF F!A(s).kind = "MH" THEN F!A(s).hdcpu ELSE 0
               label == Len(req.archs) > 1
    <3>3. cputype \in Int
      BY <1>1
    <3>4. F!HandOn(s, label, cputype)
      BY <3>1
    <3> HIDE DEF cputype, label
    <3> QED BY <1>0, <3>2, <3>3, <3>4, HandsOn, Zenon DEF label
  <2> QED BY <1>0, <2>1, <2>2
<1> QED BY <1>2, <1>3, <1>4, <1>5, <1>6, <1>7 DEF F!Step

\* What a step of handle_archive_file does to the members handed on.
LEMMA ArchiveStepIs ==
  ASSUME Types, mode = "archive", Ar!Step
  PROVE  /\ apc' \in ArchivePlaces /\ pos' \in Int
         /\ apc' = "handle" => pos' \in Nat
         /\ apc = "handle" => pos \in Nat /\ pos <= pos'
         /\ \/ ahanded' = ahanded
            \/ /\ apc = "handle" /\ ahanded' = Append(ahanded, pos)
               /\ apc' = "done" \/ pos' > pos
<1>0. InAr /\ apc \in ArchivePlaces /\ pos \in Int /\ (apc = "handle" => pos \in Nat)
  BY DEF Types, Modes, ArchiveTypes, InAr
<1>1. Ar!HeaderAt(pos).size \in Int
  BY <1>0, HeaderIs
<1>2. CASE Ar!Open
  BY <1>0, <1>2 DEF Ar!Open, ArchivePlaces, Ar!SARMAG
<1>3. CASE Ar!StartFlag
  BY <1>0, <1>3 DEF Ar!StartFlag, ArchivePlaces, Ar!SARMAG
<1>4. CASE Ar!CheckMember
  <2>1. /\ apc = "check" /\ apc' \in {"check", "refused"} /\ ahanded' = ahanded
        /\ pos' \in {pos, pos + Ar!CheckStride(Ar!HeaderAt(pos))}
    BY <1>4 DEF Ar!CheckMember
  <2>2. Ar!CheckStride(Ar!HeaderAt(pos)) \in Int
    BY <1>1 DEF Ar!CheckStride, Ar!ArHdr
  <2> QED BY <1>0, <2>1, <2>2 DEF ArchivePlaces
<1>5. CASE Ar!EndFlag
  BY <1>0, <1>5 DEF Ar!EndFlag, ArchivePlaces
<1>6. CASE Ar!EndCheck
  BY <1>0, <1>6 DEF Ar!EndCheck, ArchivePlaces, Ar!SARMAG
<1>7. CASE Ar!HandleMember
  <2>1. /\ apc = "handle" /\ ahanded' \in {ahanded, Append(ahanded, pos)}
        /\ \/ apc' = "done" /\ pos' = pos
           \/ /\ Ar!HeaderAt(pos).size >= 0
              /\ apc' = apc /\ pos' = pos + Ar!HandleStride(Ar!HeaderAt(pos))
    BY <1>1, <1>7 DEF Ar!HandleMember
  <2>2. Ar!HeaderAt(pos).size >= 0 => Ar!HandleStride(Ar!HeaderAt(pos)) \in Nat \ {0}
    BY <1>1 DEF Ar!HandleStride, Ar!ArHdr
  <2> QED BY <1>0, <2>1, <2>2 DEF ArchivePlaces
<1>8. CASE Ar!EndHandle
  BY <1>0, <1>8 DEF Ar!EndHandle, ArchivePlaces
<1> QED BY <1>2, <1>3, <1>4, <1>5, <1>6, <1>7, <1>8 DEF Ar!Step

\* Nothing changes about the file while it is handled.
LEMMA SameFile ==
  ASSUME UNCHANGED <<req, n>>
  PROVE  File' = File
BY DEF File

\* What is common to main's actions: the next file is begun.
LEMMA NextFileIs ==
  ASSUME Types, NextFile
  PROVE  /\ mode = "main" /\ ~InFat /\ ~InAr /\ fpc = "idle" /\ apc = "idle"
         /\ n < Len(req.files) /\ n' = n + 1 /\ n' # 0
         /\ req' = req /\ out' = out /\ start' = Len(out)
         /\ req' \in Requests /\ n' \in 0..Len(req'.files)
         /\ out' \in Seq(Entry) /\ start' \in Nat
         /\ File' = Upcoming
<1>1. /\ mode = "main" /\ ~InFat /\ ~InAr /\ n < Len(req.files) /\ n' = n + 1
      /\ req' = req /\ out' = out /\ start' = Len(out)
      /\ fpc = "idle" /\ apc = "idle"
  BY DEF Types, Modes, NextFile, InFat, InAr
<1>2. n \in 0..Len(req.files) /\ Len(req.files) \in Nat /\ out \in Seq(Entry)
      /\ req \in Requests
  BY RequestIs DEF Types
<1>3. File' = Upcoming
  BY <1>1 DEF File, Upcoming
<1> QED BY <1>1, <1>2, <1>3

\* A file that is passed over.
LEMMA PassedOverTypes ==
  ASSUME Types, NextFile, UNCHANGED <<mode, fatVars, archiveVars>>
  PROVE  Types'
<1>1. mode' = "main" /\ fpc' = "idle" /\ apc' = "idle"
  BY NextFileIs DEF fatVars, archiveVars
<1>2. ~InFat' /\ ~InAr' /\ Modes'
  BY <1>1 DEF InFat, InAr, Modes
<1> QED BY <1>1, <1>2, NextFileIs DEF Types

\* Who gets the file.
LEMMA EntersAs ==
  ASSUME Types, handle_file
  PROVE  \/ /\ Upcoming.kind = "FAT" /\ mode' = "fat" /\ EnterFat
            /\ UNCHANGED archiveVars
         \/ /\ Upcoming.kind = "ARCHIVE" /\ mode' = "archive" /\ EnterArchive
            /\ UNCHANGED fatVars
         \/ mode' = "macho" /\ UNCHANGED <<fatVars, archiveVars>>
<1>1. CASE Upcoming.kind = "FAT"
  <2>1. mode' = "fat"
    BY <1>1 DEF handle_file
  <2> QED BY <1>1, <2>1 DEF handle_file
<1>2. CASE Upcoming.kind = "ARCHIVE"
  <2>1. mode' = "archive"
    BY <1>2 DEF handle_file
  <2> QED BY <1>2, <2>1 DEF handle_file
<1>3. CASE Upcoming.kind \notin {"FAT", "ARCHIVE"}
  <2>1. mode' = "macho"
    BY <1>3 DEF handle_file
  <2> QED BY <1>3, <2>1 DEF handle_file
<1> QED BY <1>1, <1>2, <1>3

LEMMA EnteringTypes ==
  ASSUME EnterArchive
  PROVE  /\ apc' = "open" /\ pos' \in Nat /\ ahanded' = << >>
         /\ ahanded' \in Seq(Nat) /\ InAr'
BY DEF EnterArchive, InAr

LEMMA HandleFileTypes ==
  ASSUME Types, handle_file
  PROVE  Types'
<1>0. NextFile
  BY DEF handle_file
<1>1. CASE /\ Upcoming.kind = "FAT" /\ mode' = "fat" /\ EnterFat
           /\ UNCHANGED archiveVars
  <2>1. /\ fpc' \in {"check", "choose"} /\ fi' = 0 /\ fhanded' = << >> /\ apc' = "idle"
    BY <1>0, <1>1, NextFileIs DEF EnterFat, archiveVars
  <2>2. InFat' /\ ~InAr' /\ Modes'
    BY <1>1, <2>1 DEF InFat, InAr, Modes, FatPlaces
  <2>3. F!N' \in Nat
    <3>1. File'.fat \in F!FatFile
      <4>1. req.files[n + 1] \in DOMAIN Disk
        BY <1>0, NextFileIs, RequestIs DEF Types
      <4> QED BY <1>0, <1>1, <4>1, NextFileIs, DiskAssumption DEF Upcoming
    <3> QED BY <3>1 DEF F!FatFile, F!N
  <2>4. FatTypes'
    <3>1. << >> \in Seq(F!HandedSlice)
      OBVIOUS
    <3> QED BY <1>0, <1>1, <2>1, <2>3, <3>1, NextFileIs DEF FatTypes
  <2> QED BY <1>0, <2>2, <2>4, NextFileIs DEF Types
<1>2. CASE /\ Upcoming.kind = "ARCHIVE" /\ mode' = "archive" /\ EnterArchive
           /\ UNCHANGED fatVars
  <2>1. fpc' = "idle"
    BY <1>0, <1>2, NextFileIs DEF fatVars
  <2>2. ~InFat' /\ InAr' /\ Modes'
    BY <1>2, <2>1, EnteringTypes DEF InFat, Modes, ArchivePlaces
  <2>3. ArchiveTypes'
    BY <1>0, <1>2, <2>2, EnteringTypes, NextFileIs DEF ArchiveTypes
  <2> QED BY <1>0, <2>2, <2>3, NextFileIs DEF Types
<1>3. CASE mode' = "macho" /\ UNCHANGED <<fatVars, archiveVars>>
  <2>1. fpc' = "idle" /\ apc' = "idle"
    BY <1>0, <1>3, NextFileIs DEF fatVars, archiveVars
  <2>2. ~InFat' /\ ~InAr' /\ Modes'
    BY <1>3, <2>1 DEF InFat, InAr, Modes
  <2> QED BY <1>0, <2>2, NextFileIs DEF Types
<1> QED BY <1>1, <1>2, <1>3, EntersAs

\* A slice is appended at most, and then handed to one of two.
LEMMA FatHandsOn ==
  ASSUME Types, FatStep
  PROVE  /\ req' = req /\ n' = n /\ start' = start /\ InFat' /\ InFat /\ ~InAr
         /\ mode = "fat" /\ fhanded \in Seq(F!HandedSlice) /\ fhanded' \in Seq(F!HandedSlice)
         /\ \/ fhanded' = fhanded /\ UNCHANGED <<mode, out, archiveVars>>
            \/ /\ FatAdds /\ Kind = "ARCHIVE" /\ mode' = "archive" /\ EnterArchive
               /\ out' = out
            \/ /\ FatAdds /\ mode' = "macho" /\ UNCHANGED archiveVars
               /\ out' = out \o SliceHeading(Slice'.label, Slice')
<1>1. mode = "fat" /\ F!Step /\ UNCHANGED <<req, n, start>>
  BY DEF FatStep
<1>2. InFat /\ ~InAr /\ fhanded \in Seq(F!HandedSlice)
  BY <1>1 DEF Types, Modes, FatTypes
<1>3. fpc' \in FatPlaces /\ (fhanded' = fhanded \/ FatAdds)
  BY <1>1, FatStepIs
<1>4. InFat'
  BY <1>3 DEF InFat, FatPlaces
<1>5. CASE fhanded' = fhanded
  <2>1. Len(fhanded') = Len(fhanded)
    BY <1>5
  <2> QED BY <1>1, <1>2, <1>4, <1>5, <2>1 DEF FatStep
<1>6. CASE FatAdds
  <2>1. PICK s \in DOMAIN File.fat.archs, label \in BOOLEAN, cputype \in Int :
               fhanded' = Append(fhanded, F!Slice(s, label, cputype))
    BY <1>6 DEF FatAdds
  <2>2. F!Slice(s, label, cputype) \in F!HandedSlice
    <3>1. s \in Nat \ {0} /\ F!Clamp(s) \in Int
      <4>1. s \in 1..F!N /\ F!N \in Nat
        BY <1>2, SliceIs, Zenon
      <4>2. F!Clamp(s) \in Int
        BY <1>2, ArchIs, Zenon
      <4> QED BY <4>1, <4>2
    <3> QED BY <3>1 DEF F!Slice, F!HandedSlice
  <2> DEFINE e == F!Slice(s, label, cputype)
  <2> HIDE DEF e
  <2>3. fhanded' \in Seq(F!HandedSlice) /\ Len(fhanded') # Len(fhanded)
    BY <1>2, <2>1, <2>2 DEF e
  <2>4. Slice' = fhanded'[Len(fhanded')]
    BY DEF Slice
  <2>5. CASE Kind = "ARCHIVE"
    BY <1>1, <1>2, <1>4, <1>6, <2>3, <2>5 DEF FatStep
  <2>6. CASE Kind # "ARCHIVE"
    <3>1. mode' = "macho" /\ UNCHANGED archiveVars
      BY <2>3, <2>6 DEF FatStep
    <3>2. out' = out \o SliceHeading(fhanded'[Len(fhanded')].label, fhanded'[Len(fhanded')])
      BY <2>3, <2>6 DEF FatStep
    <3>3. out' = out \o SliceHeading(Slice'.label, Slice')
      BY <2>4, <3>2, Zenon
    <3> QED BY <1>1, <1>2, <1>4, <1>6, <2>3, <3>1, <3>3
  <2> QED BY <2>5, <2>6
<1> QED BY <1>3, <1>5, <1>6

LEMMA SliceHeadingIs ==
  ASSUME Types, n # 0, NEW all, NEW slice, ArchOf(slice) \in Int \X Int
  PROVE  SliceHeading(all, slice) \in Seq(Entry)
<1> DEFINE arch == IF all THEN ArchOf(slice) ELSE << >>
<1>1. arch \in {<< >>} \cup (Int \X Int)
  OBVIOUS
<1>2. SliceHeading(all, slice) \in {NmHeading(Name(arch, 0)), << >>}
  BY DEF SliceHeading
<1> HIDE DEF arch
<1>3. NmHeading(Name(arch, 0)) \in Seq(Entry)
  BY <1>1, TitleIs
<1>4. << >> \in Seq(Entry)
  OBVIOUS
<1> QED BY <1>2, <1>3, <1>4, Zenon

LEMMA FatStepTypes ==
  ASSUME Types, FatStep
  PROVE  Types'
<1>1. /\ req' = req /\ n' = n /\ start' = start /\ InFat' /\ InFat /\ ~InAr /\ mode = "fat"
      /\ fhanded \in Seq(F!HandedSlice) /\ fhanded' \in Seq(F!HandedSlice)
  BY FatHandsOn
<1>2. F!Step /\ File' = File
  BY <1>1, SameFile DEF FatStep
<1>3. FatTypes'
  <2>1. \A j \in DOMAIN fhanded' : fhanded'[j].n \in DOMAIN File.fat.archs
    <3>1. \A j \in DOMAIN fhanded : fhanded[j].n \in DOMAIN File.fat.archs
      BY <1>1 DEF Types, FatTypes
    <3>2. CASE FatAdds
      <4>1. PICK s \in DOMAIN File.fat.archs, label \in BOOLEAN, cputype \in Int :
                   fhanded' = Append(fhanded, F!Slice(s, label, cputype))
        BY <3>2 DEF FatAdds
      <4> DEFINE e == F!Slice(s, label, cputype)
      <4>2. e.n = s
        BY DEF F!Slice
      <4>3. fhanded' = Append(fhanded, e)
        BY <4>1
      <4> HIDE DEF e
      <4>4. \A j \in DOMAIN fhanded' :
              \/ fhanded'[j] = e
              \/ j \in DOMAIN fhanded /\ fhanded'[j] = fhanded[j]
        BY <1>1, <4>3
      <4> QED BY <3>1, <4>2, <4>4
    <3> QED BY <1>1, <1>2, <3>1, <3>2, FatStepIs
  <2>2. F!N' = F!N /\ req' = req
    BY <1>1, <1>2 DEF F!N
  <2>3. File.kind = "FAT"
    BY <1>1 DEF Types, FatTypes
  <2> QED BY <1>1, <1>2, <2>1, <2>2, <2>3, FatStepIs DEF FatTypes
<1>4. fpc' \in FatPlaces
  BY <1>1, <1>2, FatStepIs
<1>5. req \in Requests /\ n \in 0..Len(req.files) /\ n # 0 /\ start \in Nat /\ out \in Seq(Entry)
      /\ apc = "idle"
  BY <1>1 DEF Types, InAr
<1>6. CASE fhanded' = fhanded /\ UNCHANGED <<mode, out, archiveVars>>
  <2>1. apc' = "idle" /\ ~InAr' /\ mode' = "fat" /\ out' = out
    BY <1>1, <1>5, <1>6 DEF archiveVars, InAr
  <2> QED BY <1>1, <1>3, <1>4, <1>5, <2>1 DEF Types, Modes
<1>7. CASE FatAdds /\ Kind = "ARCHIVE" /\ mode' = "archive" /\ EnterArchive /\ out' = out
  <2>1. fhanded' # << >>
    BY <1>1, <1>7 DEF FatAdds
  <2>2. Modes'
    BY <1>1, <1>4, <1>7, <2>1, EnteringTypes DEF Modes, ArchivePlaces
  <2>3. ArchiveTypes'
    <3>1. Slice' = fhanded'[Len(fhanded')]
      BY DEF Slice
    <3>2. File'.fat.archs[Slice'.n].kind = "ARCHIVE"
      BY <1>2, <1>7, <3>1 DEF Kind
    <3> QED BY <1>1, <1>7, <3>2, EnteringTypes DEF ArchiveTypes
  <2> QED BY <1>1, <1>3, <1>5, <1>7, <2>2, <2>3 DEF Types
<1>8. CASE /\ FatAdds /\ mode' = "macho" /\ UNCHANGED archiveVars
           /\ out' = out \o SliceHeading(Slice'.label, Slice')
  <2>1. fhanded' # << >> /\ apc' = "idle" /\ ~InAr'
    BY <1>1, <1>5, <1>8 DEF FatAdds, archiveVars, InAr
  <2>2. Modes'
    BY <1>1, <1>4, <1>8, <2>1 DEF Modes
  <2>3. SliceHeading(Slice'.label, Slice') \in Seq(Entry)
    <3>1. Slice'.n \in DOMAIN File.fat.archs
      <4>1. Slice' = fhanded'[Len(fhanded')] /\ Len(fhanded') \in DOMAIN fhanded'
        BY <1>1, <2>1 DEF Slice
      <4> QED BY <1>2, <1>3, <4>1 DEF FatTypes
    <3>2. ArchOf(Slice') \in Int \X Int
      BY <1>1, <3>1, ArchIs DEF ArchOf
    <3> QED BY <1>5, <3>2, SliceHeadingIs
  <2>4. out' \in Seq(Entry)
    BY <1>5, <1>8, <2>3
  <2> QED BY <1>1, <1>3, <1>5, <1>8, <2>1, <2>2, <2>4 DEF Types
<1> QED BY <1>6, <1>7, <1>8, FatHandsOn

LEMMA EndFatTypes ==
  ASSUME Types, EndFat
  PROVE  Types'
<1>1. /\ mode = "fat" /\ mode' = "main" /\ fpc' = "idle"
      /\ UNCHANGED <<req, n, out, start, apc>>
  BY DEF EndFat, archiveVars
<1>2. apc' = "idle" /\ ~InFat' /\ ~InAr' /\ Modes'
  BY <1>1 DEF Types, Modes, InAr, InFat
<1> QED BY <1>1, <1>2 DEF Types

\* An archive hands on one member at a time.
LEMMA ArchiveHandsOn ==
  ASSUME Types, ArchiveStep
  PROVE  /\ req' = req /\ n' = n /\ start' = start /\ UNCHANGED fatVars
         /\ InAr /\ InAr' /\ InFat' = InFat /\ mode = "archive" /\ File' = File
         /\ ahanded \in Seq(Nat) /\ ahanded' \in Seq(Nat) /\ pos' \in Int
         /\ apc' = "handle" => pos' \in Nat
         /\ apc = "handle" => pos \in Nat /\ pos <= pos'
         /\ \/ ahanded' = ahanded /\ mode' = mode /\ out' = out
            \/ /\ apc = "handle" /\ ahanded' = Append(ahanded, pos)
               /\ apc' = "done" \/ pos' > pos
               /\ mode' = "macho" /\ out' = out \o MemberHeading(pos)
<1>1. mode = "archive" /\ Ar!Step /\ UNCHANGED <<req, n, start, fatVars>>
  BY DEF ArchiveStep
<1>2. InAr /\ ahanded \in Seq(Nat)
  BY <1>1 DEF Types, Modes, ArchiveTypes
<1>3. /\ apc' \in ArchivePlaces /\ pos' \in Int
      /\ apc' = "handle" => pos' \in Nat
      /\ apc = "handle" => pos \in Nat /\ pos <= pos'
      /\ \/ ahanded' = ahanded
         \/ /\ apc = "handle" /\ ahanded' = Append(ahanded, pos)
            /\ apc' = "done" \/ pos' > pos
  BY <1>1, ArchiveStepIs
<1>4. InAr' /\ File' = File /\ InFat' = InFat
  BY <1>1, <1>3, SameFile DEF InAr, ArchivePlaces, InFat, fatVars
<1>5. CASE ahanded' = ahanded
  BY <1>1, <1>2, <1>3, <1>4, <1>5 DEF ArchiveStep
<1>6. CASE apc = "handle" /\ ahanded' = Append(ahanded, pos)
  <2>1. /\ Len(ahanded') # Len(ahanded) /\ ahanded' \in Seq(Nat)
        /\ ahanded'[Len(ahanded')] = pos
    BY <1>2, <1>3, <1>6
  <2>2. mode' = "macho" /\ out' = out \o MemberHeading(pos)
    BY <2>1 DEF ArchiveStep
  <2>3. apc = "handle" /\ (apc' = "done" \/ pos' > pos)
    <3>1. ahanded' # ahanded
      BY <2>1
    <3> QED BY <1>3, <3>1
  <2> QED BY <1>1, <1>2, <1>3, <1>4, <1>6, <2>1, <2>2, <2>3
<1> QED BY <1>3, <1>5, <1>6

LEMMA ArchiveStepTypes ==
  ASSUME Types, ArchiveStep
  PROVE  Types'
<1>1. /\ req' = req /\ n' = n /\ start' = start /\ UNCHANGED fatVars
      /\ InAr /\ InAr' /\ InFat' = InFat /\ mode = "archive" /\ File' = File
      /\ ahanded' \in Seq(Nat) /\ pos' \in Int /\ (apc' = "handle" => pos' \in Nat)
  BY ArchiveHandsOn
<1>2. apc' \in ArchivePlaces
  BY <1>1, ArchiveStepIs DEF ArchiveStep
<1>3. fpc' = fpc /\ fi' = fi /\ fhanded' = fhanded /\ Slice' = Slice
  BY <1>1 DEF fatVars, Slice
<1>4. InFat => FatTypes'
  <2>1. F!N' = F!N
    BY <1>1 DEF F!N
  <2> QED BY <1>1, <1>3, <2>1 DEF Types, FatTypes
<1>5. ArchiveTypes'
  BY <1>1, <1>3 DEF Types, ArchiveTypes
<1>6. /\ req \in Requests /\ n \in 0..Len(req.files) /\ n # 0 /\ start \in Nat
      /\ out \in Seq(Entry)
      /\ fpc \in FatPlaces \cup {"idle"} /\ (InFat => fhanded # << >>)
  BY <1>1 DEF Types, Modes
<1>7. CASE ahanded' = ahanded /\ mode' = mode /\ out' = out
  <2>1. Modes'
    BY <1>1, <1>2, <1>3, <1>6, <1>7 DEF Modes
  <2> QED BY <1>1, <1>4, <1>5, <1>6, <1>7, <2>1 DEF Types
<1>8. CASE /\ ahanded' = Append(ahanded, pos) /\ mode' = "macho" /\ pos \in Nat
           /\ out' = out \o MemberHeading(pos)
  <2>1. ahanded' # << >>
    <3>1. ahanded \in Seq(Nat)
      BY <1>1 DEF Types, ArchiveTypes
    <3>2. \A s \in Seq(Nat) : \A x \in Nat : Append(s, x) # << >>
      OBVIOUS
    <3> QED BY <1>8, <3>1, <3>2
  <2>2. Modes'
    BY <1>1, <1>2, <1>3, <1>6, <1>8, <2>1 DEF Modes
  <2>3. MemberHeading(pos) \in Seq(Entry)
    <3>1. (IF Labelled THEN ArchOf(Slice) ELSE << >>) \in {<< >>} \cup (Int \X Int)
      BY <1>1, CurrentSlice DEF Labelled
    <3>2. pos \in Nat /\ n # 0
      BY <1>6, <1>8
    <3>3. NmHeading(Name(IF Labelled THEN ArchOf(Slice) ELSE << >>, pos)) \in Seq(Entry)
      <4> HIDE <1>1
      <4> QED BY <3>1, <3>2, TitleIs, Zenon
    <3>4. << >> \in Seq(Entry)
      OBVIOUS
    <3>5. \/ MemberHeading(pos) = NmHeading(Name(IF Labelled THEN ArchOf(Slice) ELSE << >>, pos))
          \/ MemberHeading(pos) = << >>
      BY DEF MemberHeading
    <3> QED BY <3>3, <3>4, <3>5
  <2>4. out' \in Seq(Entry)
    BY <1>6, <1>8, <2>3
  <2> QED BY <1>1, <1>4, <1>5, <1>6, <1>8, <2>2, <2>4 DEF Types
<1> QED BY <1>7, <1>8, ArchiveHandsOn

LEMMA EndArchiveTypes ==
  ASSUME Types, EndArchive
  PROVE  Types'
<1>1. /\ mode = "archive" /\ mode' = (IF InFat THEN "fat" ELSE "main") /\ apc' = "idle"
      /\ UNCHANGED <<req, n, out, start, fpc, fi, fhanded>>
  BY DEF EndArchive, fatVars
<1>2. ~InAr' /\ InFat' = InFat /\ File' = File
  BY <1>1, SameFile DEF InAr, InFat
<1>3. InFat => FatTypes'
  <2>1. F!N' = F!N
    BY <1>2 DEF F!N
  <2> QED BY <1>1, <1>2, <2>1 DEF Types, FatTypes
<1>4. Modes'
  BY <1>1, <1>2 DEF Types, Modes
<1> QED BY <1>1, <1>2, <1>3, <1>4 DEF Types

\* What is printed for an image: nothing, or one listing, with a heading of its
\* own from otool, and from nm for a file that is an image itself.
OwnHeading == Heading(IF Labelled THEN Name(ArchOf(Slice), 0)
                      ELSE Name(<< >>, IF InAr THEN Member ELSE 0))
Plain == ~InFat /\ ~InAr

LEMMA OneAndOne ==
  ASSUME NEW h, NEW l
  PROVE  <<h>> \o <<l>> = <<h, l>>
<1> DEFINE S == {h, l}
           z == <<h>> \o <<l>>
           w == <<h, l>>
<1>1. <<h>> \in Seq(S) /\ <<l>> \in Seq(S) /\ w \in Seq(S)
  OBVIOUS
<1>2. z \in Seq(S) /\ Len(z) = 2 /\ z[1] = h /\ z[2] = l
  BY <1>1
<1>3. Len(w) = 2 /\ w[1] = h /\ w[2] = l
  OBVIOUS
<1> HIDE DEF z, w, S
<1>4. z = w
  BY <1>1, <1>2, <1>3, SeqEqual
<1> QED BY <1>4 DEF z, w

LEMMA MachoIs ==
  ASSUME Types, handle_macho_file
  PROVE  /\ mode = "macho"
         /\ mode' = (IF InAr THEN "archive" ELSE IF InFat THEN "fat" ELSE "main")
         /\ UNCHANGED <<req, n, start, fpc, fi, fhanded, apc, pos, ahanded>>
         /\ \/ out' = out
            \/ /\ req.bin = "nm" /\ ~(Several /\ Plain /\ "o" \notin req.flags)
               /\ out' = Append(out, Listing(Prefix))
            \/ /\ req.bin = "nm" /\ Several /\ Plain /\ "o" \notin req.flags
               /\ out' = Append(Append(out, Heading(Name(<< >>, 0))), Listing(Prefix))
            \/ /\ req.bin = "otool"
               /\ out' = Append(Append(out, OwnHeading), Listing(Nowhere))
<1>1. out \in Seq(Entry) /\ req.bin \in {"nm", "otool"}
  BY RequestIs DEF Types
<1>2. PICK accepted \in check_macho_file(Current) :
        out' = out \o (IF ~accepted THEN << >>
                       ELSE IF req.bin = "nm" THEN print_nm(Current) ELSE print_otool)
  BY DEF handle_macho_file
<1>3. CASE ~accepted
  <2>1. out' = out
    BY <1>1, <1>2, <1>3
  <2> QED BY <2>1 DEF handle_macho_file, fatVars, archiveVars
<1>4. CASE accepted /\ req.bin = "nm"
  <2>1. out' = out \o print_nm(Current)
    BY <1>2, <1>4
  <2>2. CASE ~Current.symtab
    <3>1. out' = out
      BY <1>1, <2>1, <2>2 DEF print_nm
    <3> QED BY <3>1 DEF handle_macho_file, fatVars, archiveVars
  <2>3. CASE Current.symtab /\ Several /\ Plain /\ "o" \notin req.flags
    <3>1. print_nm(Current) = <<Heading(Name(<< >>, 0))>> \o <<Listing(Prefix)>>
      BY <2>3 DEF print_nm, NmHeading, Plain
    <3> DEFINE h == Heading(Name(<< >>, 0))
               l == Listing(Prefix)
    <3>2. print_nm(Current) = <<h>> \o <<l>>
      BY <3>1
    <3> HIDE DEF h, l
    <3>3. print_nm(Current) = <<h, l>>
      BY <3>2, OneAndOne
    <3>4. out' = Append(Append(out, h), l)
      BY <1>1, <2>1, <3>3
    <3> QED BY <1>4, <2>3, <3>4 DEF handle_macho_file, fatVars, archiveVars, h, l
  <2>4. CASE Current.symtab /\ ~(Several /\ Plain /\ "o" \notin req.flags)
    <3>1. print_nm(Current) = << >> \o <<Listing(Prefix)>>
      BY <2>4 DEF print_nm, NmHeading, Plain
    <3> DEFINE l == Listing(Prefix)
    <3>2. print_nm(Current) = << >> \o <<l>>
      BY <3>1
    <3> HIDE DEF l
    <3>3. out' = Append(out, l)
      BY <1>1, <2>1, <3>2
    <3> QED BY <1>4, <2>4, <3>3 DEF handle_macho_file, fatVars, archiveVars, l
  <2> QED BY <2>2, <2>3, <2>4
<1>5. CASE accepted /\ req.bin = "otool"
  <2>1. out' = out \o print_otool
    BY <1>2, <1>5
  <2> DEFINE h == OwnHeading
             l == Listing(Nowhere)
  <2>2. print_otool = <<h, l>>
    BY DEF print_otool, OwnHeading
  <2> HIDE DEF h, l
  <2>3. out' = Append(Append(out, h), l)
    BY <1>1, <2>1, <2>2
  <2> QED BY <1>5, <2>3 DEF handle_macho_file, fatVars, archiveVars, h, l
<1> QED BY <1>1, <1>3, <1>4, <1>5

\* A name in front of the lines is the image's.
Own == Name(ShownArch, ShownMember)

LEMMA PrefixIs ==
  /\ "A" \in req.flags \/ ("o" \in req.flags /\ "P" \notin req.flags) => Prefix = Own
  /\ ~("A" \in req.flags \/ ("o" \in req.flags /\ "P" \notin req.flags)) => Prefix = Nowhere
BY DEF Prefix, Own, ShownArch, ShownMember

LEMMA PrintedTypes ==
  ASSUME Types, mode = "macho"
  PROVE  /\ Own \in Title /\ Nowhere \in Title
         /\ OwnHeading \in Entry /\ Heading(Name(<< >>, 0)) \in Entry
         /\ Listing(Prefix) \in Entry /\ Listing(Nowhere) \in Entry
<1>1. /\ ShownArch \in {<< >>} \cup (Int \X Int) /\ ShownMember \in Nat
      /\ Origin \in Places /\ n # 0
  BY ShownTypes
<1>2. Own \in Title /\ Heading(Name(<< >>, 0)) \in Entry
  BY <1>1, TitleIs DEF Own
<1>3. Nowhere \in Title
  BY DEF Nowhere, Title
<1>4. Prefix \in Title
  BY <1>2, <1>3, PrefixIs
<1>5. Listing(Prefix) \in Entry /\ Listing(Nowhere) \in Entry
  BY <1>1, <1>3, <1>4 DEF Listing, Entry
<1>6. OwnHeading \in Entry
  <2>1. CASE Labelled
    <3>1. ArchOf(Slice) \in {<< >>} \cup (Int \X Int)
      BY <1>1, <2>1 DEF ShownArch
    <3> QED BY <1>1, <2>1, <3>1, TitleIs DEF OwnHeading
  <2>2. CASE ~Labelled
    <3>1. (IF InAr THEN Member ELSE 0) \in Nat
      BY <1>1 DEF ShownMember
    <3> QED BY <1>1, <2>2, <3>1, TitleIs DEF OwnHeading
  <2> QED BY <2>1, <2>2
<1> QED BY <1>2, <1>3, <1>5, <1>6

LEMMA MachoTypes ==
  ASSUME Types, handle_macho_file
  PROVE  Types'
<1>1. /\ mode = "macho"
      /\ mode' = (IF InAr THEN "archive" ELSE IF InFat THEN "fat" ELSE "main")
      /\ UNCHANGED <<req, n, start, fpc, fi, fhanded, apc, pos, ahanded>>
  BY MachoIs
<1>2. InAr' = InAr /\ InFat' = InFat /\ File' = File /\ Slice' = Slice
  BY <1>1, SameFile DEF InAr, InFat, Slice
<1>3. InFat => FatTypes'
  <2>1. F!N' = F!N
    BY <1>2 DEF F!N
  <2> QED BY <1>1, <1>2, <2>1 DEF Types, FatTypes
<1>4. InAr => ArchiveTypes'
  BY <1>1, <1>2 DEF Types, ArchiveTypes
<1>5. Modes'
  BY <1>1, <1>2 DEF Types, Modes
<1>6. out' \in Seq(Entry)
  <2>1. out \in Seq(Entry)
    BY DEF Types
  <2> DEFINE h == Heading(Name(<< >>, 0))
             l == Listing(Prefix)
             m == Listing(Nowhere)
  <2>2. h \in Entry /\ l \in Entry /\ m \in Entry /\ OwnHeading \in Entry
    BY <1>1, PrintedTypes
  <2>3. out' \in {out, Append(out, l), Append(Append(out, h), l), Append(Append(out, OwnHeading), m)}
    BY MachoIs
  <2> HIDE DEF h, l, m
  <2> QED BY <2>1, <2>2, <2>3
<1> QED BY <1>1, <1>2, <1>3, <1>4, <1>5, <1>6 DEF Types

LEMMA StepTypes == Types /\ [Next]_vars => Types'
<1> SUFFICES ASSUME Types, [Next]_vars PROVE Types'
  OBVIOUS
<1>1. CASE UNCHANGED vars
  <2>1. UNCHANGED <<req, n, mode, out, start, fpc, fi, fhanded, apc, pos, ahanded>>
    BY <1>1 DEF vars, fatVars, archiveVars
  <2>2. InAr' = InAr /\ InFat' = InFat /\ File' = File /\ Slice' = Slice /\ F!N' = F!N
    BY <2>1, SameFile DEF InAr, InFat, Slice, F!N
  <2> QED BY <2>1, <2>2 DEF Types, FatTypes, ArchiveTypes, Modes
<1>2. CASE CannotOpen
  BY <1>2, PassedOverTypes DEF CannotOpen
<1>3. CASE CannotMap
  BY <1>3, PassedOverTypes DEF CannotMap
<1>4. CASE NotAnObject
  BY <1>4, PassedOverTypes DEF NotAnObject
<1> QED BY <1>1, <1>2, <1>3, <1>4, HandleFileTypes, FatStepTypes, EndFatTypes,
           ArchiveStepTypes, EndArchiveTypes, MachoTypes DEF Next, Step

-----------------------------------------------------------------------------
(* What stands under a heading *)

\* The ways of handle_fat_file: slices are handed on with their architecture
\* shown, or only one is.
FatWays ==
  InFat =>
    /\ fpc \in {"check", "choose", "refused"} => fhanded = << >>
    /\ fpc = "all" => \A j \in DOMAIN fhanded : fhanded[j].label
    /\ fpc = "flags" => /\ Len(fhanded) <= fi
                        /\ Len(req.archs) > 1 => \A j \in DOMAIN fhanded : fhanded[j].label
    /\ fpc = "done" => Len(fhanded) <= 1 \/ \A j \in DOMAIN fhanded : fhanded[j].label

OneUnlabelled ==
  InFat => Len(fhanded) <= 1 \/ \A j \in DOMAIN fhanded : fhanded[j].label

LEMMA WaysMean == Types /\ FatWays => OneUnlabelled
<1> SUFFICES ASSUME Types, FatWays, InFat
             PROVE  Len(fhanded) <= 1 \/ \A j \in DOMAIN fhanded : fhanded[j].label
  BY DEF OneUnlabelled
<1>1. /\ fpc \in FatPlaces /\ fhanded \in Seq(F!HandedSlice) /\ fi \in Nat
      /\ fpc = "flags" => fi <= Len(req.archs)
      /\ Len(req.archs) \in Nat
  BY RequestIs DEF Types, Modes, FatTypes, InFat
<1>2. Len(fhanded) \in Nat /\ Len(<< >>) = 0
  BY <1>1
<1>3. CASE fpc = "flags"
  BY <1>1, <1>2, <1>3 DEF FatWays
<1>4. CASE fpc # "flags"
  BY <1>1, <1>2, <1>4 DEF FatWays, FatPlaces
<1> QED BY <1>3, <1>4

LEMMA WaysMeanNext == Types' /\ FatWays' => OneUnlabelled'
BY WaysMean, PTL

LEMMA HandOnWays ==
  ASSUME Types, InFat, NEW s \in 1..F!N, NEW label \in BOOLEAN, NEW cputype \in Int,
         F!HandOn(s, label, cputype)
  PROVE  /\ fhanded' \in Seq(F!HandedSlice)
         /\ Len(fhanded) <= Len(fhanded') /\ Len(fhanded') <= Len(fhanded) + 1
         /\ label => \A j \in DOMAIN fhanded' :
                        fhanded'[j].label \/ (j \in DOMAIN fhanded /\ fhanded'[j] = fhanded[j])
<1>1. fhanded \in Seq(F!HandedSlice)
  BY DEF Types, FatTypes
<1>2. CASE fhanded' = fhanded
  BY <1>1, <1>2
<1>3. CASE fhanded' = Append(fhanded, F!Slice(s, label, cputype))
  <2> DEFINE e == F!Slice(s, label, cputype)
  <2>1. e.label = label
    BY DEF F!Slice
  <2>2. e \in F!HandedSlice
    <3>1. s \in Nat \ {0}
      BY SliceIs
    <3>2. F!Clamp(s) \in Int
      BY SliceIs, ArchIs
    <3> QED BY <3>1, <3>2 DEF F!Slice, F!HandedSlice
  <2>3. fhanded' = Append(fhanded, e)
    BY <1>3
  <2> HIDE DEF e
  <2>4. /\ fhanded' \in Seq(F!HandedSlice) /\ Len(fhanded') = Len(fhanded) + 1
        /\ \A j \in DOMAIN fhanded' :
             fhanded'[j] = e \/ (j \in DOMAIN fhanded /\ fhanded'[j] = fhanded[j])
    BY <1>1, <2>2, <2>3
  <2>5. Len(fhanded) \in Nat
    BY <1>1
  <2> QED BY <2>1, <2>4, <2>5
<1> QED BY <1>2, <1>3 DEF F!HandOn

LEMMA FatWaysStep ==
  ASSUME Types, FatWays, mode = "fat", F!Step, req' = req
  PROVE  FatWays'
<1>0. /\ InFat /\ fpc \in FatPlaces /\ fi \in Nat
      /\ fpc = "all" => fi <= F!N
      /\ fpc = "choose" => fi = 0
      /\ F!N \in Nat /\ Len(req.archs) \in Nat
      /\ fhanded \in Seq(F!HandedSlice) /\ Len(fhanded) \in Nat
  BY SliceIs, RequestIs DEF Types, Modes, FatTypes, InFat
<1>1. \A s \in 1..F!N : F!A(s).cputype \in Int /\ F!A(s).hdcpu \in Int
  BY <1>0, SliceIs, ArchIs DEF F!A, F!FatArch
<1>2. CASE F!CheckArch
  <2>1. /\ fpc = "check" /\ fhanded' = fhanded
        /\ fpc' \in {"check", "refused", "choose"}
    BY <1>2 DEF F!CheckArch
  <2> QED BY <1>0, <2>1 DEF FatWays
<1>3. CASE F!Choose
  <2>1. fpc = "choose" /\ fi' = fi /\ fhanded = << >>
    BY <1>0, <1>3 DEF F!Choose, FatWays
  <2>2. CASE fpc' = "done"
    <3>1. PICK s \in F!Best : F!HandOn(s, FALSE, F!A(s).cputype)
      BY <1>3, <2>2 DEF F!Choose
    <3>2. s \in 1..F!N
      BY DEF F!Best
    <3>3. Len(fhanded') <= 1
      <4>1. F!A(s).cputype \in Int /\ Len(fhanded) = 0 /\ FALSE \in BOOLEAN
        BY <1>1, <2>1, <3>2
      <4>2. Len(fhanded') <= Len(fhanded) + 1 /\ fhanded' \in Seq(F!HandedSlice)
        BY <1>0, <3>1, <3>2, <4>1, HandOnWays
      <4> QED BY <4>1, <4>2
    <3> QED BY <2>2, <3>3 DEF FatWays
  <2>3. CASE fpc' # "done"
    <3>1. fhanded' = fhanded /\ fpc' \in {"all", "flags"}
      BY <1>3, <2>3 DEF F!Choose
    <3>2. fhanded' = << >> /\ Len(fhanded') = 0 /\ fi' = 0 /\ DOMAIN fhanded' = {}
      BY <1>0, <2>1, <3>1
    <3> QED BY <3>1, <3>2 DEF FatWays
  <2> QED BY <2>2, <2>3
<1>4. CASE F!AllSlices
  <2>0. fpc = "all" /\ fpc' \in {"all", "done"}
    BY <1>4 DEF F!AllSlices
  <2>1. \A j \in DOMAIN fhanded : fhanded[j].label
    BY <1>0, <2>0 DEF FatWays
  <2>2. \A j \in DOMAIN fhanded' : fhanded'[j].label
    <3>1. ASSUME fi # F!N, F!HandOn(fi + 1, TRUE, F!A(fi + 1).cputype)
          PROVE  \A j \in DOMAIN fhanded' : fhanded'[j].label
      <4>1. fi + 1 \in 1..F!N
        BY <1>0, <2>0, <3>1
      <4> QED BY <1>0, <1>1, <2>1, <3>1, <4>1, HandOnWays
    <3> QED BY <1>4, <2>1, <3>1 DEF F!AllSlices
  <2> QED BY <2>0, <2>2 DEF FatWays
<1>5. CASE F!EndFlags
  <2>1. fpc = "flags" /\ fpc' = "done" /\ fhanded' = fhanded
    BY <1>5 DEF F!EndFlags
  <2>2. OneUnlabelled
    BY WaysMean
  <2> QED BY <1>0, <2>1, <2>2 DEF FatWays, OneUnlabelled
<1>6. CASE F!FlagMissing
  <2>1. fpc = "flags" /\ fpc' = "flags" /\ fhanded' = fhanded /\ fi' = fi + 1
    BY <1>6 DEF F!FlagMissing
  <2> QED BY <1>0, <2>1 DEF FatWays
<1>7. CASE F!FlagSlice
  <2>1. fpc' = fpc /\ fi' = fi + 1 /\ fpc = "flags"
    BY <1>7 DEF F!FlagSlice
  <2>2. PICK s \in 1..F!N : F!HandOn(s, Len(req.archs) > 1,
                                   IF F!A(s).kind = "MH" THEN F!A(s).hdcpu ELSE 0)
    BY <1>7 DEF F!FlagSlice
  <2> DEFINE cputype == IF F!A(s).kind = "MH" THEN F!A(s).hdcpu ELSE 0
             label == Len(req.archs) > 1
  <2>3. cputype \in Int /\ label \in BOOLEAN
    BY <1>0, <1>1
  <2>4. F!HandOn(s, label, cputype)
    BY <2>2
  <2> HIDE DEF cputype, label
  <2>5. /\ fhanded' \in Seq(F!HandedSlice)
        /\ Len(fhanded') <= Len(fhanded) + 1
        /\ label => \A j \in DOMAIN fhanded' :
             fhanded'[j].label \/ (j \in DOMAIN fhanded /\ fhanded'[j] = fhanded[j])
    BY <1>0, <2>3, <2>4, HandOnWays
  <2>6. /\ Len(fhanded) <= fi
        /\ label => \A j \in DOMAIN fhanded : fhanded[j].label
    BY <1>0, <2>1 DEF FatWays, label
  <2>7. Len(fhanded') <= fi'
    <3>1. Len(fhanded') \in Nat
      BY <2>5
    <3> QED BY <1>0, <2>1, <2>5, <2>6, <3>1
  <2>8. label => \A j \in DOMAIN fhanded' : fhanded'[j].label
    BY <2>5, <2>6
  <2> QED BY <2>1, <2>7, <2>8 DEF FatWays, label
<1> QED BY <1>2, <1>3, <1>4, <1>5, <1>6, <1>7 DEF F!Step

\* Nothing is printed before the first file, nor before its first slice.
Begun ==
  /\ n = 0 => out = << >>
  /\ n = 1 /\ mode = "fat" /\ fhanded = << >> => out = << >>

\* -o does away with all headings of nm.
NoHeadings ==
  req.bin = "nm" /\ "o" \in req.flags =>
    \A j \in DOMAIN out : out[j].what = "listing"

\* When nm comes to an image, the last line names it, or there is no line yet,
\* or the image will get its heading from print_nm.
Ahead ==
  mode = "macho" /\ req.bin = "nm" /\ "o" \notin req.flags =>
    \/ out = << >>
    \/ Plain /\ Several
    \/ out # << >> /\ out[Len(out)] = Heading(Own)

HInv == Types /\ FatWays /\ Begun /\ NoHeadings /\ Ahead

LEMMA InitHInv == Init => HInv
<1> SUFFICES ASSUME Init PROVE HInv
  OBVIOUS
<1>1. n = 0 /\ mode = "main" /\ fpc = "idle" /\ out = << >>
  BY DEF Init
<1>2. Types
  BY InitTypes
<1> QED BY <1>1, <1>2 DEF HInv, FatWays, Begun, NoHeadings, Ahead, InFat

LEMMA HeadedIs ==
  ASSUME Types, NEW arch, NEW member
  PROVE  /\ "o" \in req.flags => out \o NmHeading(Name(arch, member)) = out
         /\ "o" \notin req.flags =>
              out \o NmHeading(Name(arch, member)) = Append(out, Heading(Name(arch, member)))
<1>1. out \in Seq(Entry)
  BY DEF Types
<1> DEFINE h == Heading(Name(arch, member))
<1>2. NmHeading(Name(arch, member)) = IF "o" \in req.flags THEN << >> ELSE <<h>>
  BY DEF NmHeading
<1> HIDE DEF h
<1>3. out \o << >> = out /\ out \o <<h>> = Append(out, h)
  BY <1>1
<1> QED BY <1>2, <1>3 DEF h

\* What the steps outside of handle_macho_file print: a heading, if anything.
LEMMA FatPrints ==
  ASSUME Types, FatStep, FatAdds, out' = out \o SliceHeading(Slice'.label, Slice')
  PROVE  /\ req.bin = "nm" /\ "o" \notin req.flags /\ (Several \/ Slice'.label) =>
              out' = Append(out, Heading(Name(IF Slice'.label THEN ArchOf(Slice') ELSE << >>, 0)))
         /\ ~(req.bin = "nm" /\ "o" \notin req.flags /\ (Several \/ Slice'.label)) =>
              out' = out
<1>1. out \in Seq(Entry)
  BY DEF Types
<1> DEFINE arch == IF Slice'.label THEN ArchOf(Slice') ELSE << >>
           all == Several \/ Slice'.label
<1>2. SliceHeading(Slice'.label, Slice') =
        IF req.bin = "nm" /\ all THEN NmHeading(Name(arch, 0)) ELSE << >>
  BY DEF SliceHeading
<1> SUFFICES /\ req.bin = "nm" /\ "o" \notin req.flags /\ all =>
                   out' = Append(out, Heading(Name(arch, 0)))
             /\ ~(req.bin = "nm" /\ "o" \notin req.flags /\ all) => out' = out
  OBVIOUS
<1> HIDE DEF arch, all
<1>3. CASE req.bin = "nm" /\ all
  BY <1>2, <1>3, HeadedIs
<1>4. CASE ~(req.bin = "nm" /\ all)
  BY <1>1, <1>2, <1>4
<1> QED BY <1>3, <1>4

LEMMA ArchivePrints ==
  ASSUME Types, out' = out \o MemberHeading(pos)
  PROVE  /\ req.bin = "nm" /\ "o" \notin req.flags =>
              out' = Append(out, Heading(Name(ShownArch, pos)))
         /\ ~(req.bin = "nm" /\ "o" \notin req.flags) => out' = out
<1>1. out \in Seq(Entry)
  BY DEF Types
<1>2. MemberHeading(pos) = IF req.bin = "nm" THEN NmHeading(Name(ShownArch, pos)) ELSE << >>
  BY DEF MemberHeading, ShownArch
<1>3. CASE req.bin = "nm"
  BY <1>2, <1>3, HeadedIs
<1>4. CASE req.bin # "nm"
  BY <1>1, <1>2, <1>4
<1> QED BY <1>3, <1>4

\* Outside of handle_macho_file no step prints more than a heading, and none of
\* nm's when -o is set.
LEMMA Prints ==
  ASSUME Types, [Next]_vars, ~handle_macho_file
  PROVE  /\ req' = req
         /\ \/ out' = out
            \/ /\ req.bin = "nm" /\ "o" \notin req.flags
               /\ \E arch, member : out' = Append(out, Heading(Name(arch, member)))
<1>1. CASE UNCHANGED vars
  BY <1>1 DEF vars
<1>2. CASE NextFile
  BY <1>2 DEF NextFile
<1>3. CASE FatStep
  <2>1. req' = req /\ (out' = out \/ (FatAdds /\ out' = out \o SliceHeading(Slice'.label, Slice')))
    BY <1>3, FatHandsOn
  <2> QED BY <1>3, <2>1, FatPrints
<1>4. CASE ArchiveStep
  <2>1. req' = req /\ (out' = out \/ out' = out \o MemberHeading(pos))
    BY <1>4, ArchiveHandsOn
  <2> QED BY <2>1, ArchivePrints
<1>5. CASE EndFat
  BY <1>5 DEF EndFat
<1>6. CASE EndArchive
  BY <1>6 DEF EndArchive
<1>7. CASE CannotOpen \/ CannotMap \/ NotAnObject \/ handle_file
  BY <1>2, <1>7 DEF CannotOpen, CannotMap, NotAnObject, handle_file
<1> QED BY <1>1, <1>3, <1>4, <1>5, <1>6, <1>7 DEF Next, Step

LEMMA StepFatWays ==
  ASSUME Types, FatWays, [Next]_vars
  PROVE  FatWays'
<1>1. CASE UNCHANGED <<req, fpc, fi, fhanded>>
  BY <1>1 DEF FatWays, InFat
<1>2. CASE FatStep
  BY <1>2, FatWaysStep, FatHandsOn DEF FatStep
<1>3. CASE fpc' = "idle"
  BY <1>3 DEF FatWays, InFat
<1>4. CASE EnterFat
  <2>1. fpc' \in {"check", "choose"} /\ fhanded' = << >>
    BY <1>4 DEF EnterFat
  <2> QED BY <2>1 DEF FatWays
<1>5. CASE handle_file
  <2>1. req' = req
    BY <1>5, NextFileIs DEF handle_file
  <2> QED BY <1>1, <1>4, <1>5, <2>1, EntersAs DEF fatVars
<1>6. CASE CannotOpen \/ CannotMap \/ NotAnObject
  BY <1>1, <1>6, NextFileIs DEF CannotOpen, CannotMap, NotAnObject, fatVars
<1>7. CASE EndFat
  BY <1>3, <1>7 DEF EndFat
<1>8. CASE ArchiveStep \/ EndArchive \/ handle_macho_file
  BY <1>1, <1>8 DEF ArchiveStep, EndArchive, handle_macho_file, fatVars
<1>9. CASE UNCHANGED vars
  BY <1>1, <1>9 DEF vars, fatVars
<1> QED BY <1>2, <1>5, <1>6, <1>7, <1>8, <1>9 DEF Next, Step

LEMMA StepBegun ==
  ASSUME Types, Begun, [Next]_vars
  PROVE  Begun'
<1>0. n \in Nat
  BY RequestIs DEF Types
<1>1. CASE UNCHANGED vars
  BY <1>1 DEF Begun, vars, fatVars
<1>2. CASE NextFile
  <2>1. n' = n + 1 /\ out' = out
    BY <1>2 DEF NextFile
  <2> QED BY <1>0, <2>1 DEF Begun
<1>3. CASE FatStep
  <2>1. n # 0 /\ n' = n /\ mode = "fat" /\ fhanded \in Seq(F!HandedSlice)
    BY <1>3, FatHandsOn DEF Types
  <2>2. fhanded' = << >> => fhanded' = fhanded /\ out' = out
    <3>1. FatAdds => fhanded' # << >>
      BY <2>1 DEF FatAdds
    <3> QED BY <1>3, <3>1, FatHandsOn
  <2> QED BY <2>1, <2>2 DEF Begun
<1>4. CASE ArchiveStep
  <2>1. n # 0 /\ n' = n /\ mode' # "fat"
    <3>1. mode = "archive" /\ (mode' = mode \/ mode' = "macho")
      BY <1>4, ArchiveHandsOn
    <3> QED BY <1>4, <3>1, ArchiveHandsOn DEF Types
  <2> QED BY <2>1 DEF Begun
<1>5. CASE EndFat
  <2>1. n # 0 /\ n' = n /\ mode' = "main"
    BY <1>5 DEF EndFat, Types
  <2> QED BY <2>1 DEF Begun
<1>6. CASE EndArchive
  <2>1. n # 0 /\ n' = n /\ fhanded' = fhanded /\ mode = "archive"
        /\ mode' = (IF InFat THEN "fat" ELSE "main")
    BY <1>6 DEF EndArchive, Types, fatVars
  <2>2. InFat => fhanded # << >>
    BY <2>1 DEF Types, Modes
  <2> QED BY <2>1, <2>2 DEF Begun
<1>7. CASE handle_macho_file
  <2>1. n # 0 /\ n' = n /\ fhanded' = fhanded /\ mode = "macho"
        /\ mode' = (IF InAr THEN "archive" ELSE IF InFat THEN "fat" ELSE "main")
    BY <1>7 DEF handle_macho_file, Types, fatVars
  <2>2. InFat => fhanded # << >>
    BY <2>1 DEF Types, Modes
  <2> QED BY <2>1, <2>2 DEF Begun
<1>8. CASE CannotOpen \/ CannotMap \/ NotAnObject \/ handle_file
  BY <1>2, <1>8 DEF CannotOpen, CannotMap, NotAnObject, handle_file
<1> QED BY <1>1, <1>3, <1>4, <1>5, <1>6, <1>7, <1>8 DEF Next, Step

LEMMA StepNoHeadings ==
  ASSUME Types, NoHeadings, [Next]_vars
  PROVE  NoHeadings'
<1>0. out \in Seq(Entry)
  BY DEF Types
<1>1. CASE handle_macho_file
  <2> DEFINE l == Listing(Prefix)
  <2>1. l.what = "listing"
    BY DEF Listing
  <2>2. /\ req' = req
        /\ req.bin = "nm" /\ "o" \in req.flags => out' = out \/ out' = Append(out, l)
    BY <1>1, MachoIs
  <2> HIDE DEF l
  <2>3. ASSUME out' = Append(out, l)
        PROVE  \A j \in DOMAIN out' : out'[j] = l \/ (j \in DOMAIN out /\ out'[j] = out[j])
    BY <1>0, <2>3
  <2>4. ASSUME req.bin = "nm", "o" \in req.flags
        PROVE  \A j \in DOMAIN out' : out'[j].what = "listing"
    <3>1. \A j \in DOMAIN out : out[j].what = "listing"
      BY <2>4 DEF NoHeadings
    <3> QED BY <2>1, <2>2, <2>3, <2>4, <3>1
  <2> QED BY <2>2, <2>4 DEF NoHeadings
<1>2. CASE ~handle_macho_file
  BY <1>2, Prints DEF NoHeadings
<1> QED BY <1>1, <1>2

LEMMA StepAhead ==
  ASSUME Types, FatWays, Begun, Ahead, [Next]_vars
  PROVE  Ahead'
<1>0. out \in Seq(Entry) /\ Types' /\ FatWays' /\ n \in 0..Len(req.files)
      /\ Len(req.files) \in Nat
  BY StepTypes, StepFatWays, RequestIs DEF Types
<1>1. CASE UNCHANGED vars
  <2>1. /\ mode' = mode /\ out' = out /\ req' = req /\ Plain' = Plain /\ Several' = Several
        /\ Own' = Own
    BY <1>1 DEF vars, fatVars, archiveVars, Plain, InFat, InAr, Several, Own, ShownArch,
                ShownMember, Name, Labelled, Slice, ArchOf, Member, File
  <2> QED BY <2>1 DEF Ahead, Heading
<1>2. CASE handle_file
  <2>1. NextFile
    BY <1>2 DEF handle_file
  <2>2. mode' = "macho" => Plain'
    <3>1. mode' = "macho" => UNCHANGED <<fatVars, archiveVars>>
      BY <1>2, EntersAs
    <3> QED BY <2>1, <3>1, NextFileIs DEF Plain, InFat, InAr, fatVars, archiveVars
  <2>3. CASE Several
    BY <2>1, <2>2, <2>3, NextFileIs DEF Ahead, Several
  <2>4. CASE ~Several
    <3>1. n = 0 /\ out' = out
      BY <1>0, <2>1, <2>4, NextFileIs DEF Several
    <3> QED BY <3>1 DEF Begun, Ahead
  <2> QED BY <2>3, <2>4
<1>3. CASE FatStep
  <2> SUFFICES ASSUME mode' = "macho", req.bin = "nm", "o" \notin req.flags
               PROVE  out' = << >> \/ (out' # << >> /\ out'[Len(out')] = Heading(Own)')
    BY <1>3, FatHandsOn DEF Ahead
  <2>1. FatAdds /\ out' = out \o SliceHeading(Slice'.label, Slice') /\ InFat' /\ mode = "fat"
        /\ req' = req /\ n' = n /\ fhanded \in Seq(F!HandedSlice)
        /\ fhanded' \in Seq(F!HandedSlice) /\ archiveVars' = archiveVars
    BY <1>3, FatHandsOn
  <2>2. ~InAr' /\ File' = File
    BY <1>3, <2>1, FatHandsOn, SameFile DEF InAr, archiveVars
  <2> DEFINE h == Heading(Name(IF Slice'.label THEN ArchOf(Slice') ELSE << >>, 0))
  <2>3. CASE Several \/ Slice'.label
    <3>1. out' = Append(out, h)
      BY <1>3, <2>1, <2>3, FatPrints
    <3>2. h = Heading(Own)'
      BY <2>1, <2>2 DEF Own, ShownArch, ShownMember, Labelled, Name, Heading, ArchOf
    <3> HIDE DEF h
    <3>3. out' # << >> /\ out'[Len(out')] = h
      BY <1>0, <3>1
    <3> QED BY <3>2, <3>3
  <2>4. CASE ~(Several \/ Slice'.label)
    <3>1. out' = out
      BY <1>3, <2>1, <2>4, FatPrints
    <3>2. n = 1
      BY <1>0, <2>1, <2>4 DEF Several, Types
    <3>3. fhanded = << >>
      <4>1. OneUnlabelled'
        BY <1>0, WaysMeanNext
      <4>2. Len(fhanded') = Len(fhanded) + 1 /\ Len(fhanded) \in Nat
            /\ Slice' = fhanded'[Len(fhanded')] /\ Len(fhanded') \in DOMAIN fhanded'
        BY <2>1 DEF FatAdds, Slice
      <4>3. Len(fhanded') <= 1
        BY <2>1, <2>4, <4>1, <4>2 DEF OneUnlabelled
      <4>4. Len(fhanded) = 0
        BY <4>2, <4>3
      <4> QED BY <2>1, <4>4
    <3> QED BY <2>1, <3>1, <3>2, <3>3 DEF Begun
  <2> QED BY <2>3, <2>4
<1>4. CASE ArchiveStep
  <2> SUFFICES ASSUME mode' = "macho", req.bin = "nm", "o" \notin req.flags
               PROVE  out' # << >> /\ out'[Len(out')] = Heading(Own)'
    BY <1>4, ArchiveHandsOn DEF Ahead
  <2>1. /\ req' = req /\ n' = n /\ UNCHANGED fatVars /\ InAr' /\ InFat' = InFat
        /\ File' = File /\ ahanded \in Seq(Nat) /\ ahanded' = Append(ahanded, pos)
        /\ out' = out \o MemberHeading(pos)
    BY <1>4, ArchiveHandsOn
  <2>2. Member' = pos
    BY <2>1 DEF Member
  <2> DEFINE h == Heading(Name(ShownArch, pos))
  <2>3. out' = Append(out, h)
    BY <2>1, ArchivePrints
  <2>4. h = Heading(Own)'
    BY <2>1, <2>2 DEF Own, ShownArch, ShownMember, Labelled, Name, Heading, ArchOf, fatVars, Slice
  <2> HIDE DEF h
  <2>5. out' # << >> /\ out'[Len(out')] = h
    BY <1>0, <2>3
  <2> QED BY <2>4, <2>5
<1>5. CASE EndFat \/ EndArchive \/ handle_macho_file
  <2>1. mode' # "macho"
    BY <1>5, MachoIs DEF EndFat, EndArchive
  <2> QED BY <2>1 DEF Ahead
<1>6. CASE CannotOpen \/ CannotMap \/ NotAnObject
  <2>1. mode' # "macho"
    BY <1>6, NextFileIs DEF CannotOpen, CannotMap, NotAnObject
  <2> QED BY <2>1 DEF Ahead
<1> QED BY <1>1, <1>2, <1>3, <1>4, <1>5, <1>6 DEF Next, Step

LEMMA StepHInv == HInv /\ [Next]_vars => HInv'
BY StepTypes, StepFatWays, StepBegun, StepNoHeadings, StepAhead DEF HInv

\* A listing stays where it is, and so does its name.
Stays(j) == j \in DOMAIN out /\ out'[j] = out[j] /\ Shown(j)' = Shown(j)

LEMMA AppendStays ==
  ASSUME out \in Seq(Entry), NEW e \in Entry, out' = Append(out, e),
         NEW l \in Nat, l = Len(out')
  PROVE  /\ l \in DOMAIN out' /\ l \notin DOMAIN out /\ out'[l] = e
         /\ \A j \in DOMAIN out' : j = l \/ Stays(j)
         /\ Shown(l)' = IF e.name # Nowhere THEN e.name
                                ELSE IF out # << >> /\ out[Len(out)].what = "heading"
                                  THEN out[Len(out)].name
                                ELSE Nowhere
<1>1. /\ Len(out) \in Nat /\ l = Len(out) + 1
      /\ DOMAIN out = 1..Len(out) /\ DOMAIN out' = 1..(Len(out) + 1)
      /\ out'[l] = e
      /\ \A j \in 1..Len(out) : out'[j] = out[j]
  OBVIOUS
<1>2. \A j \in 1..Len(out) : Shown(j)' = Shown(j)
  <2> SUFFICES ASSUME NEW j \in 1..Len(out) PROVE Shown(j)' = Shown(j)
    OBVIOUS
  <2>1. j > 1 => j - 1 \in 1..Len(out)
    BY <1>1
  <2>2. out'[j] = out[j] /\ (j > 1 => out'[j - 1] = out[j - 1])
    BY <1>1, <2>1
  <2> QED BY <2>2 DEF Shown, Nowhere
<1>3. Shown(l)' = IF e.name # Nowhere THEN e.name
                          ELSE IF out # << >> /\ out[Len(out)].what = "heading"
                            THEN out[Len(out)].name
                          ELSE Nowhere
  <2>1. l > 1 <=> out # << >>
    BY <1>1
  <2>2. l - 1 = Len(out)
    BY <1>1
  <2>3. out # << >> => out'[Len(out)] = out[Len(out)]
    <3>1. out # << >> => Len(out) \in 1..Len(out)
      BY <1>1
    <3> QED BY <1>1, <3>1
  <2> QED BY <1>1, <2>1, <2>2, <2>3 DEF Shown, Nowhere
<1> QED BY <1>1, <1>2, <1>3 DEF Stays

\* Two lines are added like one and one.
LEMMA AppendTwo ==
  ASSUME out \in Seq(Entry), NEW h \in Entry, NEW e \in Entry,
         out' = Append(Append(out, h), e),
         NEW l \in Nat, l = Len(out')
  PROVE  /\ l \in DOMAIN out' /\ l \notin DOMAIN out /\ out'[l] = e
         /\ \A j \in DOMAIN out' : j = l \/ out'[j] = h \/ Stays(j)
         /\ Shown(l)' = IF e.name # Nowhere THEN e.name
                                ELSE IF h.what = "heading" THEN h.name
                                ELSE Nowhere
<1>1. /\ Len(out) \in Nat /\ l = Len(out) + 2
      /\ DOMAIN out = 1..Len(out) /\ DOMAIN out' = 1..(Len(out) + 2)
      /\ out'[l] = e /\ out'[Len(out) + 1] = h
      /\ \A j \in 1..Len(out) : out'[j] = out[j]
  OBVIOUS
<1>2. \A j \in 1..Len(out) : Shown(j)' = Shown(j)
  <2> SUFFICES ASSUME NEW j \in 1..Len(out) PROVE Shown(j)' = Shown(j)
    OBVIOUS
  <2>1. j > 1 => j - 1 \in 1..Len(out)
    BY <1>1
  <2>2. out'[j] = out[j] /\ (j > 1 => out'[j - 1] = out[j - 1])
    BY <1>1, <2>1
  <2> QED BY <2>2 DEF Shown, Nowhere
<1>3. Shown(l)' = IF e.name # Nowhere THEN e.name
                          ELSE IF h.what = "heading" THEN h.name ELSE Nowhere
  <2>1. l > 1 /\ l - 1 = Len(out) + 1
    BY <1>1
  <2> QED BY <1>1, <2>1 DEF Shown, Nowhere
<1>4. \A j \in DOMAIN out' : j = l \/ j = Len(out) + 1 \/ j \in 1..Len(out)
  BY <1>1
<1> QED BY <1>1, <1>2, <1>3, <1>4 DEF Stays

OnlyHeadingsBefore(l) ==
  \A j \in DOMAIN out' : out'[j].what = "listing" => j = l \/ Stays(j)

\* What nm and otool show with the listing they add.
LEMMA NewListing ==
  ASSUME HInv, handle_macho_file
  PROVE  \/ out' = out
         \/ \E l \in Nat :
            /\ l \in DOMAIN out' /\ l \notin DOMAIN out
            /\ out'[l].what = "listing" /\ out'[l].origin = Origin
            /\ OnlyHeadingsBefore(l)
            /\ req.bin = "otool" =>
                 Shown(l)' = IF Labelled THEN Name(ArchOf(Slice), 0) ELSE Own
            /\ req.bin = "nm" =>
                 \/ Shown(l)' = Own
                 \/ /\ Shown(l)' = Nowhere
                    /\ out = << >> \/ ({"o", "P"} \subseteq req.flags /\ "A" \notin req.flags)
<1>0. Types /\ out \in Seq(Entry) /\ mode = "macho" /\ n # 0 /\ req \in Requests
  BY MachoIs, ShownTypes DEF HInv, Types
<1>1. Own # Nowhere /\ Own.file = n
  BY <1>0 DEF Own, Name, Nowhere
<1>2. /\ Own \in Title /\ OwnHeading \in Entry /\ Heading(Name(<< >>, 0)) \in Entry
      /\ Listing(Prefix) \in Entry /\ Listing(Nowhere) \in Entry
  BY <1>0, PrintedTypes
<1>3. /\ Listing(Prefix).what = "listing" /\ Listing(Prefix).origin = Origin
      /\ Listing(Prefix).name = Prefix
      /\ Listing(Nowhere).what = "listing" /\ Listing(Nowhere).origin = Origin
      /\ Listing(Nowhere).name = Nowhere
  BY DEF Listing
<1>7. PICK l \in Nat : l = Len(out')
  <2>1. out' \in Seq(Entry)
    BY <1>0, MachoTypes DEF Types
  <2> QED BY <2>1
<1>4. CASE req.bin = "nm" /\ ~(Several /\ Plain /\ "o" \notin req.flags)
           /\ out' = Append(out, Listing(Prefix))
  <2> DEFINE e == Listing(Prefix)
  <2>1. e \in Entry /\ e.what = "listing" /\ e.origin = Origin /\ e.name = Prefix
    BY <1>2, <1>3
  <2>2. out' = Append(out, e)
    BY <1>4
  <2> HIDE DEF e
  <2>3. /\ l \in DOMAIN out' /\ l \notin DOMAIN out /\ out'[l] = e
        /\ \A j \in DOMAIN out' : j = l \/ Stays(j)
        /\ Shown(l)' = IF e.name # Nowhere THEN e.name
                       ELSE IF out # << >> /\ out[Len(out)].what = "heading"
                         THEN out[Len(out)].name
                       ELSE Nowhere
    BY <1>0, <1>7, <2>1, <2>2, AppendStays
  <2>4. \/ Shown(l)' = Own
        \/ /\ Shown(l)' = Nowhere
           /\ out = << >> \/ ({"o", "P"} \subseteq req.flags /\ "A" \notin req.flags)
    <3>1. CASE "A" \in req.flags \/ ("o" \in req.flags /\ "P" \notin req.flags)
      BY <1>1, <2>1, <2>3, <3>1, PrefixIs
    <3>2. CASE ~("A" \in req.flags \/ ("o" \in req.flags /\ "P" \notin req.flags))
               /\ "o" \in req.flags
      <4>1. Prefix = Nowhere
        BY <3>2, PrefixIs
      <4>2. out # << >> => Len(out) \in DOMAIN out
        BY <1>0
      <4>3. out # << >> => out[Len(out)].what = "listing"
        BY <1>4, <3>2, <4>2 DEF HInv, NoHeadings
      <4> QED BY <2>1, <2>3, <3>2, <4>1, <4>3
    <3>3. CASE ~("A" \in req.flags \/ ("o" \in req.flags /\ "P" \notin req.flags))
               /\ "o" \notin req.flags
      <4>1. Prefix = Nowhere
        BY <3>3, PrefixIs
      <4>2. out = << >> \/ (out # << >> /\ out[Len(out)] = Heading(Own))
        BY <1>0, <1>4, <3>3 DEF HInv, Ahead
      <4>3. Heading(Own).what = "heading" /\ Heading(Own).name = Own
        BY DEF Heading
      <4> QED BY <2>1, <2>3, <4>1, <4>2, <4>3
    <3> QED BY <3>1, <3>2, <3>3
  <2> QED BY <1>4, <2>1, <2>3, <2>4 DEF OnlyHeadingsBefore
<1>5. CASE /\ req.bin = "nm" /\ Several /\ Plain /\ "o" \notin req.flags
           /\ out' = Append(Append(out, Heading(Name(<< >>, 0))), Listing(Prefix))
  <2> DEFINE h == Heading(Name(<< >>, 0))
             e == Listing(Prefix)
  <2>1. Prefix = Nowhere
    <3>1. "A" \notin req.flags
      BY <1>0, <1>5, RequestsAssumption
    <3> QED BY <1>5, <3>1, PrefixIs
  <2>2. Own = Name(<< >>, 0)
    BY <1>5 DEF Own, ShownArch, ShownMember, Plain, Labelled
  <2>3. /\ e \in Entry /\ e.what = "listing" /\ e.origin = Origin /\ e.name = Nowhere
        /\ h \in Entry /\ h.what = "heading" /\ h.name = Own
    BY <1>2, <1>3, <2>1, <2>2 DEF Heading
  <2>4. out' = Append(Append(out, h), e)
    BY <1>5
  <2> HIDE DEF h, e
  <2>5. /\ l \in DOMAIN out' /\ l \notin DOMAIN out /\ out'[l] = e
        /\ \A j \in DOMAIN out' : j = l \/ out'[j] = h \/ Stays(j)
        /\ Shown(l)' = Own
    BY <1>0, <1>7, <2>3, <2>4, AppendTwo
  <2> QED BY <1>5, <2>3, <2>5 DEF OnlyHeadingsBefore
<1>6. CASE req.bin = "otool" /\ out' = Append(Append(out, OwnHeading), Listing(Nowhere))
  <2> DEFINE h == OwnHeading
             e == Listing(Nowhere)
             x == IF Labelled THEN Name(ArchOf(Slice), 0) ELSE Own
  <2>1. h.what = "heading" /\ h.name = x
    BY DEF OwnHeading, Heading, Own, ShownArch, ShownMember
  <2>2. /\ e \in Entry /\ e.what = "listing" /\ e.origin = Origin /\ e.name = Nowhere
        /\ h \in Entry
    BY <1>2, <1>3
  <2>4. out' = Append(Append(out, h), e)
    BY <1>6
  <2> HIDE DEF h, e, x
  <2>5. /\ l \in DOMAIN out' /\ l \notin DOMAIN out /\ out'[l] = e
        /\ \A j \in DOMAIN out' : j = l \/ out'[j] = h \/ Stays(j)
        /\ Shown(l)' = x
    BY <1>0, <1>7, <2>1, <2>2, <2>4, AppendTwo
  <2> QED BY <1>6, <2>1, <2>2, <2>5 DEF OnlyHeadingsBefore, x
<1> QED BY <1>0, <1>4, <1>5, <1>6, MachoIs

\* What is said of one listing.
HeadingFits(j) ==
  Shown(j) # Nowhere =>
    /\ Shown(j).file = out[j].origin.file
    /\ req.bin = "nm" => Shown(j).member = out[j].origin.member
    /\ Shown(j).arch # << >> =>
         Shown(j).arch = Cpu(FileOf(req, out[j].origin.file).fat.archs[out[j].origin.slice])

LEMMA FitStays ==
  ASSUME NEW j, Stays(j), HeadingFits(j), req' = req
  PROVE  HeadingFits(j)'
BY DEF Stays, HeadingFits, FileOf, Cpu, Nowhere

LEMMA UnchangedStays ==
  ASSUME out' = out, NEW j \in DOMAIN out'
  PROVE  Stays(j)
BY DEF Stays, Shown, Nowhere

\* Outside of handle_macho_file no listing is added or gets another name.
LEMMA ListingsStay ==
  ASSUME Types, [Next]_vars, ~handle_macho_file,
         NEW j \in DOMAIN out', out'[j].what = "listing"
  PROVE  Stays(j)
<1>1. CASE out' = out
  BY <1>1, UnchangedStays
<1>2. CASE out' # out
  <2>1. PICK arch, member : out' = Append(out, Heading(Name(arch, member)))
    BY <1>2, Prints
  <2> DEFINE h == Heading(Name(arch, member))
  <2>2. h.what = "heading"
    BY DEF Heading
  <2>3. out' = Append(out, h)
    BY <2>1
  <2> HIDE DEF h
  <2>4. out \in Seq(Entry) /\ out' \in Seq(Entry)
    BY StepTypes DEF Types
  <2>5. /\ Len(out) \in Nat /\ DOMAIN out' = 1..(Len(out) + 1) /\ DOMAIN out = 1..Len(out)
        /\ out'[Len(out) + 1] = h
        /\ \A i \in 1..Len(out) : out'[i] = out[i]
    BY <2>3, <2>4
  <2>6. j \in 1..Len(out)
    BY <2>2, <2>5
  <2>7. j > 1 => j - 1 \in 1..Len(out)
    BY <2>5, <2>6
  <2> QED BY <2>5, <2>6, <2>7 DEF Stays, Shown, Nowhere
<1> QED BY <1>1, <1>2

\* The names an image may be shown with are its own.
LEMMA NewFits ==
  ASSUME Types, mode = "macho", NEW l, req' = req,
         out'[l].origin = Origin,
         \/ Shown(l)' = Own
         \/ Shown(l)' = Nowhere
         \/ req.bin = "otool" /\ Labelled /\ Shown(l)' = Name(ArchOf(Slice), 0)
  PROVE  HeadingFits(l)'
<1>1. /\ Own.file = n /\ Own.member = ShownMember /\ Own.arch = ShownArch
      /\ Name(ArchOf(Slice), 0).file = n /\ Name(ArchOf(Slice), 0).arch = ArchOf(Slice)
      /\ Origin.file = n /\ Origin.member = ShownMember
      /\ InFat => Origin.slice = Slice.n
  BY DEF Own, Name, Origin, ShownMember
<1>2. Labelled => ArchOf(Slice) = Cpu(FileOf(req, n).fat.archs[Origin.slice])
  BY <1>1 DEF Labelled, ArchOf, Cpu, FileOf, File
<1>3. ShownArch # << >> => Labelled /\ ShownArch = ArchOf(Slice)
  BY DEF ShownArch
<1>4. Nowhere' = Nowhere
  BY DEF Nowhere
<1>5. CASE Shown(l)' = Nowhere
  BY <1>4, <1>5 DEF HeadingFits
<1>6. CASE Shown(l)' = Own
  <2> DEFINE cpuThere == Cpu(FileOf(req, n).fat.archs[Origin.slice])
  <2>1. Cpu(FileOf(req, out[l].origin.file).fat.archs[out[l].origin.slice])' = cpuThere
    BY <1>1 DEF Cpu, FileOf
  <2>2. Own.arch # << >> => Own.arch = cpuThere
    BY <1>1, <1>2, <1>3
  <2> HIDE DEF cpuThere
  <2> QED BY <1>1, <1>6, <2>1, <2>2 DEF HeadingFits
<1>7. CASE req.bin = "otool" /\ Labelled /\ Shown(l)' = Name(ArchOf(Slice), 0)
  <2> DEFINE cpuThere == Cpu(FileOf(req, n).fat.archs[Origin.slice])
             x == Name(ArchOf(Slice), 0)
  <2>1. Cpu(FileOf(req, out[l].origin.file).fat.archs[out[l].origin.slice])' = cpuThere
    BY <1>1 DEF Cpu, FileOf
  <2>2. x.file = n /\ x.arch = cpuThere
    BY <1>1, <1>2, <1>7
  <2>3. Shown(l)' = x /\ req'.bin # "nm"
    BY <1>7
  <2> HIDE DEF cpuThere, x
  <2> QED BY <1>1, <2>1, <2>2, <2>3 DEF HeadingFits
<1> QED BY <1>5, <1>6, <1>7

\* nm and otool, whatever they list: the name in front of the lines of a listing,
\* or the heading directly before it, names the file, for nm the member, and the
\* architecture of what is listed; no heading of something that was not listed
\* is left standing in front of something else.
THEOREM HeadingsAlwaysFit == Spec => []HeadingsFit
<1>2. Init => HeadingsFit
  BY DEF Init, HeadingsFit
<1>3. ASSUME HInv, HeadingsFit, [Next]_vars
      PROVE  HeadingsFit'
  <2>0. Types /\ \A j \in DOMAIN out : out[j].what = "listing" => HeadingFits(j)
    BY <1>3 DEF HInv, HeadingsFit, HeadingFits
  <2>1. req' = req
    BY <1>3, <2>0, Prints, MachoIs
  <2> SUFFICES ASSUME NEW j \in DOMAIN out', out'[j].what = "listing"
               PROVE  HeadingFits(j)'
    BY DEF HeadingsFit, HeadingFits
  <2>2. CASE Stays(j)
    BY <2>0, <2>1, <2>2, FitStays DEF Stays
  <2>3. CASE out' = out
    BY <2>2, <2>3, UnchangedStays
  <2>4. CASE handle_macho_file /\ out' # out
    <3>1. PICK l \in Nat :
            /\ l \in DOMAIN out' /\ l \notin DOMAIN out
            /\ out'[l].what = "listing" /\ out'[l].origin = Origin
            /\ OnlyHeadingsBefore(l)
            /\ req.bin = "otool" =>
                 Shown(l)' = IF Labelled THEN Name(ArchOf(Slice), 0) ELSE Own
            /\ req.bin = "nm" => Shown(l)' = Own \/ Shown(l)' = Nowhere
      BY <1>3, <2>4, NewListing
    <3>2. j = l \/ Stays(j)
      BY <3>1 DEF OnlyHeadingsBefore
    <3>3. HeadingFits(l)'
      BY <2>0, <2>1, <2>4, <3>1, NewFits, MachoIs, RequestIs
    <3> QED BY <2>2, <3>2, <3>3
  <2>5. CASE ~handle_macho_file
    BY <1>3, <2>0, <2>2, <2>5, ListingsStay
  <2> QED BY <2>3, <2>4, <2>5
<1>5. HInv /\ HeadingsFit /\ [Next]_vars => (HInv /\ HeadingsFit)'
  BY <1>3, StepHInv
<1> QED BY <1>2, <1>5, InitHInv, PTL DEF Spec

-----------------------------------------------------------------------------
(* No two listings carry the same name *)

\* The members of an archive are handed on from front to back.
MembersApart ==
  InAr =>
    /\ apc \notin {"handle", "done"} => ahanded = << >>
    /\ apc = "handle" => \A j \in DOMAIN ahanded : ahanded[j] < pos
    /\ \A j, l \in DOMAIN ahanded : j < l => ahanded[j] < ahanded[l]

LEMMA StepMembersApart ==
  ASSUME Types, MembersApart, [Next]_vars
  PROVE  MembersApart'
<1>1. CASE UNCHANGED <<apc, pos, ahanded>>
  BY <1>1 DEF MembersApart, InAr
<1>2. CASE apc' = "idle"
  BY <1>2 DEF MembersApart, InAr
<1>3. CASE EnterArchive
  BY <1>3, EnteringTypes DEF MembersApart
<1>4. CASE ArchiveStep
  <2>1. /\ InAr /\ InAr' /\ ahanded \in Seq(Nat) /\ ahanded' \in Seq(Nat)
        /\ pos' \in Int /\ Ar!Step /\ mode = "archive"
        /\ apc = "handle" => pos \in Nat /\ pos <= pos'
    BY <1>4, ArchiveHandsOn DEF ArchiveStep
  <2>2. /\ \A j \in DOMAIN ahanded : ahanded[j] \in Nat
        /\ DOMAIN ahanded = 1..Len(ahanded) /\ Len(ahanded) \in Nat
    BY <2>1
  <2>3. CASE apc = "handle" /\ ahanded' = Append(ahanded, pos) /\ (apc' = "done" \/ pos' > pos)
    <3>1. \A j \in DOMAIN ahanded : ahanded[j] < pos
      BY <2>1, <2>3 DEF MembersApart
    <3>2. \A j, l \in DOMAIN ahanded : j < l => ahanded[j] < ahanded[l]
      BY <2>1 DEF MembersApart
    <3>3. /\ DOMAIN ahanded' = 1..(Len(ahanded) + 1) /\ ahanded'[Len(ahanded) + 1] = pos
          /\ \A j \in 1..Len(ahanded) : ahanded'[j] = ahanded[j]
      BY <2>1, <2>3
    <3>4. \A j, l \in DOMAIN ahanded' : j < l => ahanded'[j] < ahanded'[l]
      <4> SUFFICES ASSUME NEW j \in DOMAIN ahanded', NEW l \in DOMAIN ahanded', j < l
                   PROVE  ahanded'[j] < ahanded'[l]
        OBVIOUS
      <4>1. j \in 1..Len(ahanded) /\ ahanded'[j] = ahanded[j]
        BY <2>2, <3>3
      <4>2. CASE l \in 1..Len(ahanded)
        BY <2>2, <3>2, <3>3, <4>1, <4>2
      <4>3. CASE l = Len(ahanded) + 1
        BY <2>2, <3>1, <3>3, <4>1, <4>3
      <4> QED BY <2>2, <3>3, <4>2, <4>3
    <3>5. apc' = "handle" => \A j \in DOMAIN ahanded' : ahanded'[j] < pos'
      BY <2>1, <2>2, <2>3, <3>1, <3>3
    <3>6. apc' \in {"handle", "done"}
      <4>1. CASE Ar!HandleMember
        BY <2>3, <4>1 DEF Ar!HandleMember
      <4>2. CASE Ar!EndHandle
        BY <4>2 DEF Ar!EndHandle
      <4> QED BY <2>1, <2>3, <4>1, <4>2 DEF Ar!Step, Ar!Open, Ar!StartFlag, Ar!CheckMember,
                                              Ar!EndFlag, Ar!EndCheck
    <3> QED BY <3>4, <3>5, <3>6 DEF MembersApart
  <2>4. CASE ahanded' = ahanded
    <3>1. (apc' \in {"handle", "done"} /\ apc = "handle") \/ apc \in {"open", "flag", "check"}
      BY <2>1 DEF Ar!Step, Ar!Open, Ar!StartFlag, Ar!CheckMember,
                  Ar!EndFlag, Ar!EndCheck, Ar!HandleMember, Ar!EndHandle
    <3>2. CASE apc \in {"open", "flag", "check"}
      <4>1. ahanded = << >>
        BY <2>1, <3>2 DEF MembersApart
      <4> QED BY <2>4, <4>1 DEF MembersApart
    <3>3. CASE apc' \in {"handle", "done"} /\ apc = "handle"
      <4>1. \A j \in DOMAIN ahanded : ahanded[j] < pos
        BY <2>1, <3>3 DEF MembersApart
      <4>2. pos \in Nat /\ pos <= pos'
        BY <2>1, <3>3
      <4>3. \A j \in DOMAIN ahanded' : ahanded'[j] < pos'
        BY <2>1, <2>2, <2>4, <4>1, <4>2
      <4> QED BY <2>1, <2>4, <3>3, <4>3 DEF MembersApart
    <3> QED BY <3>1, <3>2, <3>3
  <2> QED BY <1>4, <2>3, <2>4, ArchiveHandsOn
<1>5. CASE handle_file
  BY <1>1, <1>3, <1>5, EntersAs DEF archiveVars
<1>6. CASE FatStep
  BY <1>1, <1>3, <1>6, FatHandsOn DEF archiveVars
<1>7. CASE CannotOpen \/ CannotMap \/ NotAnObject \/ EndFat \/ handle_macho_file
  BY <1>1, <1>7 DEF CannotOpen, CannotMap, NotAnObject, EndFat, handle_macho_file, archiveVars
<1>8. CASE EndArchive
  BY <1>2, <1>8 DEF EndArchive
<1>9. CASE UNCHANGED vars
  BY <1>1, <1>9 DEF vars, archiveVars
<1> QED BY <1>4, <1>5, <1>6, <1>7, <1>8, <1>9 DEF Next, Step

\* Two slices with different labels, or such that only capability bits tell apart
\* where no -arch flag chose among them.
Apart(s, t) ==
  /\ s # t
  /\ Cpu(File.fat.archs[s]) = Cpu(File.fat.archs[t]) =>
       /\ AllArchs(req.archs)
       /\ File.fat.archs[s].cpusubtype # File.fat.archs[t].cpusubtype

\* The slices nm hands on are of different architectures, but for capability bits:
\* check_fat_file refuses two of one, and each -arch flag asks for another.
ArchsApart ==
  InFat /\ req.bin = "nm" /\ NoneTwice =>
    /\ fpc = "check" => \A s \in 1..fi : ~F!Twice(s)
    /\ fpc \in {"choose", "all"} => \A s \in 1..F!N : ~F!Twice(s)
    /\ fpc = "all" => /\ AllArchs(req.archs)
                      /\ \A j \in DOMAIN fhanded : fhanded[j].n <= fi
    /\ fpc = "flags" => \A j \in DOMAIN fhanded : \E x \in 1..fi :
                           Cpu(File.fat.archs[fhanded[j].n]) = Cpu(Info(req.archs[x]))
    /\ \A j, l \in DOMAIN fhanded : j # l => Apart(fhanded[j].n, fhanded[l].n)

\* One more slice, apart from all before it.
LEMMA OneMoreArch ==
  ASSUME fhanded \in Seq(F!HandedSlice), NEW s, NEW label, NEW cputype,
         F!HandOn(s, label, cputype), File' = File,
         \A j, l \in DOMAIN fhanded : j # l => Apart(fhanded[j].n, fhanded[l].n),
         \A j \in DOMAIN fhanded : Apart(fhanded[j].n, s)
  PROVE  /\ \A j \in DOMAIN fhanded' :
              \/ j \in DOMAIN fhanded /\ fhanded'[j] = fhanded[j]
              \/ fhanded'[j].n = s
         /\ \A j, l \in DOMAIN fhanded' : j # l => Apart(fhanded'[j].n, fhanded'[l].n)
<1>1. CASE fhanded' = fhanded
  BY <1>1
<1>2. CASE fhanded' = Append(fhanded, F!Slice(s, label, cputype))
  <2> DEFINE e == F!Slice(s, label, cputype)
  <2>2. e.n = s
    BY DEF F!Slice
  <2>3. fhanded' = Append(fhanded, e)
    BY <1>2
  <2> HIDE DEF e
  <2>4. \A j \in DOMAIN fhanded' :
           \/ j \in DOMAIN fhanded /\ fhanded'[j] = fhanded[j]
           \/ j = Len(fhanded) + 1 /\ fhanded'[j] = e
    BY <2>3
  <2>5. \A j \in DOMAIN fhanded : Apart(fhanded[j].n, e.n) /\ Apart(e.n, fhanded[j].n)
    BY <2>2 DEF Apart
  <2>6. \A j, l \in DOMAIN fhanded' : j # l => Apart(fhanded'[j].n, fhanded'[l].n)
    BY <2>4, <2>5
  <2> QED BY <2>2, <2>4, <2>6
<1> QED BY <1>1, <1>2 DEF F!HandOn

LEMMA FatStepApart ==
  ASSUME Types, FatWays, ArchsApart, FatStep
  PROVE  ArchsApart'
<1> SUFFICES ASSUME req.bin = "nm", NoneTwice PROVE ArchsApart'
  BY FatHandsOn DEF ArchsApart, NoneTwice
<1>0. /\ InFat /\ InFat' /\ fi \in Nat /\ req' = req /\ File' = File /\ F!Step
      /\ fpc \in {"check", "all"} => fi <= F!N
      /\ fpc = "choose" => fi = 0
      /\ F!N \in Nat /\ F!N' = F!N /\ Len(req.archs) \in Nat
      /\ fhanded \in Seq(F!HandedSlice)
      /\ DOMAIN File.fat.archs = 1..F!N
      /\ \A j \in DOMAIN fhanded : fhanded[j].n \in 1..F!N
  BY FatHandsOn, SameFile, SliceIs, RequestIs DEF Types, FatTypes, FatStep, F!N
<1>1. /\ fpc = "check" => \A s \in 1..fi : ~F!Twice(s)
      /\ fpc \in {"choose", "all"} => \A s \in 1..F!N : ~F!Twice(s)
      /\ fpc = "all" => /\ AllArchs(req.archs)
                        /\ \A j \in DOMAIN fhanded : fhanded[j].n <= fi
      /\ fpc = "flags" => \A j \in DOMAIN fhanded : \E x \in 1..fi :
                           Cpu(File.fat.archs[fhanded[j].n]) = Cpu(Info(req.archs[x]))
      /\ \A j, l \in DOMAIN fhanded : j # l => Apart(fhanded[j].n, fhanded[l].n)
  BY <1>0 DEF ArchsApart
<1>2. \A s \in 1..F!N : F!Twice(s)' = F!Twice(s)
  BY <1>0 DEF F!Twice, F!A
<1>3. \A s, t : Apart(s, t)' <=> Apart(s, t)
  BY <1>0 DEF Apart, Cpu
<1>4. AllArchs(req.archs) =>
        \A s, m \in 1..F!N : s # m /\ ~F!Twice(s) => Apart(s, m)
  BY DEF F!Twice, F!A, Cpu, Apart
<1>5. fpc' = "all" => AllArchs(req.archs)
  <2>1. fpc' = "all" => fpc = "all" \/ F!Choose
    <3>1. F!CheckArch => fpc' # "all"
      BY Zenon DEF F!CheckArch
    <3>2. F!AllSlices => fpc = "all"
      BY DEF F!AllSlices
    <3>3. F!EndFlags \/ F!FlagMissing \/ F!FlagSlice => fpc' # "all"
      BY Zenon DEF F!EndFlags, F!FlagMissing, F!FlagSlice
    <3> QED BY <1>0, <3>1, <3>2, <3>3 DEF F!Step
  <2> QED BY <1>1, <2>1 DEF F!Choose, F!AllArchs, AllArchs
<1>6. CASE F!CheckArch
  <2>1. /\ fpc = "check" /\ fhanded' = fhanded
        /\ \/ fpc' = "refused"
           \/ fi = F!N /\ fpc' = "choose"
           \/ fi # F!N /\ F!check_fat_arch(fi + 1, FALSE) /\ fpc' = "check" /\ fi' = fi + 1
    <3>1. CASE F!N = 0 \/ fi = F!N
      BY <1>0, <1>6, <3>1 DEF F!CheckArch
    <3>2. CASE F!N # 0 /\ fi # F!N
      BY <1>6, <3>2, Zenon DEF F!CheckArch
    <3> QED BY <3>1, <3>2
  <2>2. F!check_fat_arch(fi + 1, FALSE) => ~F!Twice(fi + 1)
    BY DEF F!check_fat_arch
  <2>3. fpc' = "check" => \A s \in 1..fi' : ~F!Twice(s)'
    <3> SUFFICES ASSUME fpc' = "check", NEW s \in 1..fi' PROVE ~F!Twice(s)'
      OBVIOUS
    <3>1. s \in 1..fi \/ s = fi + 1
      BY <1>0, <2>1
    <3>2. s \in 1..F!N
      BY <1>0, <2>1, <3>1
    <3> QED BY <1>1, <1>2, <2>1, <2>2, <3>1, <3>2
  <2>4. fpc' = "choose" => \A s \in 1..F!N : ~F!Twice(s)'
    BY <1>1, <1>2, <2>1
  <2>5. \A j, l \in DOMAIN fhanded' : j # l => Apart(fhanded'[j].n, fhanded'[l].n)
    BY <1>0, <1>1, <2>1
  <2> QED BY <1>0, <1>3, <1>5, <2>1, <2>3, <2>4, <2>5 DEF ArchsApart
<1>7. CASE F!Choose
  <2>1. fpc = "choose" /\ fi' = fi /\ fhanded = << >> /\ fpc' \in {"done", "all", "flags"}
    BY <1>0, <1>7 DEF F!Choose, FatWays
  <2>2. CASE fpc' = "done"
    <3>1. PICK s \in F!Best : F!HandOn(s, FALSE, F!A(s).cputype)
      BY <1>7, <2>2 DEF F!Choose
    <3>2. \A j, l \in DOMAIN fhanded' : j # l => Apart(fhanded'[j].n, fhanded'[l].n)
      <4> DEFINE cputype == F!A(s).cputype
      <4>1. F!HandOn(s, FALSE, cputype)
        BY <3>1
      <4> HIDE DEF cputype
      <4>2. \A j \in DOMAIN fhanded : Apart(fhanded[j].n, s)
        BY <2>1
      <4> QED BY <1>0, <1>1, <4>1, <4>2, OneMoreArch
    <3> QED BY <1>0, <1>3, <2>2, <3>2 DEF ArchsApart
  <2>3. CASE fpc' # "done"
    <3>1. fhanded' = fhanded
      BY <1>7, <2>3 DEF F!Choose
    <3>2. DOMAIN fhanded' = {}
      BY <2>1, <3>1
    <3> QED BY <1>0, <1>1, <1>2, <1>5, <2>1, <2>3, <3>2 DEF ArchsApart
  <2> QED BY <2>2, <2>3
<1>8. CASE F!AllSlices
  <2>1. fpc = "all" /\ fpc' \in {"all", "done"}
    BY <1>8 DEF F!AllSlices
  <2>2. CASE fhanded' = fhanded /\ fi <= fi'
    <3>1. \A j \in DOMAIN fhanded' : fhanded'[j].n <= fi'
      <4> SUFFICES ASSUME NEW j \in DOMAIN fhanded PROVE fhanded[j].n <= fi'
        BY <2>2
      <4>1. fhanded[j].n \in Int /\ fhanded[j].n <= fi
        BY <1>0, <1>1, <2>1
      <4>2. fi' \in Int
        BY FatStepIs DEF FatStep
      <4> QED BY <1>0, <2>2, <4>1, <4>2
    <3>2. \A j, l \in DOMAIN fhanded' : j # l => Apart(fhanded'[j].n, fhanded'[l].n)
      BY <1>0, <1>1, <2>2
    <3>3. \A s \in 1..F!N : ~F!Twice(s)'
      BY <1>1, <1>2, <2>1
    <3> QED BY <1>0, <1>3, <1>5, <2>1, <3>1, <3>2, <3>3 DEF ArchsApart
  <2>3. CASE fi # F!N /\ fi' = fi + 1 /\ F!HandOn(fi + 1, TRUE, F!A(fi + 1).cputype)
    <3>1. fi + 1 \in 1..F!N
      BY <1>0, <2>1, <2>3
    <3>2. \A j \in DOMAIN fhanded : Apart(fhanded[j].n, fi + 1)
      <4> SUFFICES ASSUME NEW j \in DOMAIN fhanded
                   PROVE  Apart(fhanded[j].n, fi + 1)
        OBVIOUS
      <4>1. fhanded[j].n \in 1..F!N /\ fhanded[j].n <= fi
        BY <1>0, <1>1, <2>1
      <4>2. fhanded[j].n # fi + 1
        BY <1>0, <4>1
      <4> QED BY <1>1, <1>4, <2>1, <3>1, <4>1, <4>2
    <3> DEFINE cputype == F!A(fi + 1).cputype
    <3>3. F!HandOn(fi + 1, TRUE, cputype)
      BY <2>3
    <3> HIDE DEF cputype
    <3>4. /\ \A j \in DOMAIN fhanded' :
              \/ j \in DOMAIN fhanded /\ fhanded'[j] = fhanded[j]
              \/ fhanded'[j].n = fi + 1
          /\ \A j, l \in DOMAIN fhanded' : j # l => Apart(fhanded'[j].n, fhanded'[l].n)
      BY <1>0, <1>1, <3>2, <3>3, OneMoreArch
    <3>5. \A j \in DOMAIN fhanded' : fhanded'[j].n <= fi'
      <4> SUFFICES ASSUME NEW j \in DOMAIN fhanded' PROVE fhanded'[j].n <= fi'
        OBVIOUS
      <4>1. CASE j \in DOMAIN fhanded /\ fhanded'[j] = fhanded[j]
        <5>1. fhanded[j].n \in 1..F!N /\ fhanded[j].n <= fi
          BY <1>0, <1>1, <2>1, <4>1
        <5> QED BY <1>0, <2>3, <4>1, <5>1
      <4>2. CASE fhanded'[j].n = fi + 1
        BY <1>0, <2>3, <4>2
      <4> QED BY <3>4, <4>1, <4>2
    <3>6. \A s \in 1..F!N : ~F!Twice(s)'
      BY <1>1, <1>2, <2>1
    <3> QED BY <1>0, <1>3, <1>5, <2>1, <3>4, <3>5, <3>6 DEF ArchsApart
  <2>4. CASE fi = F!N
    BY <1>0, <1>8, <2>2, <2>4 DEF F!AllSlices
  <2>5. CASE fi # F!N
    <3>1. /\ fi' = fi + 1
          /\ F!HandOn(fi + 1, TRUE, F!A(fi + 1).cputype) \/ fhanded' = fhanded
      BY <1>8, <2>5, Zenon DEF F!AllSlices
    <3>2. fi <= fi + 1
      BY <1>0
    <3> QED BY <2>2, <2>3, <2>5, <3>1, <3>2
  <2> QED BY <2>4, <2>5
<1>9. CASE F!EndFlags
  <2>1. fpc = "flags" /\ fpc' = "done" /\ fhanded' = fhanded
    BY <1>9 DEF F!EndFlags
  <2> QED BY <1>0, <1>1, <1>3, <2>1 DEF ArchsApart
<1>10. CASE F!FlagMissing
  <2>1. fpc = "flags" /\ fpc' = "flags" /\ fhanded' = fhanded /\ fi' = fi + 1
    BY <1>10 DEF F!FlagMissing
  <2>2. 1..fi \subseteq 1..fi'
    BY <1>0, <2>1
  <2> QED BY <1>0, <1>1, <1>3, <2>1, <2>2 DEF ArchsApart
<1>11. CASE F!FlagSlice
  <2>1. fpc' = fpc /\ fi' = fi + 1 /\ fpc = "flags" /\ fi < Len(req.archs)
    BY <1>11 DEF F!FlagSlice
  <2>2. PICK s \in 1..F!N :
          /\ F!First(s, F!get_corr_fat_arch(req.archs[fi + 1]))
          /\ F!HandOn(s, Len(req.archs) > 1, IF F!A(s).kind = "MH" THEN F!A(s).hdcpu ELSE 0)
    BY <1>11 DEF F!FlagSlice
  <2>3. Cpu(File.fat.archs[s]) = Cpu(Info(req.archs[fi + 1]))
    <3>1. F!Cpu(F!A(s)) = F!Cpu(F!Info(req.archs[fi + 1]))
      BY <2>2 DEF F!First, F!get_corr_fat_arch
    <3>2. F!Info(req.archs[fi + 1]) = Info(req.archs[fi + 1])
      BY DEF F!Info, Info
    <3> QED BY <3>1, <3>2 DEF F!A, F!Cpu, Cpu, F!Masked, Masked
  <2>4. \A x \in 1..fi : Cpu(Info(req.archs[x])) # Cpu(Info(req.archs[fi + 1]))
    <3>1. req \in Requests /\ req.archs \in Seq(STRING)
      BY RequestsAssumption DEF Types
    <3>2. DOMAIN req.archs = 1..Len(req.archs)
      BY <3>1
    <3>3. \A j, l \in DOMAIN req.archs : j # l => Cpu(Info(req.archs[j])) # Cpu(Info(req.archs[l]))
      BY DEF NoneTwice
    <3>4. \A x \in 1..fi : x \in 1..Len(req.archs) /\ x # fi + 1 /\ fi + 1 \in 1..Len(req.archs)
      BY <1>0, <2>1
    <3> QED BY <3>2, <3>3, <3>4
  <2>5. \A j \in DOMAIN fhanded : Apart(fhanded[j].n, s)
    <3>1. \A j \in DOMAIN fhanded : Cpu(File.fat.archs[fhanded[j].n]) # Cpu(File.fat.archs[s])
      BY <1>1, <2>1, <2>3, <2>4
    <3> QED BY <3>1 DEF Apart
  <2> DEFINE cputype == IF F!A(s).kind = "MH" THEN F!A(s).hdcpu ELSE 0
             label == Len(req.archs) > 1
  <2>6. F!HandOn(s, label, cputype)
    BY <2>2
  <2> HIDE DEF cputype, label
  <2>7. /\ \A j \in DOMAIN fhanded' :
            \/ j \in DOMAIN fhanded /\ fhanded'[j] = fhanded[j]
            \/ fhanded'[j].n = s
        /\ \A j, l \in DOMAIN fhanded' : j # l => Apart(fhanded'[j].n, fhanded'[l].n)
    BY <1>0, <1>1, <2>5, <2>6, OneMoreArch
  <2>8. \A j \in DOMAIN fhanded' : \E x \in 1..fi' :
           Cpu(File'.fat.archs[fhanded'[j].n]) = Cpu(Info(req.archs[x]))
    <3> SUFFICES ASSUME NEW j \in DOMAIN fhanded'
                 PROVE  \E x \in 1..fi' : Cpu(File.fat.archs[fhanded'[j].n]) = Cpu(Info(req.archs[x]))
      BY <1>0
    <3>1. CASE j \in DOMAIN fhanded /\ fhanded'[j] = fhanded[j]
      <4>1. PICK x \in 1..fi : Cpu(File.fat.archs[fhanded[j].n]) = Cpu(Info(req.archs[x]))
        BY <1>1, <2>1, <3>1
      <4>2. x \in 1..fi'
        BY <1>0, <2>1
      <4> QED BY <3>1, <4>1, <4>2
    <3>2. CASE fhanded'[j].n = s
      <4>1. Cpu(File.fat.archs[fhanded'[j].n]) = Cpu(Info(req.archs[fi + 1]))
        BY <2>3, <3>2
      <4>2. fi + 1 \in 1..fi'
        BY <1>0, <2>1
      <4> QED BY <4>1, <4>2
    <3> QED BY <2>7, <3>1, <3>2
  <2> QED BY <1>0, <1>3, <2>1, <2>7, <2>8 DEF ArchsApart
<1> QED BY <1>0, <1>6, <1>7, <1>8, <1>9, <1>10, <1>11 DEF F!Step

LEMMA StepArchsApart ==
  ASSUME Types, FatWays, ArchsApart, [Next]_vars
  PROVE  ArchsApart'
<1>1. CASE UNCHANGED <<req, n, fpc, fi, fhanded>>
  <2>1. /\ File' = File /\ F!N' = F!N /\ InFat' = InFat
        /\ NoneTwice' = NoneTwice /\ \A s : F!Twice(s)' = F!Twice(s)
        /\ \A s, t : Apart(s, t)' = Apart(s, t)
    BY <1>1 DEF File, F!N, InFat, F!Twice, F!A, NoneTwice, Apart, Cpu
  <2> QED BY <1>1, <2>1 DEF ArchsApart
<1>2. CASE fpc' = "idle"
  BY <1>2 DEF ArchsApart, InFat
<1>3. CASE EnterFat
  <2>1. fi' = 0 /\ fhanded' = << >> /\ (req.bin = "nm" => fpc' = "check")
    BY <1>3 DEF EnterFat
  <2>2. CASE req'.bin = "nm" /\ req' = req
    BY <2>1, <2>2 DEF ArchsApart
  <2>3. req' = req
    <3>1. CASE UNCHANGED vars
      BY <3>1 DEF vars
    <3> QED BY <3>1, Prints, MachoIs
  <2> QED BY <2>2, <2>3 DEF ArchsApart
<1>5. CASE handle_file
  <2>1. fpc = "idle"
    BY <1>5, NextFileIs DEF handle_file
  <2> QED BY <1>2, <1>3, <1>5, <2>1, EntersAs DEF fatVars
<1>6. CASE FatStep
  BY <1>6, FatStepApart
<1>7. CASE CannotOpen \/ CannotMap \/ NotAnObject
  BY <1>2, <1>7, NextFileIs DEF CannotOpen, CannotMap, NotAnObject, fatVars
<1>8. CASE EndFat
  BY <1>2, <1>8 DEF EndFat
<1>9. CASE ArchiveStep \/ EndArchive \/ handle_macho_file
  BY <1>1, <1>9 DEF ArchiveStep, EndArchive, handle_macho_file, fatVars
<1>10. CASE UNCHANGED vars
  BY <1>1, <1>10 DEF vars, fatVars
<1> QED BY <1>5, <1>6, <1>7, <1>8, <1>9, <1>10 DEF Next, Step

\* The names with which the current file was listed so far: those of slices and
\* members that are done with.
Within(x) ==
  InAr /\ \E y \in DOMAIN ahanded :
            x.member = ahanded[y] /\ (mode = "macho" => y < Len(ahanded))

\* `o' is where the listing of that name comes from.
Behind(x, o) ==
  IF InFat
    THEN \E y \in DOMAIN fhanded :
           /\ o.slice = fhanded[y].n
           /\ x.arch = (IF fhanded[y].label THEN Cpu(File.fat.archs[fhanded[y].n]) ELSE << >>)
           /\ y = Len(fhanded) /\ mode # "fat" => Within(x)
    ELSE Within(x)

\* otool drops the members' names of a slice that is shown with its architecture.
Counts(j) == req.bin = "otool" => Shown(j).arch = << >>

NamesSoFar ==
  /\ \A j \in DOMAIN out : out[j].what = "listing" => Shown(j).file \in 0..n
  /\ mode # "main" =>
       \A j \in DOMAIN out : out[j].what = "listing" /\ Counts(j) /\ Shown(j).file = n =>
         Behind(Shown(j), out[j].origin)

LEMMA BehindStays ==
  ASSUME Types, [Next]_vars, mode # "main", mode' # "main",
         NEW x, NEW o, Behind(x, o)
  PROVE  Behind(x, o)' /\ n' = n
<1>1. CASE UNCHANGED vars
  BY <1>1 DEF vars, fatVars, archiveVars, Behind, Within, InFat, InAr, File
<1>2. CASE FatStep
  <2>1. /\ req' = req /\ n' = n /\ InFat' /\ InFat /\ ~InAr /\ mode = "fat"
        /\ fhanded \in Seq(F!HandedSlice)
    BY <1>2, FatHandsOn
  <2>2. File' = File
    BY <2>1, SameFile
  <2>3. PICK y \in DOMAIN fhanded :
          /\ o.slice = fhanded[y].n
          /\ x.arch = IF fhanded[y].label THEN Cpu(File.fat.archs[fhanded[y].n]) ELSE << >>
    BY <2>1 DEF Behind
  <2>4. CASE fhanded' = fhanded /\ mode' = "fat"
    BY <2>1, <2>2, <2>3, <2>4 DEF Behind
  <2>5. CASE FatAdds
    <3>1. y \in DOMAIN fhanded' /\ y # Len(fhanded') /\ fhanded'[y] = fhanded[y]
      BY <2>1, <2>5 DEF FatAdds
    <3> QED BY <2>1, <2>2, <2>3, <3>1 DEF Behind
  <2> QED BY <1>2, <2>1, <2>4, <2>5, FatHandsOn
<1>3. CASE ArchiveStep
  <2>1. /\ req' = req /\ n' = n /\ InFat' = InFat /\ InAr /\ InAr' /\ mode = "archive"
        /\ File' = File /\ fhanded' = fhanded /\ ahanded \in Seq(Nat)
        /\ mode' # "fat"
    BY <1>3, ArchiveHandsOn DEF fatVars
  <2>2. Within(x) => Within(x)'
    <3>1. CASE ahanded' = ahanded /\ mode' = mode
      BY <2>1, <3>1 DEF Within
    <3>2. CASE ahanded' = Append(ahanded, pos)
      <4> SUFFICES ASSUME NEW y \in DOMAIN ahanded, x.member = ahanded[y]
                   PROVE  Within(x)'
        BY <2>1 DEF Within
      <4>1. y \in DOMAIN ahanded' /\ y < Len(ahanded') /\ ahanded'[y] = ahanded[y]
        BY <2>1, <3>2
      <4> QED BY <2>1, <4>1 DEF Within
    <3> QED BY <1>3, <3>1, <3>2, ArchiveHandsOn
  <2> QED BY <2>1, <2>2 DEF Behind
<1>4. CASE EndArchive
  <2>1. /\ mode = "archive" /\ mode' = (IF InFat THEN "fat" ELSE "main")
        /\ UNCHANGED <<req, n, fpc, fhanded>>
    BY <1>4 DEF EndArchive, fatVars
  <2>2. InFat /\ mode' = "fat" /\ InFat' /\ File' = File
    BY <2>1, SameFile DEF InFat
  <2> QED BY <2>1, <2>2 DEF Behind
<1>5. CASE handle_macho_file
  <2>1. /\ mode = "macho"
        /\ mode' = (IF InAr THEN "archive" ELSE IF InFat THEN "fat" ELSE "main")
        /\ UNCHANGED <<req, n, start, fpc, fi, fhanded, apc, pos, ahanded>>
    BY <1>5, MachoIs
  <2>2. InAr' = InAr /\ InFat' = InFat /\ File' = File
    BY <2>1, SameFile DEF InAr, InFat
  <2>3. Within(x) => Within(x)'
    BY <2>1, <2>2 DEF Within
  <2> QED BY <2>1, <2>2, <2>3 DEF Behind
<1>6. CASE NextFile \/ EndFat
  BY <1>6 DEF NextFile, EndFat
<1> QED BY <1>1, <1>2, <1>3, <1>4, <1>5, <1>6
        DEF Next, Step, CannotOpen, CannotMap, NotAnObject, handle_file

\* What is listed now is behind, once its slice or member is left.
LEMMA NewBehind ==
  ASSUME Types, handle_macho_file, mode' # "main", NEW x, x = Own, NEW o, o = Origin
  PROVE  Behind(x, o)'
<1>1. /\ mode = "macho"
      /\ mode' = (IF InAr THEN "archive" ELSE IF InFat THEN "fat" ELSE "main")
      /\ UNCHANGED <<req, n, start, fpc, fi, fhanded, apc, pos, ahanded>>
  BY MachoIs
<1>2. InAr' = InAr /\ InFat' = InFat /\ File' = File
  BY <1>1, SameFile DEF InAr, InFat
<1>3. x.arch = ShownArch /\ x.member = ShownMember
  BY DEF Own, Name
<1>4. InAr => Within(x)'
  <2> SUFFICES ASSUME InAr PROVE Within(x)'
    OBVIOUS
  <2>1. mode' = "archive" /\ x.member = ahanded[Len(ahanded)]
    BY <1>1, <1>3 DEF ShownMember, Member
  <2>2. Len(ahanded) \in DOMAIN ahanded
    <3>1. Len(ahanded) \in Nat \ {0} /\ ahanded \in Seq(Nat)
      BY <1>1, MemberIs DEF Types, ArchiveTypes
    <3> QED BY <3>1
  <2> QED BY <1>1, <1>2, <2>1, <2>2 DEF Within
<1>5. InAr \/ InFat
  BY <1>1
<1>6. CASE ~InFat
  BY <1>2, <1>4, <1>5, <1>6 DEF Behind
<1>7. CASE InFat
  <2>1. /\ Len(fhanded) \in DOMAIN fhanded
        /\ Slice = fhanded[Len(fhanded)]
    <3>1. fhanded \in Seq(F!HandedSlice) /\ Len(fhanded) \in Nat \ {0} /\ Slice = fhanded[Len(fhanded)]
      BY <1>1, <1>7, CurrentSlice DEF Types, FatTypes
    <3> QED BY <3>1
  <2>2. x.arch = IF fhanded[Len(fhanded)].label
                   THEN Cpu(File.fat.archs[fhanded[Len(fhanded)].n]) ELSE << >>
    BY <1>3, <1>7, <2>1 DEF ShownArch, Labelled, ArchOf, Cpu
  <2>3. mode' # "fat" => Within(x)'
    BY <1>1, <1>4, <1>7
  <2>4. o.slice = fhanded[Len(fhanded)].n
    BY <1>7, <2>1 DEF Origin
  <2> QED BY <1>1, <1>2, <1>7, <2>1, <2>2, <2>3, <2>4 DEF Behind
<1> QED BY <1>6, <1>7

LEMMA StepNamesSoFar ==
  ASSUME HInv, NamesSoFar, [Next]_vars
  PROVE  NamesSoFar'
<1>0. Types /\ Types' /\ n \in Nat
  BY StepTypes, RequestIs DEF HInv, Types
<1>1. req' = req
  BY <1>0, Prints, MachoIs
<1>2. n' \in Nat /\ n <= n'
  <2>1. n' = n \/ n' = n + 1
    BY DEF Next, Step, CannotOpen, CannotMap, NotAnObject, handle_file, NextFile, FatStep,
           EndFat, ArchiveStep, EndArchive, handle_macho_file, vars
  <2> QED BY <1>0, <2>1
\* A listing that was there.
<1>3. ASSUME NEW j \in DOMAIN out', out'[j].what = "listing", Stays(j)
      PROVE  /\ Shown(j)'.file \in 0..n'
             /\ mode' # "main" /\ Counts(j)' /\ Shown(j)'.file = n' => Behind(Shown(j), out[j].origin)'
  <2>1. /\ j \in DOMAIN out /\ out[j].what = "listing" /\ Shown(j)' = Shown(j)
        /\ out'[j].origin = out[j].origin
    BY <1>3 DEF Stays
  <2>2. Shown(j).file \in 0..n
    BY <2>1 DEF NamesSoFar
  <2>3. ASSUME mode' # "main", Counts(j)', Shown(j)'.file = n'
        PROVE  Behind(Shown(j), out[j].origin)'
    <3>1. Counts(j)
      BY <1>1, <2>1, <2>3 DEF Counts
    <3>2. CASE mode = "main"
      <4>1. NextFile \/ UNCHANGED vars
        <5>1. FatStep \/ EndFat \/ ArchiveStep \/ EndArchive \/ handle_macho_file => mode # "main"
          BY DEF FatStep, EndFat, ArchiveStep, EndArchive, handle_macho_file
        <5> QED BY <3>2, <5>1 DEF Next, Step, CannotOpen, CannotMap, NotAnObject, handle_file
      <4>2. n' = n + 1
        BY <2>3, <3>2, <4>1 DEF NextFile, vars
      <4> QED BY <1>0, <2>1, <2>2, <2>3, <4>2
    <3>3. CASE mode # "main"
      <4>1. PICK x, o : x = Shown(j) /\ o = out[j].origin
        OBVIOUS
      <4>2. \A z, p : Behind(z, p) => Behind(z, p)' /\ n' = n
        BY <1>0, <2>3, <3>3, BehindStays
      <4>3. Shown(j).file = n => Behind(Shown(j), out[j].origin)
        BY <2>1, <3>1, <3>3 DEF NamesSoFar
      <4>4. n' = n
        <5>1. ~NextFile
          BY <3>3 DEF NextFile
        <5> QED BY <5>1 DEF Next, Step, CannotOpen, CannotMap, NotAnObject, handle_file, FatStep,
                            EndFat, ArchiveStep, EndArchive, handle_macho_file, vars
      <4>5. Behind(x, o) /\ x = Shown(j)' /\ o = out'[j].origin
        BY <2>1, <2>3, <4>1, <4>3, <4>4
      <4>6. Behind(x, o)'
        BY <4>2, <4>5
      <4> QED BY <4>5, <4>6
    <3> QED BY <3>2, <3>3
  <2> QED BY <1>0, <1>2, <2>1, <2>2, <2>3
\* The one that is added.
<1>4. ASSUME handle_macho_file, NEW l \in Nat, out'[l].origin = Origin,
             \/ Shown(l)' = Own
             \/ Shown(l)' = Nowhere
             \/ req.bin = "otool" /\ Labelled /\ Shown(l)' = Name(ArchOf(Slice), 0)
      PROVE  /\ Shown(l)'.file \in 0..n'
             /\ mode' # "main" /\ Counts(l)' /\ Shown(l)'.file = n' => Behind(Shown(l), out[l].origin)'
  <2>1. /\ mode = "macho" /\ n' = n /\ n # 0
    BY <1>0, <1>4, MachoIs, ShownTypes
  <2>2. Shown(l)'.file = n \/ Shown(l)'.file = 0
    BY <1>4 DEF Own, Name, Nowhere
  <2>3. ASSUME mode' # "main", Counts(l)', Shown(l)'.file = n'
        PROVE  Behind(Shown(l), out[l].origin)'
    <3>1. Shown(l)' = Own
      <4>1. CASE Shown(l)' = Nowhere
        BY <2>1, <2>3, <4>1 DEF Nowhere
      <4>2. CASE req.bin = "otool" /\ Labelled /\ Shown(l)' = Name(ArchOf(Slice), 0)
        <5>1. ArchOf(Slice) # << >>
          BY DEF ArchOf, Cpu
        <5>2. Shown(l)'.arch = ArchOf(Slice)
          BY <4>2 DEF Name
        <5>3. Shown(l)'.arch = << >>
          BY <1>1, <2>3, <4>2 DEF Counts
        <5> QED BY <5>1, <5>2, <5>3
      <4> QED BY <1>4, <4>1, <4>2
    <3>2. PICK x, o : x = Own /\ o = Origin
      OBVIOUS
    <3>3. Behind(x, o)' /\ x = Shown(l)' /\ o = out'[l].origin
      BY <1>0, <1>4, <2>3, <3>1, <3>2, NewBehind
    <3> QED BY <3>3
  <2> QED BY <1>0, <2>1, <2>2, <2>3
<1>5. ASSUME NEW j \in DOMAIN out', out'[j].what = "listing"
      PROVE  /\ Shown(j)'.file \in 0..n'
             /\ mode' # "main" /\ Counts(j)' /\ Shown(j)'.file = n' => Behind(Shown(j), out[j].origin)'
  <2>1. CASE Stays(j)
    BY <1>3, <1>5, <2>1
  <2>2. CASE ~handle_macho_file
    BY <1>0, <1>5, <2>1, <2>2, ListingsStay
  <2>3. CASE out' = out
    BY <1>5, <2>1, <2>3, UnchangedStays
  <2>4. CASE handle_macho_file /\ out' # out
    <3>1. PICK l \in Nat :
            /\ OnlyHeadingsBefore(l) /\ out'[l].origin = Origin
            /\ req.bin = "otool" =>
                 Shown(l)' = IF Labelled THEN Name(ArchOf(Slice), 0) ELSE Own
            /\ req.bin = "nm" => Shown(l)' = Own \/ Shown(l)' = Nowhere
      BY <2>4, NewListing
    <3>2. j = l \/ Stays(j)
      BY <1>5, <3>1 DEF OnlyHeadingsBefore
    <3>3. \/ Shown(l)' = Own
          \/ Shown(l)' = Nowhere
          \/ req.bin = "otool" /\ Labelled /\ Shown(l)' = Name(ArchOf(Slice), 0)
      BY <1>0, <3>1, RequestIs
    <3> QED BY <1>4, <2>1, <2>4, <3>1, <3>2, <3>3
  <2> QED BY <2>2, <2>3, <2>4
<1> QED BY <1>5 DEF NamesSoFar

\* What is listed now and bears the name of one that is behind is a slice like
\* the other's but for capability bits.
LEMMA OwnIsNew ==
  ASSUME Types, FatWays, MembersApart, ArchsApart, mode = "macho", NEW x, NEW o,
         Behind(x, o), IF req.bin = "nm" THEN NoneTwice ELSE x.arch = << >>, x = Own
  PROVE  InFat /\ req.bin = "nm" /\ Apart(o.slice, Slice.n)
               /\ Cpu(File.fat.archs[o.slice]) = Cpu(File.fat.archs[Slice.n])
<1>0. Own.arch = ShownArch /\ Own.member = ShownMember
  BY DEF Own, Name
<1>1. Within(x) => x.member # Own.member
  <2> SUFFICES ASSUME Within(x) PROVE x.member # Own.member
    OBVIOUS
  <2>1. InAr /\ Own.member = ahanded[Len(ahanded)] /\ ahanded \in Seq(Nat)
        /\ Len(ahanded) \in Nat \ {0}
    BY <1>0, MemberIs DEF Within, Types, ArchiveTypes, ShownMember
  <2>2. PICK y \in DOMAIN ahanded : x.member = ahanded[y] /\ y < Len(ahanded)
    BY DEF Within
  <2>3. Len(ahanded) \in DOMAIN ahanded
    BY <2>1
  <2>4. ahanded[y] < ahanded[Len(ahanded)]
    BY <2>1, <2>2, <2>3 DEF MembersApart
  <2>5. ahanded[y] \in Nat /\ ahanded[Len(ahanded)] \in Nat
    BY <2>1, <2>2, <2>3
  <2> QED BY <2>1, <2>2, <2>4, <2>5
<1>2. ~Within(x)
  BY <1>1
<1>3. CASE InFat
  <2>1. /\ fhanded \in Seq(F!HandedSlice) /\ Len(fhanded) \in Nat \ {0}
        /\ Slice = fhanded[Len(fhanded)]
    BY <1>3, CurrentSlice DEF Types, FatTypes
  <2>2. PICK y \in DOMAIN fhanded :
          /\ o.slice = fhanded[y].n
          /\ x.arch = (IF fhanded[y].label THEN Cpu(File.fat.archs[fhanded[y].n]) ELSE << >>)
          /\ y = Len(fhanded) => Within(x)
    BY <1>3 DEF Behind
  <2>4. y # Len(fhanded)
    BY <1>2, <2>2
  <2> QED
    <3>1. Len(fhanded) > 1 /\ Len(fhanded) \in DOMAIN fhanded
      BY <2>1, <2>4
    <3>2. fhanded[y].label /\ Slice.label
      BY <1>3, <2>1, <3>1, WaysMean DEF OneUnlabelled
    <3>3. x.arch = Cpu(File.fat.archs[fhanded[y].n])
      BY <2>2, <3>2
    <3>4. Own.arch = Cpu(File.fat.archs[fhanded[Len(fhanded)].n])
      BY <1>0, <1>3, <2>1, <3>2 DEF ShownArch, Labelled, ArchOf, Cpu
    <3>5. req.bin = "nm" /\ NoneTwice
      <4>1. x.arch # << >>
        BY <3>3 DEF Cpu
      <4> QED BY <4>1, RequestIs
    <3>6. Apart(fhanded[y].n, fhanded[Len(fhanded)].n)
      BY <1>3, <2>4, <3>1, <3>5 DEF ArchsApart
    <3>7. PICK s, t : s = fhanded[y].n /\ t = fhanded[Len(fhanded)].n
      OBVIOUS
    <3>8. o.slice = s /\ Slice.n = t /\ Apart(s, t)
      BY <2>1, <2>2, <3>6, <3>7
    <3>9. Cpu(File.fat.archs[s]) = Cpu(File.fat.archs[t])
      BY <3>3, <3>4, <3>7
    <3> QED BY <1>3, <3>5, <3>8, <3>9
<1> QED BY <1>2, <1>3 DEF Behind

\* What stands in the output already has another name than what is added to it,
\* or is its twin.
LEMMA NewIsApart ==
  ASSUME HInv, MembersApart, ArchsApart, NamesSoFar, handle_macho_file,
         NEW j \in DOMAIN out, out[j].what = "listing", Counts(j), HeadingFits(j),
         req.bin = "nm" => NoneTwice,
         NEW l \in Nat,
         \/ Shown(l)' = Own
         \/ Shown(l)' = Nowhere /\ out = << >>
         \/ req.bin = "otool" /\ Labelled /\ Shown(l)' = Name(ArchOf(Slice), 0),
         Shown(j) = Shown(l)'
  PROVE  AllArchs(req.archs) /\ CapabilityTwins(out[j].origin, Origin)
<1>0. Types /\ FatWays /\ mode = "macho" /\ n # 0
  BY MachoIs, ShownTypes DEF HInv
<1>1. Shown(l)' = Own
  <2>1. CASE Shown(l)' = Nowhere /\ out = << >>
    BY <2>1
  <2>2. CASE req.bin = "otool" /\ Labelled /\ Shown(l)' = Name(ArchOf(Slice), 0)
    <3>1. Shown(l)'.arch # << >>
      BY <2>2 DEF ArchOf, Name, Cpu
    <3> QED BY <2>2, <3>1 DEF Counts
  <2> QED BY <2>1, <2>2
<1>2. PICK x, o : x = Shown(j) /\ o = out[j].origin
  OBVIOUS
<1>3. x = Own /\ x.file = n /\ x # Nowhere
  BY <1>0, <1>1, <1>2 DEF Own, Name, Nowhere
<1>4. Behind(x, o)
  BY <1>0, <1>2, <1>3 DEF NamesSoFar
<1>5. IF req.bin = "nm" THEN NoneTwice ELSE x.arch = << >>
  BY <1>0, <1>2, RequestIs DEF Counts
<1>6. /\ InFat /\ req.bin = "nm" /\ Apart(o.slice, Slice.n)
      /\ Cpu(File.fat.archs[o.slice]) = Cpu(File.fat.archs[Slice.n])
  BY <1>0, <1>3, <1>4, <1>5, OwnIsNew
<1>7. /\ Origin.file = n /\ Origin.slice = Slice.n /\ Origin.member = ShownMember
      /\ Own.member = ShownMember
  BY <1>6 DEF Origin, ShownMember, Own, Name
<1>8. o.file = n /\ o.member = Origin.member
  BY <1>2, <1>3, <1>6, <1>7 DEF HeadingFits
<1>9. FileOf(req, n) = File
  BY DEF FileOf, File
<1>10. /\ AllArchs(req.archs) /\ o.slice # Slice.n
       /\ File.fat.archs[o.slice].cpusubtype # File.fat.archs[Slice.n].cpusubtype
  BY <1>6 DEF Apart
<1> QED BY <1>2, <1>6, <1>7, <1>8, <1>9, <1>10 DEF CapabilityTwins
AInv == HInv /\ MembersApart /\ ArchsApart /\ NamesSoFar

LEMMA InitAInv == Init => AInv
<1> SUFFICES ASSUME Init PROVE AInv
  OBVIOUS
<1>1. fpc = "idle" /\ apc = "idle" /\ out = << >>
  BY DEF Init
<1>2. MembersApart /\ ArchsApart /\ NamesSoFar
  BY <1>1 DEF MembersApart, ArchsApart, NamesSoFar, InFat, InAr
<1> QED BY <1>2, InitHInv DEF AInv

LEMMA StepAInv == AInv /\ [Next]_vars => AInv'
BY StepHInv, StepMembersApart, StepArchsApart, StepNamesSoFar DEF AInv, HInv

\* Twins remain so: the command line does not change.
LEMMA SameTwins ==
  ASSUME req' = req, NEW a, NEW b
  PROVE  CapabilityTwins(a, b)' <=> CapabilityTwins(a, b)
<1>1. \A i : FileOf(req, i)' = FileOf(req, i)
  BY DEF FileOf
<1>2. PICK f : f = FileOf(req, a.file)
  OBVIOUS
<1>3. f = FileOf(req, a.file)'
  BY <1>1, <1>2
<1> QED BY <1>2, <1>3 DEF CapabilityTwins, Cpu

\* nm and otool, whatever they list and whatever was asked for: what stands in
\* front of the lines of a listing, or directly above it, is not what stands
\* with any other listing, neither of another file nor of another slice or
\* member, with the exceptions ListingsToldApart names: the slices check_fat_file
\* lets through although only their capability bits differ are one of them.
THEOREM ListingsAlwaysToldApart == Spec => []ListingsToldApart
<1>1. Init => HeadingsFit /\ ListingsToldApart
  BY DEF Init, ListingsToldApart, HeadingsFit
<1>2. ASSUME AInv, HeadingsFit, ListingsToldApart, [Next]_vars
      PROVE  ListingsToldApart'
  <2>0. Types /\ HInv /\ out \in Seq(Entry) /\ out' \in Seq(Entry)
    BY <1>2, StepTypes DEF AInv, HInv, Types
  <2>1. req' = req
    BY <1>2, <2>0, Prints, MachoIs
  <2> SUFFICES ASSUME req.bin = "nm" => NoneTwice,
                      req.bin = "nm" => ~({"o", "P"} \subseteq req.flags /\ "A" \notin req.flags),
                      NEW j \in DOMAIN out', NEW l \in DOMAIN out',
                      out'[j].what = "listing", out'[l].what = "listing", j < l,
                      req.bin = "otool" => Shown(j)'.arch = << >>,
                      Shown(j)' = Shown(l)'
               PROVE  AllArchs(req.archs) /\ CapabilityTwins(out[j].origin, out[l].origin)'
    BY <2>1 DEF ListingsToldApart, NoneTwice
  <2>2. CASE Stays(j) /\ Stays(l)
    <3>1. /\ j \in DOMAIN out /\ l \in DOMAIN out
          /\ out[j].what = "listing" /\ out[l].what = "listing"
          /\ out'[j].origin = out[j].origin /\ out'[l].origin = out[l].origin
          /\ Shown(j)' = Shown(j) /\ Shown(l)' = Shown(l)
      BY <2>2 DEF Stays
    <3>2. AllArchs(req.archs) /\ CapabilityTwins(out[j].origin, out[l].origin)
      BY <1>2, <2>1, <3>1 DEF ListingsToldApart
    <3>3. PICK a, b : a = out[j].origin /\ b = out[l].origin
      OBVIOUS
    <3>4. CapabilityTwins(out[j].origin, out[l].origin)' <=> CapabilityTwins(a, b)'
      BY <3>1, <3>3 DEF CapabilityTwins
    <3>5. CapabilityTwins(a, b)' <=> CapabilityTwins(a, b)
      BY <2>1, SameTwins
    <3>6. AllArchs(req.archs)'
      BY <2>1, <3>2 DEF AllArchs
    <3> QED BY <3>2, <3>3, <3>4, <3>5, <3>6
  <2>3. CASE out' = out
    BY <2>2, <2>3, UnchangedStays
  <2>4. CASE ~handle_macho_file
    BY <1>2, <2>0, <2>2, <2>4, ListingsStay
  <2>5. CASE handle_macho_file /\ out' # out
    <3>1. PICK m \in Nat :
            /\ m \in DOMAIN out' /\ m \notin DOMAIN out /\ out'[m].origin = Origin
            /\ OnlyHeadingsBefore(m)
            /\ req.bin = "otool" =>
                 Shown(m)' = IF Labelled THEN Name(ArchOf(Slice), 0) ELSE Own
            /\ req.bin = "nm" => Shown(m)' = Own \/ (Shown(m)' = Nowhere /\ out = << >>)
      BY <2>0, <2>5, NewListing
    <3>2. (j = m \/ Stays(j)) /\ (l = m \/ Stays(l))
      BY <3>1 DEF OnlyHeadingsBefore
    <3>3. CASE Stays(j) /\ l = m
      <4>1. /\ j \in DOMAIN out /\ out[j].what = "listing" /\ Shown(j)' = Shown(j) /\ Counts(j)
            /\ out'[j].origin = out[j].origin
        BY <3>3 DEF Stays, Counts
      <4>2. \/ Shown(m)' = Own
            \/ Shown(m)' = Nowhere /\ out = << >>
            \/ req.bin = "otool" /\ Labelled /\ Shown(m)' = Name(ArchOf(Slice), 0)
        BY <2>0, <3>1, RequestIs
      <4>3. HeadingFits(j)
        BY <1>2, <4>1 DEF HeadingsFit, HeadingFits
      <4>4. Shown(j) = Shown(m)'
        BY <3>3, <4>1
      <4>5. AllArchs(req.archs) /\ CapabilityTwins(out[j].origin, Origin)
        BY <1>2, <2>5, <4>1, <4>2, <4>3, <4>4, NewIsApart DEF AInv
      <4>6. PICK a, b : a = out[j].origin /\ b = Origin
        OBVIOUS
      <4>7. CapabilityTwins(out[j].origin, out[l].origin)' <=> CapabilityTwins(a, b)'
        BY <3>1, <3>3, <4>1, <4>6 DEF CapabilityTwins
      <4>8. CapabilityTwins(a, b)' <=> CapabilityTwins(a, b)
        BY <2>1, SameTwins
      <4>9. AllArchs(req.archs)'
        BY <2>1, <4>5 DEF AllArchs
      <4> QED BY <4>5, <4>6, <4>7, <4>8, <4>9
    <3>4. CASE j = m /\ Stays(l)
      <4>1. l \in 1..Len(out) /\ Len(out) \in Nat /\ DOMAIN out = 1..Len(out)
        BY <2>0, <3>4 DEF Stays
      <4>2. m \in DOMAIN out
        BY <2>0, <3>1, <3>4, <4>1
      <4> QED BY <3>1, <4>2
    <3> QED BY <2>2, <3>2, <3>3, <3>4
  <2> QED BY <2>3, <2>4, <2>5
<1>3. AInv /\ HeadingsFit /\ ListingsToldApart /\ [Next]_vars => (AInv /\ ListingsToldApart)'
  BY <1>2, StepAInv
<1> QED BY <1>1, <1>3, InitAInv, HeadingsAlwaysFit, PTL DEF Spec

-----------------------------------------------------------------------------
(* The recursive functions of the reference *)

\* A set of numbers has a least element: a statement about all numbers is
\* proved from the least number it could fail for.
LEMMA LeastNumber ==
  ASSUME NEW T \in SUBSET Nat, T # {}
  PROVE  \E x \in T : \A y \in T : x <= y
<1>1. PICK x \in T : \A y \in T : ~(<<y, x>> \in OpToRel(<, Nat))
  BY WFMin, NatLessThanWellFounded, Zenon
<1>2. \A y \in T : ~(y < x)
  BY <1>1, Zenon DEF OpToRel
<1> QED BY <1>2

\* Induction up to a number, over the set of the numbers a statement holds for.
LEMMA InductionUpTo ==
  ASSUME NEW N \in Nat, NEW P, 0 \in P,
         \A j \in 1..N : j - 1 \in P => j \in P
  PROVE  0..N \subseteq P
<1> DEFINE Bad == (0..N) \ P
<1> SUFFICES ASSUME Bad # {} PROVE FALSE
  OBVIOUS
<1>1. PICK m \in Bad : \A y \in Bad : m <= y
  <2>1. Bad \in SUBSET Nat
    OBVIOUS
  <2> HIDE DEF Bad
  <2> QED BY <2>1, LeastNumber
<1>2. m \in 1..N /\ m - 1 \in 0..N /\ m - 1 < m
  BY <1>1
<1>3. m - 1 \notin Bad
  BY <1>1, <1>2
<1> QED BY <1>1, <1>2, <1>3

\* Each value of g is what a step makes of the one before.
Recursive(g, N, S, zero, step) ==
  /\ g \in [0..N -> S] /\ g[0] = zero
  /\ \A j \in 1..N : g[j] = step[<<j, g[j - 1]>>]

\* Such a function exists.
LEMMA Recursion ==
  ASSUME NEW N \in Nat, NEW S, NEW zero \in S, NEW step \in [(1..N) \X S -> S]
  PROVE  \E g : Recursive(g, N, S, zero, step)
<1> DEFINE Is(g, m) == /\ g \in [0..m -> S] /\ g[0] = zero
                       /\ \A j \in 1..m : g[j] = step[<<j, g[j - 1]>>]
           Has(m) == \E g : Is(g, m)
           P == {m \in 0..N : Has(m)}
<1>1. 0 \in P
  <2>1. Is([j \in 0..0 |-> zero], 0)
    OBVIOUS
  <2>2. Has(0)
    <3> HIDE DEF Is
    <3> QED BY <2>1
  <2> HIDE DEF Has
  <2> QED BY <2>2
<1>2. ASSUME NEW m \in 1..N, m - 1 \in P PROVE m \in P
  <2>1. PICK g : Is(g, m - 1)
    BY <1>2
  <2> DEFINE h == [j \in 0..m |-> IF j = m THEN step[<<m, g[m - 1]>>] ELSE g[j]]
  <2>2. m - 1 \in 0..(m - 1) /\ 0 \in 0..(m - 1) /\ 0 # m
    OBVIOUS
  <2>3. g[m - 1] \in S
    BY <2>1, <2>2
  <2>4. step[<<m, g[m - 1]>>] \in S
    BY <2>3
  <2>5. \A j \in 0..m : j # m => j \in 0..(m - 1)
    OBVIOUS
  <2>6. h \in [0..m -> S] /\ h[0] = zero
    BY <2>1, <2>2, <2>4, <2>5
  <2>7. ASSUME NEW j \in 1..m PROVE h[j] = step[<<j, h[j - 1]>>]
    <3>1. j \in 0..m /\ j - 1 \in 0..m /\ j - 1 # m
      OBVIOUS
    <3>2. h[j - 1] = g[j - 1]
      BY <3>1
    <3>3. CASE j = m
      BY <3>1, <3>2, <3>3
    <3>4. CASE j # m
      <4>1. j \in 1..(m - 1)
        BY <3>4
      <4>2. h[j] = g[j]
        BY <3>1, <3>4
      <4> QED BY <2>1, <3>2, <4>1, <4>2
    <3> QED BY <3>3, <3>4
  <2> HIDE DEF h
  <2>8. Is(h, m)
    BY <2>6, <2>7
  <2> QED BY <2>8
<1>3. 0..N \subseteq P
  <2> HIDE DEF P
  <2> QED BY <1>1, <1>2, InductionUpTo
<1>4. Has(N)
  <2>1. N \in 0..N
    OBVIOUS
  <2> HIDE DEF Has
  <2> QED BY <1>3, <2>1
<1> QED BY <1>4 DEF Recursive

\* Two of them that take the same steps up to N agree up to N.
LEMMA Agreement ==
  ASSUME NEW N \in Nat, NEW M \in Nat, N <= M, NEW S, NEW zero, NEW g, NEW h,
         NEW step, NEW other,
         Recursive(g, N, S, zero, step), Recursive(h, M, S, zero, other),
         \A j \in 1..N, x \in S : other[<<j, x>>] = step[<<j, x>>]
  PROVE  \A j \in 0..N : h[j] = g[j]
<1> DEFINE P == {j \in 0..N : h[j] = g[j]}
<1>1. 0 \in P
  BY DEF Recursive
<1>2. ASSUME NEW j \in 1..N, j - 1 \in P PROVE j \in P
  <2>1. j \in 1..M /\ j - 1 \in 0..N /\ j \in 0..N
    OBVIOUS
  <2>2. g[j] = step[<<j, g[j - 1]>>] /\ h[j] = other[<<j, h[j - 1]>>]
    BY <2>1 DEF Recursive
  <2>3. h[j - 1] = g[j - 1] /\ g[j - 1] \in S
    BY <1>2, <2>1 DEF Recursive
  <2> QED BY <2>1, <2>2, <2>3
<1>3. 0..N \subseteq P
  <2> HIDE DEF P
  <2> QED BY <1>1, <1>2, InductionUpTo
<1> QED BY <1>3

\* The listings among what was printed, one entry after the other.
Origins == Places \cup {Nowhere}
ListStep(o) == [p \in (1..Len(o)) \X Seq(Origins) |->
                  IF o[p[1]].what = "listing" THEN Append(p[2], o[p[1]].origin) ELSE p[2]]

\* Listings, as a recursive function is known to the provers.
LEMMA ListingsIs ==
  ASSUME NEW o \in Seq(Entry)
  PROVE  \E g : /\ Recursive(g, Len(o), Seq(Origins), << >>, ListStep(o))
                /\ Listings(o) = g[Len(o)]
<1> DEFINE N == Len(o)
           Is(g) == g = [j \in 0..N |-> IF j = 0 THEN << >>
                           ELSE IF o[j].what = "listing" THEN Append(g[j - 1], o[j].origin)
                           ELSE g[j - 1]]
<1>1. N \in Nat /\ \A j \in 1..N : o[j].origin \in Origins
  <2>1. \A e \in Entry : e.origin \in Origins
    BY DEF Entry, Origins
  <2> QED BY <2>1
<1>2. ListStep(o) \in [(1..N) \X Seq(Origins) -> Seq(Origins)]
  BY <1>1 DEF ListStep
<1>3. << >> \in Seq(Origins)
  OBVIOUS
<1>4. PICK g : Recursive(g, N, Seq(Origins), << >>, ListStep(o))
  <2> HIDE DEF N, Is
  <2> QED BY <1>1, <1>2, <1>3, Recursion
<1>5. \A j \in 1..N : g[j] = IF o[j].what = "listing" THEN Append(g[j - 1], o[j].origin)
                             ELSE g[j - 1]
  <2>1. \A j \in 1..N : j - 1 \in 0..N
    BY <1>1
  <2> QED BY <1>4, <2>1 DEF Recursive, ListStep
<1>6. Is(g)
  <2>1. \A j \in 0..N : j # 0 => j \in 1..N
    BY <1>1
  <2> QED BY <1>4, <1>5, <2>1 DEF Recursive
<1>7. ASSUME NEW h, Is(h) PROVE h = g
  <2> DEFINE P == {j \in 0..N : h[j] = g[j]}
  <2>1. \A j \in 0..N : h[j] = IF j = 0 THEN << >>
                           ELSE IF o[j].what = "listing" THEN Append(h[j - 1], o[j].origin)
                           ELSE h[j - 1]
    BY <1>7, Zenon
  <2>2. 0 \in 0..N /\ \A j \in 1..N : j \in 0..N /\ j # 0 /\ j - 1 \in 0..N
    BY <1>1
  <2>3. h[0] = << >> /\ g[0] = << >>
    BY <1>4, <2>1, <2>2, Zenon DEF Recursive
  <2>4. 0 \in P
    BY <2>2, <2>3
  <2>5. ASSUME NEW j \in 1..N, j - 1 \in P PROVE j \in P
    <3>1. h[j] = IF o[j].what = "listing" THEN Append(h[j - 1], o[j].origin) ELSE h[j - 1]
      BY <2>1, <2>2, Zenon
    <3> QED BY <1>5, <2>2, <2>5, <3>1
  <2>6. 0..N \subseteq P
    <3> HIDE DEF P, Is
    <3> QED BY <1>1, <2>4, <2>5, InductionUpTo
  <2>7. DOMAIN h = 0..N /\ DOMAIN g = 0..N
    BY <1>4, <1>7 DEF Recursive
  <2>8. h = [j \in 0..N |-> h[j]] /\ g = [j \in 0..N |-> g[j]]
    BY <1>6, <1>7
  <2> QED BY <2>6, <2>8
<1>8. Listings(o) = (CHOOSE h : Is(h))[N]
  BY DEF Listings
<1>9. (CHOOSE h : Is(h)) = g
  <2>1. Is(CHOOSE h : Is(h))
    BY <1>6, Zenon
  <2> HIDE DEF Is
  <2> QED BY <1>7, <2>1
<1> QED BY <1>4, <1>8, <1>9

\* One more entry, one more listing or none.
LEMMA ListingsMore ==
  ASSUME NEW o \in Seq(Entry)
  PROVE  /\ Listings(o) \in Seq(Origins)
         /\ o = << >> => Listings(o) = << >>
         /\ \A e \in Entry : Listings(Append(o, e)) =
              IF e.what = "listing" THEN Append(Listings(o), e.origin) ELSE Listings(o)
<1>0. Len(o) \in Nat
  OBVIOUS
<1>1. PICK g : /\ Recursive(g, Len(o), Seq(Origins), << >>, ListStep(o))
               /\ Listings(o) = g[Len(o)]
  BY ListingsIs
<1>2. Listings(o) \in Seq(Origins) /\ (o = << >> => Listings(o) = << >>)
  BY <1>0, <1>1 DEF Recursive
<1>3. ASSUME NEW e \in Entry
      PROVE  Listings(Append(o, e)) =
               IF e.what = "listing" THEN Append(Listings(o), e.origin) ELSE Listings(o)
  <2> DEFINE q == Append(o, e)
             N == Len(o)
             M == Len(q)
  <2>1. q \in Seq(Entry) /\ M = N + 1 /\ q[M] = e /\ (\A j \in 1..N : q[j] = o[j])
    OBVIOUS
  <2>2. PICK h : /\ Recursive(h, M, Seq(Origins), << >>, ListStep(q))
                 /\ Listings(q) = h[M]
    <3> HIDE DEF q
    <3> QED BY <2>1, ListingsIs
  <2>3. \A j \in 1..N, x \in Seq(Origins) :
          ListStep(q)[<<j, x>>] = ListStep(o)[<<j, x>>]
    <3>1. \A j \in 1..N : j \in 1..M
      BY <1>0, <2>1
    <3> HIDE DEF q, N, M
    <3> QED BY <2>1, <3>1 DEF ListStep, N, M
  <2>4. M \in Nat /\ N <= M /\ N \in 0..N /\ M \in 1..M /\ M - 1 = N
    BY <1>0, <2>1
  <2>5. \A j \in 0..N : h[j] = g[j]
    <3> HIDE DEF q, M
    <3> QED BY <1>0, <1>1, <2>2, <2>3, <2>4, Agreement
  <2>6. h[M] = ListStep(q)[<<M, h[N]>>] /\ h[N] = Listings(o)
    <3> HIDE DEF q, M, N
    <3> QED BY <1>1, <2>2, <2>4, <2>5 DEF Recursive, N
  <2>7. ListStep(q)[<<M, Listings(o)>>] =
          IF e.what = "listing" THEN Append(Listings(o), e.origin) ELSE Listings(o)
    <3> HIDE DEF q, M, N
    <3> QED BY <1>2, <2>1, <2>4 DEF ListStep, M
  <2> QED BY <2>2, <2>6, <2>7
<1> QED BY <1>2, <1>3

\* One answer of each, and one more.
Choices == SUBSET Seq(Places)
ConcatStep(f) == [p \in (1..Len(f)) \X Choices |-> Joined(p[2], f[p[1]])]

\* Choices: sets of answers, each a sequence of places.
LEMMA JoinedIs ==
  ASSUME NEW x \in Choices, NEW y \in Choices
  PROVE  Joined(x, y) \in Choices
<1> SUFFICES ASSUME NEW z \in Joined(x, y) PROVE z \in Seq(Places)
  BY DEF Choices
<1>1. PICK a \in x, b \in y : z = a \o b
  BY DEF Joined
<1>2. a \in Seq(Places) /\ b \in Seq(Places)
  BY DEF Choices
<1> QED BY <1>1, <1>2

\* Concats, as a recursive function is known to the provers.
LEMMA ConcatsIs ==
  ASSUME NEW f \in Seq(Choices)
  PROVE  \E g : /\ Recursive(g, Len(f), Choices, {<< >>}, ConcatStep(f))
                /\ Concats(f) = g[Len(f)]
<1> DEFINE N == Len(f)
           Is(g) == g = [j \in 0..N |-> IF j = 0 THEN {<< >>}
                           ELSE Joined(g[j - 1], f[j])]
<1>1. N \in Nat /\ \A j \in 1..N : f[j] \in Choices
  <2> HIDE DEF Is
  <2> QED OBVIOUS
<1>2. ConcatStep(f) \in [(1..N) \X Choices -> Choices]
  <2>1. \A j \in 1..N, x \in Choices : Joined(x, f[j]) \in Choices
    BY <1>1, JoinedIs
  <2> QED BY <2>1 DEF ConcatStep
<1>3. {<< >>} \in Choices
  BY DEF Choices
<1>4. PICK g : Recursive(g, N, Choices, {<< >>}, ConcatStep(f))
  <2> HIDE DEF N, Is
  <2> QED BY <1>1, <1>2, <1>3, Recursion
<1>5. \A j \in 1..N : g[j] = Joined(g[j - 1], f[j])
  <2>1. \A j \in 1..N : j - 1 \in 0..N
    BY <1>1
  <2>2. \A j \in 1..N : g[j] = ConcatStep(f)[<<j, g[j - 1]>>] /\ g[j - 1] \in Choices
    BY <1>4, <2>1 DEF Recursive
  <2> QED BY <2>2 DEF ConcatStep
<1>6. Is(g)
  <2>1. \A j \in 0..N : j # 0 => j \in 1..N
    BY <1>1
  <2> QED BY <1>4, <1>5, <2>1 DEF Recursive
<1>7. ASSUME NEW h, Is(h) PROVE h = g
  <2> DEFINE P == {j \in 0..N : h[j] = g[j]}
  <2>1. \A j \in 0..N : h[j] = IF j = 0 THEN {<< >>}
                               ELSE Joined(h[j - 1], f[j])
    BY <1>7, Zenon
  <2>2. 0 \in 0..N /\ \A j \in 1..N : j \in 0..N /\ j # 0 /\ j - 1 \in 0..N
    BY <1>1
  <2>3. h[0] = {<< >>} /\ g[0] = {<< >>}
    BY <1>4, <2>1, <2>2, Zenon DEF Recursive
  <2>4. 0 \in P
    BY <2>2, <2>3
  <2>5. ASSUME NEW j \in 1..N, j - 1 \in P PROVE j \in P
    <3>1. h[j] = Joined(h[j - 1], f[j])
      BY <2>1, <2>2, Zenon
    <3> QED BY <1>5, <2>2, <2>5, <3>1
  <2>6. 0..N \subseteq P
    <3> HIDE DEF P, Is
    <3> QED BY <1>1, <2>4, <2>5, InductionUpTo
  <2>8. h = [j \in 0..N |-> h[j]] /\ g = [j \in 0..N |-> g[j]]
    BY <1>6, <1>7
  <2> QED BY <2>6, <2>8
<1>8. Concats(f) = (CHOOSE h : Is(h))[N]
  BY DEF Concats
<1>9. (CHOOSE h : Is(h)) = g
  <2>1. Is(CHOOSE h : Is(h))
    BY <1>6, Zenon
  <2> HIDE DEF Is
  <2> QED BY <1>7, <2>1
<1> QED BY <1>4, <1>8, <1>9

\* One more answer is joined to those before it.
LEMMA ConcatsMore ==
  ASSUME NEW f \in Seq(Choices)
  PROVE  /\ Concats(f) \in Choices
         /\ f = << >> => Concats(f) = {<< >>}
         /\ \A c \in Choices : Concats(Append(f, c)) = Joined(Concats(f), c)
<1>0. Len(f) \in Nat
  OBVIOUS
<1>1. PICK g : /\ Recursive(g, Len(f), Choices, {<< >>}, ConcatStep(f))
               /\ Concats(f) = g[Len(f)]
  BY ConcatsIs
<1>2. Concats(f) \in Choices /\ (f = << >> => Concats(f) = {<< >>})
  BY <1>0, <1>1 DEF Recursive
<1>3. ASSUME NEW c \in Choices
      PROVE  Concats(Append(f, c)) = Joined(Concats(f), c)
  <2> DEFINE q == Append(f, c)
             N == Len(f)
             M == Len(q)
  <2>1. q \in Seq(Choices) /\ M = N + 1 /\ q[M] = c /\ (\A j \in 1..N : q[j] = f[j])
    OBVIOUS
  <2>2. PICK h : /\ Recursive(h, M, Choices, {<< >>}, ConcatStep(q))
                 /\ Concats(q) = h[M]
    <3> HIDE DEF q
    <3> QED BY <2>1, ConcatsIs
  <2>3. \A j \in 1..N, x \in Choices :
          ConcatStep(q)[<<j, x>>] = ConcatStep(f)[<<j, x>>]
    <3>1. \A j \in 1..N : j \in 1..M
      BY <1>0, <2>1
    <3> HIDE DEF q, N, M
    <3> QED BY <2>1, <3>1 DEF ConcatStep, N, M
  <2>4. M \in Nat /\ N <= M /\ N \in 0..N /\ M \in 1..M /\ M - 1 = N
    BY <1>0, <2>1
  <2>5. \A j \in 0..N : h[j] = g[j]
    <3> HIDE DEF q, M
    <3> QED BY <1>0, <1>1, <2>2, <2>3, <2>4, Agreement
  <2>6. h[M] = ConcatStep(q)[<<M, h[N]>>] /\ h[N] = Concats(f)
    <3> HIDE DEF q, M, N
    <3> QED BY <1>1, <2>2, <2>4, <2>5 DEF Recursive, N
  <2>7. ConcatStep(q)[<<M, Concats(f)>>] = Joined(Concats(f), c)
    <3> HIDE DEF q, M, N
    <3> QED BY <1>2, <2>1, <2>4 DEF ConcatStep, M
  <2> QED BY <2>2, <2>6, <2>7
<1> QED BY <1>2, <1>3

-----------------------------------------------------------------------------
(* The objects of an archive in their order *)

UpTo(P, m) == {q \in P : q <= m}

\* The numbers of a set up to m + 1 are those up to m and perhaps m + 1.
LEMMA CountUpTo ==
  ASSUME NEW P \in SUBSET Nat, IsFiniteSet(P), NEW m \in Nat
  PROVE  /\ IsFiniteSet(UpTo(P, m)) /\ Cardinality(UpTo(P, m)) \in Nat
         /\ Cardinality(UpTo(P, m + 1)) =
              Cardinality(UpTo(P, m)) + (IF m + 1 \in P THEN 1 ELSE 0)
<1>1. UpTo(P, m) \in SUBSET P
  BY DEF UpTo
<1>2. IsFiniteSet(UpTo(P, m)) /\ Cardinality(UpTo(P, m)) \in Nat
  BY <1>1, FS_Subset, FS_CardinalityType
<1>0. \A q \in P : q \in Nat /\ (q <= m + 1 <=> q <= m \/ q = m + 1) /\ ~(m + 1 <= m)
  OBVIOUS
<1>3. CASE m + 1 \in P
  <2>1. UpTo(P, m + 1) = UpTo(P, m) \cup {m + 1} /\ m + 1 \notin UpTo(P, m)
    BY <1>0, <1>3 DEF UpTo
  <2> QED BY <1>2, <1>3, <2>1, FS_AddElement
<1>4. CASE m + 1 \notin P
  <2>1. UpTo(P, m + 1) = UpTo(P, m)
    BY <1>0, <1>4 DEF UpTo
  <2> QED BY <1>2, <1>4, <2>1
<1> QED BY <1>2, <1>3, <1>4

\* Each rank is taken by some member of the set.
LEMMA Ranked ==
  ASSUME NEW P \in SUBSET Nat, NEW b \in Nat, \A p \in P : 0 < p /\ p <= b,
         NEW j \in 1..Cardinality(P)
  PROVE  \E p \in P : Cardinality(UpTo(P, p)) = j
<1>0. IsFiniteSet(P) /\ Cardinality(P) \in Nat
  <2>1. \A p \in P : p <= b
    OBVIOUS
  <2> QED BY <2>1, FS_BoundedSetOfNaturals, FS_CardinalityType
<1> DEFINE T == {m \in Nat : Cardinality(UpTo(P, m)) >= j}
<1>1. UpTo(P, b) = P /\ UpTo(P, 0) = {}
  <2>1. \A p \in P : p <= b /\ ~(p <= 0)
    OBVIOUS
  <2> QED BY <2>1 DEF UpTo
<1>2. b \in T /\ 0 \notin T
  BY <1>0, <1>1, FS_EmptySet
<1>3. PICK m \in T : \A y \in T : m <= y
  <2>1. T \in SUBSET Nat /\ T # {}
    BY <1>2
  <2> HIDE DEF T
  <2> QED BY <2>1, LeastNumber
<1>4. m \in Nat /\ m # 0 /\ m - 1 \in Nat /\ m - 1 \notin T /\ (m - 1) + 1 = m
  BY <1>2, <1>3
<1>5. Cardinality(UpTo(P, m)) >= j /\ ~(Cardinality(UpTo(P, m - 1)) >= j)
  BY <1>3, <1>4
<1>6. /\ Cardinality(UpTo(P, m - 1)) \in Nat
      /\ Cardinality(UpTo(P, m)) = Cardinality(UpTo(P, m - 1)) + (IF m \in P THEN 1 ELSE 0)
  BY <1>0, <1>4, CountUpTo
<1>7. m \in P /\ Cardinality(UpTo(P, m)) = j
  BY <1>0, <1>5, <1>6
<1> QED BY <1>7

\* What enumerates a set upwards enumerates it by rank.
LEMMA RankOfEach ==
  ASSUME NEW P \in SUBSET Nat, NEW h \in Seq(Nat), {h[j] : j \in DOMAIN h} = P,
         \A j, l \in DOMAIN h : j < l => h[j] < h[l],
         NEW j \in 1..Len(h)
  PROVE  Cardinality(UpTo(P, h[j])) = j
<1> DEFINE f == [l \in 1..j |-> h[l]]
           Q == UpTo(P, h[j])
<1>1. Len(h) \in Nat /\ DOMAIN h = 1..Len(h) /\ \A l \in 1..Len(h) : h[l] \in Nat
  OBVIOUS
<1>2. \A l \in 1..Len(h) : h[l] <= h[j] <=> l <= j
  <2> SUFFICES ASSUME NEW l \in 1..Len(h) PROVE h[l] <= h[j] <=> l <= j
    OBVIOUS
  <2>1. l < j => h[l] < h[j]
    BY <1>1
  <2>2. j < l => h[j] < h[l]
    BY <1>1
  <2> QED BY <1>1, <2>1, <2>2
<1>3. \A l \in 1..j : l \in 1..Len(h)
  BY <1>1
<1>4. f \in [1..j -> Q]
  <2>1. \A l \in 1..j : h[l] <= h[j]
    BY <1>2, <1>3
  <2>2. \A l \in 1..j : h[l] \in P
    BY <1>1, <1>3
  <2> QED BY <2>1, <2>2 DEF UpTo
<1>5. \A x, y \in 1..j : x # y => f[x] # f[y]
  <2> SUFFICES ASSUME NEW x \in 1..j, NEW y \in 1..j, x < y PROVE h[x] # h[y]
    OBVIOUS
  <2>1. h[x] < h[y] /\ h[x] \in Nat /\ h[y] \in Nat
    BY <1>1, <1>3
  <2> QED BY <2>1
<1>6. \A q \in Q : \E l \in 1..j : f[l] = q
  <2> SUFFICES ASSUME NEW q \in Q PROVE \E l \in 1..j : h[l] = q
    OBVIOUS
  <2>1. q \in P /\ q <= h[j]
    BY DEF UpTo
  <2>2. PICK l \in 1..Len(h) : h[l] = q
    BY <1>1, <2>1
  <2>3. l \in 1..j
    BY <1>1, <1>2, <2>1, <2>2
  <2> QED BY <2>2, <2>3
<1>7. ExistsBijection(1..j, Q)
  <2>1. f \in Injection(1..j, Q)
    <3> HIDE DEF f, Q
    <3> QED BY <1>4, <1>5 DEF Injection, IsInjective
  <2>2. f \in Surjection(1..j, Q)
    <3> HIDE DEF f, Q
    <3> QED BY <1>4, <1>6 DEF Surjection
  <2> QED BY <2>1, <2>2 DEF ExistsBijection, Bijection
<1>8. IsFiniteSet(1..j) /\ Cardinality(1..j) = j
  BY FS_Interval
<1> QED BY <1>7, <1>8, FS_Bijection

\* The objects are a sequence of places.
LEMMA ObjectsType ==
  ASSUME NEW ar, NEW b \in Nat, DOMAIN ar.images \subseteq 1..b
  PROVE  /\ ObjectsOf(ar) \in Seq(DOMAIN ar.images)
         /\ ObjectsOf(ar) = << >> <=> DOMAIN ar.images = {}
<1> DEFINE P == DOMAIN ar.images
           N == Cardinality(P)
<1>1. P \in SUBSET Nat /\ \A p \in P : 0 < p /\ p <= b
  OBVIOUS
<1>2. IsFiniteSet(P) /\ N \in Nat /\ (N = 0 <=> P = {})
  <2> HIDE DEF P
  <2> QED BY <1>1, FS_BoundedSetOfNaturals, FS_CardinalityType, FS_EmptySet
<1>3. \A j \in 1..N : \E p \in P : Cardinality({q \in P : q <= p}) = j
  <2>1. \A j \in 1..N : \E p \in P : Cardinality(UpTo(P, p)) = j
    <3> HIDE DEF P
    <3> QED BY <1>1, Ranked
  <2> QED BY <2>1 DEF UpTo
<1> DEFINE o == [j \in 1..N |-> CHOOSE p \in P : Cardinality({q \in P : q <= p}) = j]
<1>4. ObjectsOf(ar) = o
  BY DEF ObjectsOf
<1>5. o \in [1..N -> P]
  <2> HIDE DEF P, N
  <2> QED BY <1>3
<1>6. o \in Seq(P) /\ Len(o) = N
  <2> HIDE DEF o, P
  <2> QED BY <1>2, <1>5
<1>7. o = << >> <=> N = 0
  <2> HIDE DEF o, P
  <2> QED BY <1>2, <1>6
<1> QED BY <1>2, <1>4, <1>6, <1>7

\* They are what lists all of them upwards.
LEMMA ObjectsAre ==
  ASSUME NEW ar, NEW b \in Nat, DOMAIN ar.images \subseteq 1..b,
         NEW h \in Seq(Nat), {h[j] : j \in DOMAIN h} = DOMAIN ar.images,
         \A j, l \in DOMAIN h : j < l => h[j] < h[l]
  PROVE  ObjectsOf(ar) = h
<1> DEFINE P == DOMAIN ar.images
           N == Cardinality(P)
           M == Len(h)
<1>1. P \in SUBSET Nat /\ (\A p \in P : 0 < p /\ p <= b) /\ M \in Nat
      /\ DOMAIN h = 1..M /\ \A j \in 1..M : h[j] \in P
  OBVIOUS
<1>0. {h[j] : j \in DOMAIN h} = P /\ \A j \in 1..M : h[j] \in Nat
  OBVIOUS
<1>2. \A j \in 1..M : Cardinality(UpTo(P, h[j])) = j
  <2> HIDE DEF P
  <2> QED BY <1>0, <1>1, RankOfEach
<1>3. N = M
  <2>1. CASE M = 0
    <3>1. P = {}
      BY <1>1, <2>1
    <3> QED BY <2>1, <3>1, FS_EmptySet
  <2>2. CASE M # 0
    <3>1. M \in 1..M /\ \A p \in P : \E j \in 1..M : p = h[j]
      BY <1>1, <2>2
    <3>2. \A j \in 1..M : h[j] <= h[M]
      <4> SUFFICES ASSUME NEW j \in 1..M PROVE h[j] <= h[M]
        OBVIOUS
      <4>1. j = M \/ j < M
        <5> HIDE DEF P, M
        <5> QED BY <1>1
      <4>2. h[j] \in Nat /\ h[M] \in Nat
        BY <1>0, <3>1
      <4>3. j < M => h[j] < h[M]
        BY <1>1, <3>1
      <4> HIDE DEF P, M
      <4> QED BY <4>1, <4>2, <4>3
    <3>3. UpTo(P, h[M]) = P
      <4>1. \A p \in P : p <= h[M]
        BY <3>1, <3>2
      <4> HIDE DEF P, M
      <4> QED BY <4>1 DEF UpTo
    <3> QED BY <1>2, <3>1, <3>3
  <2> QED BY <2>1, <2>2
<1>4. ASSUME NEW j \in 1..M
      PROVE  (CHOOSE p \in P : Cardinality({q \in P : q <= p}) = j) = h[j]
  <2>1. \A p \in P : Cardinality(UpTo(P, p)) = j <=> p = h[j]
    <3> SUFFICES ASSUME NEW p \in P PROVE Cardinality(UpTo(P, p)) = j <=> p = h[j]
      OBVIOUS
    <3>1. PICK l \in 1..M : p = h[l]
      BY <1>1
    <3>2. Cardinality(UpTo(P, p)) = l
      BY <1>2, <3>1
    <3> QED BY <1>2, <3>1, <3>2
  <2>2. h[j] \in P
    BY <1>1
  <2>3. \A p : UpTo(P, p) = {q \in P : q <= p}
    <3> HIDE DEF P
    <3> QED BY DEF UpTo
  <2>4. \A p \in P : Cardinality({q \in P : q <= p}) = j <=> p = h[j]
    <3> HIDE DEF P, M
    <3> QED BY <2>1, <2>3
  <2> HIDE DEF P
  <2> QED BY <2>2, <2>4
<1>5. ObjectsOf(ar) = [j \in 1..M |-> h[j]]
  <2>1. ObjectsOf(ar) = [j \in 1..N |-> CHOOSE p \in P : Cardinality({q \in P : q <= p}) = j]
    BY DEF ObjectsOf
  <2> HIDE DEF P, N
  <2> QED BY <1>3, <1>4, <2>1
<1> QED BY <1>5

-----------------------------------------------------------------------------
(* Archive at work: what is proved about it holds here *)

\* The archives on the disk and the lists of -arch flags.
OnDisk ==
  {Disk[name].ar : name \in {x \in DOMAIN Disk : Disk[x].kind = "ARCHIVE"}}
  \cup UNION {{Disk[name].inner[s] : s \in {t \in DOMAIN Disk[name].fat.archs :
                                              Disk[name].fat.archs[t].kind = "ARCHIVE"}} :
                name \in {x \in DOMAIN Disk : Disk[x].kind = "FAT"}}
FlagLists == {r.archs : r \in Requests}

AP == INSTANCE ArchiveProofs WITH
  Archives <- OnDisk, ArchFlags <- FlagLists, Bins <- {"nm", "otool"}, file <- Archive,
  archs <- req.archs, bin <- req.bin, from <- Labelled, pc <- apc, missing <- amissing,
  handed <- ahanded

\* What SoundDisk says of the archives on the disk.
LEMMA OnDiskIs ==
  ASSUME SoundDisk, NEW ar \in OnDisk
  PROVE  SoundArchive(ar) /\ IsArchive(ar)
<1>1. CASE \E name \in DOMAIN Disk : Disk[name].kind = "ARCHIVE" /\ ar = Disk[name].ar
  BY <1>1, DiskAssumption DEF SoundDisk
<1>2. CASE \E name \in DOMAIN Disk : \E s \in DOMAIN Disk[name].fat.archs :
             /\ Disk[name].kind = "FAT" /\ Disk[name].fat.archs[s].kind = "ARCHIVE"
             /\ ar = Disk[name].inner[s]
  <2>1. PICK name \in DOMAIN Disk : \E s \in DOMAIN Disk[name].fat.archs :
               /\ Disk[name].kind = "FAT" /\ Disk[name].fat.archs[s].kind = "ARCHIVE"
               /\ ar = Disk[name].inner[s]
    BY <1>2
  <2>2. SoundFat(Disk[name]) /\ Disk[name].kind = "FAT"
    BY <2>1 DEF SoundDisk
  <2>3. PICK s \in DOMAIN Disk[name].fat.archs :
               /\ Disk[name].fat.archs[s].kind = "ARCHIVE" /\ ar = Disk[name].inner[s]
    BY <2>1
  <2>4. SoundArchive(ar)
    BY <2>2, <2>3 DEF SoundFat
  <2>5. IsArchive(ar)
    BY <2>2, <2>3, DiskAssumption
  <2> QED BY <2>4, <2>5
<1> QED BY <1>1, <1>2 DEF OnDisk

\* Ar and AP are instances of one module.
LEMMA SameHeader == Ar!Header = AP!Header
BY DEF Ar!Header, AP!Header

Assumed == AP!ArchivesAssumption /\ AP!ArchFlagsAssumption /\ AP!BinsAssumption

\* The assumptions of Archive hold of what Program hands to it.
LEMMA AssumptionsHold ==
  ASSUME SoundDisk
  PROVE  Assumed
<1>1. AP!ArchivesAssumption
  <2> SUFFICES ASSUME NEW f \in OnDisk
               PROVE  /\ f.fsize \in Nat /\ f.fsize >= 8
                      /\ DOMAIN f.headers \subseteq 8..(f.fsize - 1)
                      /\ \A p \in DOMAIN f.headers : f.headers[p] \in AP!Header
                      /\ \A p \in DOMAIN f.shifted : f.shifted[p] \in AP!Header
                                                     /\ p + 1 \in DOMAIN f.headers
                      /\ f.noise \in AP!Header /\ f.beyond \in AP!Header
    BY DEF AP!ArchivesAssumption, AP!SARMAG
  <2>1. LaidOut(f) /\ IsArchive(f)
    BY OnDiskIs DEF SoundArchive
  <2> QED BY <2>1, SameHeader DEF LaidOut, IsArchive
<1>2. AP!ArchFlagsAssumption
  BY RequestsAssumption DEF AP!ArchFlagsAssumption, FlagLists, AP!AllArchs, AllArchs,
                            AP!ArchNames, ArchNames
<1>3. AP!BinsAssumption
  BY DEF AP!BinsAssumption
<1> QED BY <1>1, <1>2, <1>3 DEF Assumed

\* The steps of Archive are those the theorems are about.
LEMMA SameStep == Ar!Step => AP!Next
<1> SUFFICES ASSUME Ar!Step PROVE AP!Step
  BY DEF AP!Next
<1>0. /\ Ar!HeaderAt(pos) = AP!HeaderAt(pos) /\ Ar!HeaderAt(8) = AP!HeaderAt(8)
      /\ \A p : Ar!HeaderAt(p) = AP!HeaderAt(p)
      /\ \A p : Ar!ContentAt(p) = AP!ContentAt(p)
      /\ Ar!AllArchs(req.archs) <=> AP!AllArchs(req.archs)
      /\ \A t, s, fl, name :
           Ar!check_arch_in_file(t, s, fl, name) = AP!check_arch_in_file(t, s, fl, name)
  BY DEF Ar!HeaderAt, AP!HeaderAt, Ar!ContentAt, AP!ContentAt, Ar!NoContent, AP!NoContent,
         Ar!ArHdr, AP!ArHdr, Ar!AllArchs, AP!AllArchs, Ar!check_arch_in_file,
         AP!check_arch_in_file, Ar!Info, AP!Info, Ar!HeadsFamily, AP!HeadsFamily,
         Ar!Masked, AP!Masked
<1>1. CASE Ar!Open
  BY <1>1 DEF Ar!Open, AP!Open, AP!Step, Ar!input, AP!input, Ar!SARMAG, AP!SARMAG
<1>2. CASE Ar!StartFlag
  <2>1. AP!StartFlag
    BY <1>0, <1>2 DEF Ar!StartFlag, AP!StartFlag, Ar!Flags, AP!Flags, Ar!input, AP!input,
              Ar!SARMAG, AP!SARMAG, Ar!ArHdr, AP!ArHdr, Ar!NoCpu, AP!NoCpu, Ar!fatal, AP!fatal
  <2> QED BY <2>1 DEF AP!Step
<1>3. CASE Ar!CheckMember
  <2>1. AP!CheckMember
    BY <1>0, <1>3 DEF Ar!CheckMember, AP!CheckMember, Ar!CheckStride, AP!CheckStride,
              Ar!Rejected, AP!Rejected, Ar!input, AP!input, Ar!ArHdr, AP!ArHdr, Ar!fatal, AP!fatal
  <2> QED BY <2>1 DEF AP!Step
<1>4. CASE Ar!EndFlag
  BY <1>4 DEF Ar!EndFlag, AP!EndFlag, AP!Step, Ar!input, AP!input
<1>5. CASE Ar!EndCheck
  BY <1>5 DEF Ar!EndCheck, AP!EndCheck, AP!Step, Ar!input, AP!input, Ar!SARMAG, AP!SARMAG,
              Ar!Flags, AP!Flags
<1>6. CASE Ar!HandleMember
  <2>1. AP!HandleMember
    BY <1>0, <1>6 DEF Ar!HandleMember, AP!HandleMember, Ar!HandleStride, AP!HandleStride,
              Ar!input, AP!input, Ar!ArHdr, AP!ArHdr, Ar!NoContent, AP!NoContent
  <2> QED BY <2>1 DEF AP!Step
<1>7. CASE Ar!EndHandle
  BY <1>7 DEF Ar!EndHandle, AP!EndHandle, AP!Step, Ar!input, AP!input
<1> QED BY <1>1, <1>2, <1>3, <1>4, <1>5, <1>6, <1>7 DEF Ar!Step

ArchiveInv == /\ AP!Types /\ AP!Forward /\ AP!Complete
              /\ AP!AtMembers /\ AP!NoFatBehind /\ AP!Accepting /\ AP!OnlyFatRefuses
              /\ AP!Found /\ AP!NoneFound

\* The inductive invariants of ArchiveProofs, instantiated.
LEMMA InitArchiveInv == Assumed => (AP!Init => ArchiveInv)
BY ArchTableAssumption, SubtypeSpanAssumption, AP!InitTypes, AP!InitForward, AP!InitComplete, AP!InitAtMembers,
   AP!InitFound, AP!InitNoneFound
   DEF Assumed, ArchiveInv, AP!ArchivesAssumption, AP!ArchFlagsAssumption, AP!BinsAssumption

LEMMA StepArchiveInv == Assumed => (ArchiveInv /\ [AP!Next]_(AP!vars) => ArchiveInv')
BY ArchTableAssumption, SubtypeSpanAssumption, AP!StepTypes, AP!StepForward, AP!StepComplete, AP!StepAtMembers,
   AP!StepNoFatBehind, AP!StepAccepting, AP!StepOnlyFatRefuses, AP!StepFound, AP!StepNoneFound
   DEF Assumed, ArchiveInv

-----------------------------------------------------------------------------
(* The answers *)

\* The answers are made of places.
LEMMA AloneIs ==
  ASSUME NEW r, NEW i \in Nat, NEW slice \in Nat, NEW member \in Nat, NEW img
  PROVE  Alone(r, i, slice, member, img) \in Choices
<1>1. [file |-> i, slice |-> slice, member |-> member] \in Places
  BY DEF Places
<1> QED BY <1>1 DEF Alone, Choices

LEMMA EmptyIs == {<< >>} \in Choices
BY DEF Choices

\* Nothing is an answer, too.
LEMMA IfAskedIs ==
  ASSUME NEW r, NEW x, NEW answers \in Choices
  PROVE  IfAsked(r, x, answers) \in Choices
BY EmptyIs DEF IfAsked, Choices

\* What the members at h print.
MembersAnswer(r, i, slice, ar, h) ==
  Concats([j \in DOMAIN h |-> Alone(r, i, slice, h[j], ar.images[h[j]])])

\* One more member prints what it would print alone.
LEMMA MembersMore ==
  ASSUME NEW r, NEW i \in Nat, NEW slice \in Nat, NEW ar, NEW h \in Seq(Nat)
  PROVE  /\ MembersAnswer(r, i, slice, ar, h) \in Choices
         /\ h = << >> => MembersAnswer(r, i, slice, ar, h) = {<< >>}
         /\ \A p \in Nat : MembersAnswer(r, i, slice, ar, Append(h, p)) =
              Joined(MembersAnswer(r, i, slice, ar, h), Alone(r, i, slice, p, ar.images[p]))
<1> DEFINE f == [j \in DOMAIN h |-> Alone(r, i, slice, h[j], ar.images[h[j]])]
<1>1. Len(h) \in Nat /\ DOMAIN h = 1..Len(h) /\ \A j \in 1..Len(h) : h[j] \in Nat
  OBVIOUS
<1>2. f \in Seq(Choices) /\ Len(f) = Len(h)
  <2>1. \A j \in 1..Len(h) : f[j] \in Choices
    BY <1>1, AloneIs
  <2>2. f = [j \in 1..Len(h) |-> f[j]]
    BY <1>1
  <2> HIDE DEF f
  <2> QED BY <1>1, <2>1, <2>2, IsASeq
<1>3. h = << >> => f = << >>
  <2> SUFFICES ASSUME h = << >> PROVE f = << >>
    OBVIOUS
  <2>1. Len(f) = 0
    BY <1>2
  <2> HIDE DEF f
  <2> QED BY <1>2, <2>1
<1>4. ASSUME NEW p \in Nat
      PROVE  [j \in DOMAIN Append(h, p) |->
                Alone(r, i, slice, Append(h, p)[j], ar.images[Append(h, p)[j]])]
               = Append(f, Alone(r, i, slice, p, ar.images[p]))
  <2> DEFINE q == Append(h, p)
             a == Alone(r, i, slice, p, ar.images[p])
             z == [j \in DOMAIN q |-> Alone(r, i, slice, q[j], ar.images[q[j]])]
             M == Len(h) + 1
  <2>1. DOMAIN q = 1..M /\ (\A j \in 1..Len(h) : q[j] = h[j]) /\ q[M] = p
    BY <1>1
  <2>2. a \in Choices
    BY AloneIs
  <2>3. \A j \in 1..M : j = M \/ j \in 1..Len(h)
    BY <1>1
  <2>4. \A j \in 1..M : z[j] = IF j = M THEN a ELSE f[j]
    <3> HIDE DEF q, M
    <3> QED BY <1>1, <2>1, <2>3
  <2>5. Append(f, a) = [j \in 1..M |-> IF j = M THEN a ELSE f[j]]
    <3> HIDE DEF f, a
    <3>1. Append(f, a) \in Seq(Choices) /\ Len(Append(f, a)) = M
          /\ \A j \in 1..M : Append(f, a)[j] = IF j = M THEN a ELSE f[j]
      BY <1>2, <2>2, <2>3, AppendProperties
    <3>2. Append(f, a) = [j \in 1..M |-> Append(f, a)[j]]
      <4>1. Append(f, a) \in [1..M -> Choices]
        BY <3>1, LenProperties
      <4> QED BY <4>1
    <3> QED BY <3>1, <3>2
  <2>6. z = [j \in 1..M |-> z[j]]
    <3> HIDE DEF q, M
    <3> QED BY <2>1
  <2> HIDE DEF z, a, f, M, q
  <2>7. z = Append(f, a)
    BY <2>4, <2>5, <2>6
  <2> QED BY <2>7 DEF z, a, q
<1>5. MembersAnswer(r, i, slice, ar, h) = Concats(f)
  BY DEF MembersAnswer
<1>6. ASSUME NEW p \in Nat
      PROVE  MembersAnswer(r, i, slice, ar, Append(h, p)) =
               Joined(MembersAnswer(r, i, slice, ar, h), Alone(r, i, slice, p, ar.images[p]))
  <2>1. MembersAnswer(r, i, slice, ar, Append(h, p)) =
          Concats(Append(f, Alone(r, i, slice, p, ar.images[p])))
    BY <1>4, Zenon DEF MembersAnswer
  <2>2. Alone(r, i, slice, p, ar.images[p]) \in Choices
    BY AloneIs
  <2> HIDE DEF f
  <2> QED BY <1>2, <1>5, <2>1, <2>2, ConcatsMore
<1>7. Concats(f) \in Choices /\ (f = << >> => Concats(f) = {<< >>})
  <2> HIDE DEF f
  <2> QED BY <1>2, ConcatsMore
<1> HIDE DEF f
<1> QED BY <1>3, <1>5, <1>6, <1>7

\* What the slices in seq print.
LEMMA SlicesMore ==
  ASSUME NEW r, NEW i, NEW f, NEW lab, NEW S,
         \A s \in S : SliceAnswers(r, i, f, s, lab) \in Choices, NEW seq \in Seq(S)
  PROVE  /\ FatAnswers(r, i, f, seq, lab) \in Choices
         /\ seq = << >> => FatAnswers(r, i, f, seq, lab) = {<< >>}
         /\ \A s \in S : FatAnswers(r, i, f, Append(seq, s), lab) =
              Joined(FatAnswers(r, i, f, seq, lab), SliceAnswers(r, i, f, s, lab))
<1> DEFINE g == [j \in DOMAIN seq |-> SliceAnswers(r, i, f, seq[j], lab)]
<1>1. Len(seq) \in Nat /\ DOMAIN seq = 1..Len(seq) /\ \A j \in 1..Len(seq) : seq[j] \in S
  OBVIOUS
<1>2. g \in Seq(Choices) /\ Len(g) = Len(seq)
  <2>1. \A j \in 1..Len(seq) : g[j] \in Choices
    BY <1>1
  <2>2. g = [j \in 1..Len(seq) |-> g[j]]
    BY <1>1
  <2> HIDE DEF g
  <2> QED BY <1>1, <2>1, <2>2, IsASeq
<1>3. seq = << >> => g = << >>
  <2> SUFFICES ASSUME seq = << >> PROVE g = << >>
    OBVIOUS
  <2>1. Len(g) = 0
    BY <1>2
  <2> HIDE DEF g
  <2> QED BY <1>2, <2>1
<1>4. ASSUME NEW s \in S
      PROVE  [j \in DOMAIN Append(seq, s) |-> SliceAnswers(r, i, f, Append(seq, s)[j], lab)]
               = Append(g, SliceAnswers(r, i, f, s, lab))
  <2> DEFINE q == Append(seq, s)
             a == SliceAnswers(r, i, f, s, lab)
             z == [j \in DOMAIN q |-> SliceAnswers(r, i, f, q[j], lab)]
             M == Len(seq) + 1
  <2>1. DOMAIN q = 1..M /\ (\A j \in 1..Len(seq) : q[j] = seq[j]) /\ q[M] = s
    BY <1>1
  <2>2. a \in Choices
    OBVIOUS
  <2>3. \A j \in 1..M : j = M \/ j \in 1..Len(seq)
    BY <1>1
  <2>4. \A j \in 1..M : z[j] = IF j = M THEN a ELSE g[j]
    <3> HIDE DEF q, M
    <3> QED BY <1>1, <2>1, <2>3
  <2>5. Append(g, a) = [j \in 1..M |-> IF j = M THEN a ELSE g[j]]
    <3> HIDE DEF g, a
    <3>1. Append(g, a) \in Seq(Choices) /\ Len(Append(g, a)) = M
          /\ \A j \in 1..M : Append(g, a)[j] = IF j = M THEN a ELSE g[j]
      BY <1>2, <2>2, <2>3, AppendProperties
    <3>2. Append(g, a) = [j \in 1..M |-> Append(g, a)[j]]
      <4>1. Append(g, a) \in [1..M -> Choices]
        BY <3>1, LenProperties
      <4> QED BY <4>1
    <3> QED BY <3>1, <3>2
  <2>6. z = [j \in 1..M |-> z[j]]
    <3> HIDE DEF q, M
    <3> QED BY <2>1
  <2> HIDE DEF z, a, g, M, q
  <2>7. z = Append(g, a)
    BY <2>4, <2>5, <2>6
  <2> QED BY <2>7 DEF z, a, q
<1>5. FatAnswers(r, i, f, seq, lab) = Concats(g)
  BY DEF FatAnswers
<1>6. ASSUME NEW s \in S
      PROVE  FatAnswers(r, i, f, Append(seq, s), lab) =
               Joined(FatAnswers(r, i, f, seq, lab), SliceAnswers(r, i, f, s, lab))
  <2>1. FatAnswers(r, i, f, Append(seq, s), lab) =
          Concats(Append(g, SliceAnswers(r, i, f, s, lab)))
    BY <1>4, Zenon DEF FatAnswers
  <2> HIDE DEF g
  <2> QED BY <1>2, <1>5, <2>1, ConcatsMore
<1>7. Concats(g) \in Choices /\ (g = << >> => Concats(g) = {<< >>})
  <2> HIDE DEF g
  <2> QED BY <1>2, ConcatsMore
<1> HIDE DEF g
<1> QED BY <1>3, <1>5, <1>6, <1>7

\* Two answers in a row.
LEMMA JoinedHas ==
  ASSUME NEW x, NEW y, NEW a \in x, NEW b \in y
  PROVE  a \o b \in Joined(x, y)
BY DEF Joined

\* All answers are made of listings.
LEMMA ImagesIs ==
  ASSUME NEW ar, SoundArchive(ar), IsArchive(ar)
  PROVE  DOMAIN ar.images \subseteq 1..ar.fsize /\ ar.fsize \in Nat
<1>1. DOMAIN ar.images \subseteq DOMAIN ar.headers
  BY DEF SoundArchive
<1>2. DOMAIN ar.headers \subseteq 8..(ar.fsize - 1) /\ ar.fsize \in Nat
  BY DEF SoundArchive, LaidOut, IsArchive
<1> QED BY <1>1, <1>2

\* The answers to an archive and to a slice are made of places.
LEMMA WholeArchiveIs ==
  ASSUME NEW r, NEW i \in Nat, NEW slice \in Nat, NEW ar, NEW lab,
         SoundArchive(ar), IsArchive(ar)
  PROVE  WholeArchive(r, i, slice, ar, lab) \in Choices
<1>1. DOMAIN ar.images \subseteq 1..ar.fsize /\ ar.fsize \in Nat
  BY ImagesIs
<1>2. ObjectsOf(ar) \in Seq(DOMAIN ar.images)
  BY <1>1, ObjectsType
<1>3. ObjectsOf(ar) \in Seq(Nat)
  <2>1. DOMAIN ar.images \subseteq Nat
    BY <1>1
  <2> QED BY <1>2, <2>1, SeqMonotonic
<1>4. MembersAnswer(r, i, slice, ar, ObjectsOf(ar)) \in Choices
  BY <1>3, MembersMore
<1> QED BY <1>4, EmptyIs, IfAskedIs DEF WholeArchive, MembersAnswer

LEMMA SliceAnswersIs ==
  ASSUME SoundDisk, NEW name \in DOMAIN Disk, Disk[name].kind = "FAT",
         NEW r, NEW i \in Nat, NEW lab, NEW s \in Nat,
         s = 0 \/ s \in DOMAIN Disk[name].fat.archs
  PROVE  SliceAnswers(r, i, Disk[name], s, lab) \in Choices
<1> DEFINE f == Disk[name]
<1>1. CASE s = 0
  BY <1>1, EmptyIs DEF SliceAnswers
<1>2. CASE s # 0
  <2>1. CASE f.fat.archs[s].kind = "ARCHIVE"
    <3>1. f.inner[s] \in OnDisk
      BY <1>2, <2>1 DEF OnDisk
    <3>2. WholeArchive(r, i, s, f.inner[s], lab) \in Choices
      BY <3>1, OnDiskIs, WholeArchiveIs
    <3> QED BY <2>1, <3>2, EmptyIs DEF SliceAnswers, WholeSlice
  <2>2. CASE f.fat.archs[s].kind # "ARCHIVE"
    <3>1. Alone(r, i, s, 0, f.inner[s]) \in Choices
      BY AloneIs
    <3> QED BY <2>2, <3>1, EmptyIs, IfAskedIs DEF SliceAnswers, WholeSlice
  <2> QED BY <2>1, <2>2
<1> QED BY <1>1, <1>2

-----------------------------------------------------------------------------
(* A sound archive in the eyes of Archive *)

\* The first of its objects.
LEMMA FirstOf ==
  ASSUME NEW ar, NEW b \in Nat, DOMAIN ar.images \subseteq 1..b, ObjectsOf(ar) # << >>
  PROVE  /\ ObjectsOf(ar)[1] \in DOMAIN ar.images
         /\ \A q \in DOMAIN ar.images : ObjectsOf(ar)[1] <= q
<1> DEFINE P == DOMAIN ar.images
<1>0. P \in SUBSET Nat /\ (\A p \in P : 0 < p /\ p <= b)
  OBVIOUS
<1>1. IsFiniteSet(P) /\ Cardinality(P) \in Nat /\ P # {}
  <2>1. IsFiniteSet(P)
    <3> HIDE DEF P
    <3> QED BY <1>0, FS_BoundedSetOfNaturals
  <2> QED BY <2>1, FS_CardinalityType, ObjectsType
<1>2. 1 \in 1..Cardinality(P)
  BY <1>1, FS_EmptySet
<1>3. \E p \in P : Cardinality(UpTo(P, p)) = 1
  <2> HIDE DEF P
  <2> QED BY <1>0, <1>2, Ranked
<1> DEFINE x == ObjectsOf(ar)[1]
<1>4. x = CHOOSE p \in P : Cardinality(UpTo(P, p)) = 1
  BY <1>2 DEF ObjectsOf, UpTo
<1> HIDE DEF x, P
<1>5. x \in P /\ Cardinality(UpTo(P, x)) = 1
  BY <1>3, <1>4
<1>6. PICK z : UpTo(P, x) = {z}
  <2>1. UpTo(P, x) \in SUBSET P
    BY DEF UpTo
  <2> QED BY <1>1, <1>5, <2>1, FS_Subset, FS_Singleton
<1>7. z = x
  BY <1>0, <1>5, <1>6 DEF UpTo
<1>8. ASSUME NEW q \in P PROVE x <= q
  <2>1. q \in Nat /\ x \in Nat
    BY <1>0, <1>5
  <2>2. q <= x => q = x
    BY <1>6, <1>7 DEF UpTo
  <2> QED BY <2>1, <2>2
<1> QED BY <1>5, <1>8 DEF x, P

\* The members of a sound archive have their places between 8 and its end.
LEMMA MembersAre ==
  /\ AP!Members = DOMAIN Archive.headers
  /\ \A p : /\ AP!Data(p) = DataOf(Archive, p) /\ AP!End(p) = EndOf(Archive, p)
            /\ AP!EvenEnd(p) = BehindOf(Archive, p)
  /\ \A p : AP!ContentAt(p).kind = IF p \in DOMAIN Archive.contents
                                     THEN Archive.contents[p].kind ELSE "UNKNOWN"
  /\ \A p \in DOMAIN Archive.contents : AP!ContentAt(p) = Archive.contents[p]
BY DEF AP!Members, AP!Data, DataOf, AP!End, EndOf, AP!EvenEnd, BehindOf, AP!ArHdr,
       AP!ContentAt, AP!NoContent

\* A sound archive is what ArchiveProofs calls regular.
LEMMA RegularIs ==
  ASSUME SoundArchive(Archive)
  PROVE  AP!Regular /\ Archive.beyond.size = 0
<1>1. LaidOut(Archive)
  BY DEF SoundArchive
<1>2. AP!WellLaidOut
  BY <1>1, MembersAre DEF LaidOut, AP!WellLaidOut, AP!SARMAG
<1>3. AP!EvenSizes
  BY <1>1, MembersAre DEF LaidOut, AP!EvenSizes
<1>4. AP!UniformNames
  <2> SUFFICES ASSUME NEW p \in DOMAIN Archive.headers, NEW q \in DOMAIN Archive.headers
               PROVE  Archive.headers[p].ext = Archive.headers[q].ext
    BY MembersAre DEF AP!UniformNames
  <2>1. p \in Nat /\ q \in Nat
    BY <1>1 DEF LaidOut
  <2> QED BY <1>1, <2>1 DEF LaidOut
<1> QED BY <1>1, <1>2, <1>3, <1>4 DEF AP!Regular, LaidOut

\* Its objects and its fat members.
LEMMA HeldAre ==
  ASSUME SoundArchive(Archive)
  PROVE  /\ AP!Objects = DOMAIN Archive.images
         /\ \A p \in AP!Members : AP!IsObject(p) <=> p \in DOMAIN Archive.images
         /\ DOMAIN Archive.images \subseteq AP!Members
         /\ \A p \in DOMAIN Archive.images :
              /\ Cpu(Archive.images[p]) = Cpu(AP!ContentAt(AP!Data(p)))
              /\ Archive.images[p].cputype # 0
         /\ (\E p \in AP!Members : AP!KindAt(p) = "FAT")
              <=> \E p \in DOMAIN Archive.contents : Archive.contents[p].kind = "FAT"
         /\ AP!Sound
<1> DEFINE objects == {m \in DOMAIN Archive.headers :
                         AP!ContentAt(AP!Data(m)).kind = "MH"}
<1>1. DOMAIN Archive.images = objects
  BY MembersAre DEF SoundArchive
<1>2. \A m \in objects : /\ ~Archive.headers[m].symdef
                         /\ Cpu(Archive.images[m]) = Cpu(Archive.contents[DataOf(Archive, m)])
                         /\ Archive.images[m].cputype # 0
                         /\ DataOf(Archive, m) \in DOMAIN Archive.contents
  BY MembersAre DEF SoundArchive
<1>3. \A p \in DOMAIN Archive.contents :
           /\ \E m \in DOMAIN Archive.headers : p = DataOf(Archive, m)
           /\ Archive.contents[p].kind = "FAT" => Archive.contents[p].fatok
  BY DEF SoundArchive
<1>4. AP!Objects = DOMAIN Archive.images
  BY <1>1, <1>2, MembersAre DEF AP!Objects
<1>5. \A p \in AP!Members : AP!IsObject(p) <=> p \in DOMAIN Archive.images
  BY <1>1, MembersAre DEF AP!IsObject, AP!KindAt
<1>6. ASSUME NEW p \in DOMAIN Archive.images
      PROVE  /\ Cpu(Archive.images[p]) = Cpu(AP!ContentAt(AP!Data(p)))
             /\ Archive.images[p].cputype # 0
  BY <1>1, <1>2, MembersAre
<1>7. (\E p \in AP!Members : AP!KindAt(p) = "FAT")
        <=> \E p \in DOMAIN Archive.contents : Archive.contents[p].kind = "FAT"
  BY <1>3, MembersAre DEF AP!KindAt
<1>8. AP!Sound
  <2>1. AP!WellLaidOut
    BY RegularIs DEF AP!Regular
  <2>2. \A p \in AP!Members : AP!ContentAt(AP!Data(p)).kind = "FAT"
                                => AP!ContentAt(AP!Data(p)).fatok
    BY <1>3, MembersAre
  <2> QED BY <2>1, <2>2 DEF AP!Sound
<1> QED BY <1>1, <1>4, <1>5, <1>6, <1>7, <1>8, MembersAre

\* Without the right to list all objects an archive is asked about its first one.
LEMMA FirstObjectIs ==
  ASSUME SoundArchive(Archive), IsArchive(Archive), ObjectsOf(Archive) # << >>
  PROVE  /\ AP!FirstObject = ObjectsOf(Archive)[1]
         /\ AP!FirstObject \in DOMAIN Archive.images
<1> DEFINE x == ObjectsOf(Archive)[1]
<1>1. x \in DOMAIN Archive.images /\ \A q \in DOMAIN Archive.images : x <= q
  BY ImagesIs, FirstOf
<1>2. DOMAIN Archive.images \subseteq Nat
  BY ImagesIs
<1> HIDE DEF x
<1>3. /\ x \in AP!Members /\ AP!IsObject(x)
      /\ \A q \in AP!Members : AP!IsObject(q) => x <= q
  BY <1>1, HeldAre
<1> DEFINE y == AP!FirstObject
<1>4. /\ y \in AP!Members /\ AP!IsObject(y)
      /\ \A q \in AP!Members : AP!IsObject(q) => y <= q
  BY <1>3 DEF AP!FirstObject
<1> HIDE DEF y
<1>5. y \in DOMAIN Archive.images /\ x <= y /\ y <= x
  BY <1>1, <1>3, <1>4, HeldAre
<1>6. x \in Nat /\ y \in Nat
  BY <1>1, <1>2, <1>5
<1>7. x = y
  BY <1>5, <1>6
<1> QED BY <1>1, <1>7 DEF x, y

\* What was handed on when the archive is done with.
LEMMA EndOfArchive ==
  ASSUME SoundArchive(Archive), IsArchive(Archive), ArchiveInv, apc \in {"done", "refused"}
  PROVE  IF apc = "done" THEN ahanded = ObjectsOf(Archive) ELSE ahanded = << >>
<1>1. CASE apc = "done"
  <2>1. {ahanded[j] : j \in DOMAIN ahanded} = DOMAIN Archive.images
    BY <1>1, HeldAre DEF ArchiveInv, AP!Complete, AP!Given
  <2>2. \A j, l \in DOMAIN ahanded : j < l => ahanded[j] < ahanded[l]
    BY DEF ArchiveInv, AP!Forward
  <2>3. ahanded \in Seq(Nat)
    BY DEF ArchiveInv, AP!Types
  <2> QED BY <1>1, <2>1, <2>2, <2>3, ImagesIs, ObjectsAre
<1>2. CASE apc = "refused"
  BY <1>2 DEF ArchiveInv, AP!Forward
<1> QED BY <1>1, <1>2

\* No member, nothing printed.
LEMMA NoMembers ==
  ASSUME NEW r, NEW i, NEW slice, NEW ar, NEW h \in Seq(Nat), h = << >>
  PROVE  MembersAnswer(r, i, slice, ar, h) = {<< >>}
<1> DEFINE f == [j \in DOMAIN h |-> Alone(r, i, slice, h[j], ar.images[h[j]])]
<1>1. DOMAIN h = {}
  OBVIOUS
<1>2. f = << >>
  BY <1>1
<1>3. f \in Seq(Choices)
  BY <1>2
<1> QED BY <1>2, <1>3, ConcatsMore DEF MembersAnswer

\* An archive that is done with said what it would say alone.
LEMMA ArchiveSaid ==
  ASSUME SoundArchive(Archive), IsArchive(Archive), ArchiveInv, apc \in {"done", "refused"},
         req.bin \in {"nm", "otool"}, NEW i \in Nat, NEW slice \in Nat,
         NEW y \in MembersAnswer(req, i, slice, Archive, ahanded)
  PROVE  y \in WholeArchive(req, i, slice, Archive, Labelled)
<1> DEFINE objects == ObjectsOf(Archive)
           all == MembersAnswer(req, i, slice, Archive, objects)
           fat == \E p \in DOMAIN Archive.contents : Archive.contents[p].kind = "FAT"
<1>0. WholeArchive(req, i, slice, Archive, Labelled) =
        IF req.bin = "nm" /\ fat THEN {<< >>}
        ELSE IF Labelled \/ objects = << >> THEN all
        ELSE IfAsked(req, Archive.images[objects[1]], all)
  BY DEF WholeArchive, MembersAnswer
<1>1. IF apc = "done" THEN y \in all ELSE y = << >>
  <2>1. CASE apc = "done"
    <3>1. ahanded = objects
      BY <2>1, EndOfArchive
    <3> HIDE DEF objects
    <3> QED BY <2>1, <3>1
  <2>2. CASE apc # "done"
    <3>1. apc = "refused"
      BY <2>2
    <3>2. ahanded = << >> /\ ahanded \in Seq(Nat)
      BY <3>1 DEF ArchiveInv, AP!Forward
    <3>3. MembersAnswer(req, i, slice, Archive, ahanded) = {<< >>}
      BY <3>2, NoMembers
    <3> QED BY <2>2, <3>3
  <2> QED BY <2>1, <2>2
<1>r. /\ AP!Regular /\ Archive.beyond.size = 0 /\ AP!Sound
      /\ (\E p \in AP!Members : AP!KindAt(p) = "FAT") <=> fat
  BY RegularIs, HeldAre
<1>f. req.bin = "nm" /\ fat => apc # "done"
  BY <1>r DEF ArchiveInv, AP!NoFatBehind
<1>n. AP!AnyArch /\ apc = "refused" => req.bin = "nm" /\ fat
  BY <1>r DEF ArchiveInv, AP!OnlyFatRefuses
<1>a. AP!AnyArch <=> Labelled \/ AllArchs(req.archs)
  BY DEF AP!AnyArch, AP!AllArchs, AllArchs
<1>o. objects = << >> => all = {<< >>}
  <2>1. ASSUME objects = << >> PROVE objects \in Seq(Nat)
    BY <2>1
  <2> HIDE DEF objects
  <2> QED BY <2>1, NoMembers
<1> HIDE DEF all, objects, fat
<1>2. CASE req.bin = "nm" /\ fat
  BY <1>0, <1>1, <1>2, <1>f
<1>3. CASE ~(req.bin = "nm" /\ fat) /\ (Labelled \/ objects = << >>)
  <2>1. y \in all
    BY <1>1, <1>3, <1>n, <1>a, <1>o
  <2> QED BY <1>0, <1>3, <2>1
<1>4. CASE ~(req.bin = "nm" /\ fat) /\ ~Labelled /\ objects # << >>
  <2> DEFINE x == Archive.images[objects[1]]
             first == AP!ContentAt(AP!Data(AP!FirstObject))
  <2>1. /\ AP!FirstObject = objects[1] /\ AP!FirstObject \in AP!Members
        /\ AP!IsObject(AP!FirstObject)
        /\ Cpu(x) = Cpu(first) /\ x.cputype # 0
    BY <1>4, FirstObjectIs, HeldAre DEF objects
  <2>c. x.cputype = first.cputype
    <3> HIDE DEF x, first
    <3> QED BY <2>1 DEF Cpu
  <2>2. WholeArchive(req, i, slice, Archive, Labelled) = IfAsked(req, x, all)
    BY <1>0, <1>4
  <2> HIDE DEF x, first
  <2>3. CASE AllArchs(req.archs)
    BY <1>1, <1>4, <1>n, <1>a, <2>2, <2>3 DEF IfAsked
  <2>4. CASE ~AllArchs(req.archs) /\ Exactly(req, x)
    <3>1. AP!Asked
      BY <1>4, <1>a, <1>r, <2>4 DEF AP!Asked
    <3>2. PICK j \in DOMAIN req.archs : Cpu(Info(req.archs[j])) = Cpu(x)
      BY <2>4 DEF Exactly
    <3>3. AP!Info(req.archs[j]) = Info(req.archs[j])
      BY DEF AP!Info, Info
    <3>4. AP!Exact(req.archs[j])
      <4>1. \A a : AP!Cpu(a) = Cpu(a)
        BY DEF AP!Cpu, Cpu, AP!Masked, Masked
      <4>2. AP!Cpu(AP!Info(req.archs[j])) = AP!Cpu(AP!ContentAt(AP!Data(AP!FirstObject)))
              => AP!Exact(req.archs[j])
        BY <2>1 DEF AP!Exact
      <4>3. AP!Cpu(AP!Info(req.archs[j])) = Cpu(Info(req.archs[j]))
        BY <3>3, <4>1
      <4>4. AP!Cpu(first) = Cpu(first)
        BY <4>1
      <4> QED BY <2>1, <3>2, <4>2, <4>3, <4>4 DEF first
    <3>5. apc # "refused"
      BY <3>1, <3>2, <3>4 DEF ArchiveInv, AP!Found
    <3> QED BY <1>1, <2>2, <2>4, <3>5 DEF IfAsked
  <2>5. CASE ~AllArchs(req.archs) /\ ~Exactly(req, x) /\ Family(req, x)
    BY <1>1, <2>2, <2>5 DEF IfAsked
  <2>6. CASE ~AllArchs(req.archs) /\ ~Exactly(req, x) /\ ~Family(req, x)
    <3>1. \A name : AP!Info(name) = Info(name)
      BY DEF AP!Info, Info
    <3>2. AP!Foreign
      BY <1>4, <1>a, <1>r, <2>1, <2>c, <2>6, <3>1 DEF AP!Foreign, Family, first
    <3>3. apc # "done"
      BY <3>2 DEF ArchiveInv, AP!NoneFound
    <3> QED BY <1>1, <2>2, <2>6, <3>3 DEF IfAsked
  <2> QED BY <2>3, <2>4, <2>5, <2>6
<1> QED BY <1>2, <1>3, <1>4

-----------------------------------------------------------------------------
(* The slices of a sound fat file *)

Slices == File.fat.archs

\* What SoundDisk says of the fat file being handled,
LEMMA SoundFile ==
  ASSUME SoundDisk, Types, InFat
  PROVE  /\ SoundFat(File) /\ File.kind = "FAT" /\ n \in Nat
         /\ req.files[n] \in DOMAIN Disk /\ File = Disk[req.files[n]]
         /\ File.fat.fsize \in Nat /\ F!N = Len(Slices) /\ F!N \in Nat /\ DOMAIN Slices = 1..F!N
<1>1. n # 0 /\ File.kind = "FAT"
  BY DEF Types, Modes, FatTypes, InFat
<1>2. req.files[n] \in DOMAIN Disk /\ n \in Nat /\ File = Disk[req.files[n]]
  BY <1>1, FileIs, RequestIs DEF File
<1> QED BY <1>1, <1>2, SliceIs DEF SoundDisk, F!FatFile, F!N, Slices

\* and of one of its slices: it is known, keeps its size, and is the only one with
\* its two words.
LEMMA SoundSlice ==
  ASSUME SoundDisk, Types, InFat, NEW s \in 1..F!N
  PROVE  /\ s \in DOMAIN Slices /\ s \in Nat \ {0}
         /\ Slices[s].offset \in Nat /\ Slices[s].size \in Nat
         /\ Slices[s].offset < File.fat.fsize
         /\ Slices[s].offset + Slices[s].size <= File.fat.fsize
         /\ Slices[s].align <= MaxAlign /\ Slices[s].offset % F!Unit(Slices[s].align) = 0
         /\ \A t \in 1..F!N : /\ Slices[t].cputype = Slices[s].cputype
                               /\ Slices[t].cpusubtype = Slices[s].cpusubtype
                               => t = s
         /\ F!Known(s) /\ F!Clamp(s) = Slices[s].size
         /\ F!Suits(s) /\ F!A(s).offset <= File.fat.fsize <=> Fits(req, File, s)
<1>1. SoundFat(File) /\ s \in DOMAIN Slices /\ File.fat.fsize \in Nat /\ s \in Nat \ {0}
  BY SoundFile
<1>2. Slices[s].offset \in Nat /\ Slices[s].size \in Nat
  <2>1. Slices[s] \in F!FatArch
    BY <1>1, SliceIs DEF Slices
  <2> QED BY <2>1, WidthAssumption DEF F!FatArch
<1>3. /\ Slices[s].offset < File.fat.fsize
      /\ Slices[s].offset + Slices[s].size <= File.fat.fsize
      /\ Slices[s].align <= MaxAlign /\ Slices[s].offset % F!Unit(Slices[s].align) = 0
      /\ \A t \in DOMAIN Slices : /\ Slices[t].cputype = Slices[s].cputype
                                  /\ Slices[t].cpusubtype = Slices[s].cpusubtype
                                  => t = s
      /\ \E j \in DOMAIN ArchTable : ArchTable[j].cputype = Slices[s].cputype
  BY <1>1 DEF SoundFat, Slices
<1>4. F!Known(s)
  BY <1>3 DEF F!Known, F!A, Slices
<1>5. F!Clamp(s) = Slices[s].size
  BY <1>1, <1>2, <1>3 DEF F!Clamp, F!A, Slices
<1>6. F!Suits(s) /\ F!A(s).offset <= File.fat.fsize <=> Fits(req, File, s)
  BY <1>1, <1>2, <1>3 DEF F!Suits, F!A, Fits, Slices
<1> QED BY <1>1, <1>2, <1>3, <1>4, <1>5, <1>6, SoundFile

\* The two definitions of the slices that suit this machine agree.
LEMMA NativeIs ==
  ASSUME SoundDisk, Types, InFat
  PROVE  F!Best = Native(Slices)
<1>1. \A x : F!Cpu(x) = Cpu(x)
  BY DEF F!Cpu, Cpu, F!Masked, Masked
<1>2. \A s : F!A(s) = Slices[s]
  BY DEF F!A, Slices
<1> DEFINE same == {s \in 1..F!N : Slices[s].cputype = HostCpu.cputype}
           exact == {s \in same : Cpu(Slices[s]) = Cpu(HostCpu)}
<1>3. F!Best = IF exact # {} THEN exact ELSE same
  BY <1>1, <1>2 DEF F!Best
<1>4. DOMAIN Slices = 1..F!N
  BY SoundFile
<1>5. Native(Slices) = IF exact # {} THEN exact ELSE same
  BY <1>4 DEF Native
<1> QED BY <1>3, <1>5

\* The slice a flag names is the first one of its architecture.
LEMMA NamedIs ==
  ASSUME SoundDisk, Types, InFat, NEW name
  PROVE  /\ F!get_corr_fat_arch(name) = {} => Named(Slices, name) = 0
         /\ \A s \in 1..F!N : F!First(s, F!get_corr_fat_arch(name)) => Named(Slices, name) = s
<1> DEFINE named == {s \in DOMAIN Slices : Cpu(Slices[s]) = Cpu(Info(name))}
<1>0. F!Info(name) = Info(name)
  BY DEF F!Info, Info
<1>c. \A x : F!Cpu(x) = Cpu(x)
  BY DEF F!Cpu, Cpu, F!Masked, Masked
<1>a. (\A s : F!A(s) = Slices[s]) /\ DOMAIN Slices = 1..F!N /\ F!N \in Nat
  BY SoundFile DEF F!A, Slices
<1>1. named = F!get_corr_fat_arch(name)
  BY <1>0, <1>c, <1>a DEF F!get_corr_fat_arch
<1>2. Named(Slices, name) =
        IF named = {} THEN 0 ELSE CHOOSE s \in named : \A t \in named : s <= t
  BY DEF Named
<1>3. named \subseteq Nat
  BY <1>a
<1> HIDE DEF named
<1>4. ASSUME NEW s \in 1..F!N, F!First(s, named) PROVE Named(Slices, name) = s
  <2>1. s \in named /\ \A t \in named : s <= t
    BY <1>4 DEF F!First
  <2>2. \A u \in named : (\A t \in named : u <= t) => u = s
    BY <1>3, <2>1
  <2> QED BY <1>2, <2>1, <2>2
<1> QED BY <1>1, <1>2, <1>4

\* A remainder is no greater than what is divided.
LEMMA ModuloIs ==
  ASSUME NEW x \in Nat, NEW u \in Nat \ {0}
  PROVE  x % u <= x
<1>1. x = u * (x \div u) + (x % u) /\ x \div u \in Nat
  OBVIOUS
<1> DEFINE q == x \div u
           m == x % u
<1>2. u * q >= 0
  <2> HIDE DEF q
  <2> QED BY <1>1 DEF q
<1>3. m \in Int
  OBVIOUS
<1>4. x = u * q + m
  BY <1>1
<1> DEFINE w == u * q
<1>5. w >= 0 /\ x = w + m /\ w \in Int
  BY <1>1, <1>2, <1>4
<1> HIDE DEF q, m, w
<1>6. m <= x
  BY <1>3, <1>5
<1> QED BY <1>6 DEF m

\* check_fat_file finds fault with nothing but what stands in a slice.
LEMMA OnlyKindsFail ==
  ASSUME SoundDisk, Types, InFat, NEW s \in 1..F!N
  PROVE  F!check_fat_arch(s, FALSE) <=> (Slices[s].kind \in {"MH", "ARCHIVE"} => Slices[s].ok)
<1>1. (Slices[s].offset + Slices[s].size) % U32 <= File.fat.fsize
  <2> DEFINE x == Slices[s].offset + Slices[s].size
  <2>1. x \in Nat /\ x <= File.fat.fsize /\ File.fat.fsize \in Nat
    BY SoundSlice, SoundFile
  <2>2. U32 \in Nat \ {0}
    BY WidthAssumption
  <2> HIDE DEF x
  <2>3. x % U32 <= x /\ x % U32 \in Int
    BY <2>1, <2>2, ModuloIs
  <2>4. x % U32 <= File.fat.fsize
    BY <2>1, <2>3
  <2> QED BY <2>4 DEF x
<1>2. ~F!Twice(s)
  <2> SUFFICES ASSUME NEW t \in 1..F!N, t # s, Slices[t].cputype = Slices[s].cputype,
                      Slices[t].cpusubtype = Slices[s].cpusubtype
               PROVE  FALSE
    BY DEF F!Twice, F!A, Slices
  <2> QED BY SoundSlice
<1>3. Slices[s].align <= MaxAlign /\ Slices[s].offset % F!Unit(Slices[s].align) = 0
  BY SoundSlice
<1>4. Slices[s].ok \in BOOLEAN
  BY SoundFile, SliceIs DEF Slices, F!FatArch
<1> QED BY <1>1, <1>2, <1>3, <1>4 DEF F!check_fat_arch, F!A, Slices

\* nm comes to handle_fat_file's ways only with slices that are in order, and is
\* refused only when they are not.
FatSound ==
  InFat =>
    /\ fpc \in {"check", "refused"} => req.bin = "nm"
    /\ fpc = "check" =>
         \A s \in 1..fi : Slices[s].kind \in {"MH", "ARCHIVE"} => Slices[s].ok
    /\ Refused(req, Slices) => fpc \in {"check", "refused"}
    /\ fpc = "refused" => Refused(req, Slices)
    /\ fpc = "all" => AllArchs(req.archs) /\ (req.archs # << >> \/ Native(Slices) = {})
    /\ fpc = "flags" => ~AllArchs(req.archs)

\* FatSound is inductive for the steps of Fat.
LEMMA FatStepSound ==
  ASSUME SoundDisk, Types, FatSound, FatStep
  PROVE  FatSound'
<1>0. /\ InFat /\ req' = req /\ File' = File /\ Slices' = Slices /\ F!Step /\ fpc # "idle"
  BY FatHandsOn, SameFile DEF FatStep, Slices, InFat
<1>1. CASE F!CheckArch
  <2>0. fpc = "check" /\ fi \in Nat /\ fi <= F!N /\ req.bin = "nm"
    BY <1>0, <1>1 DEF F!CheckArch, Types, FatTypes, FatSound
  <2>n. F!N = Len(Slices) /\ F!N \in Nat /\ DOMAIN Slices = 1..F!N /\ Slices \in Seq(F!FatArch)
    BY <1>0, SoundFile, SliceIs DEF Slices, F!FatFile
  <2>1. CASE F!N = 0
    <3>1. fpc' = "refused" /\ Slices = << >>
      BY <1>1, <2>1, <2>n DEF F!CheckArch
    <3> QED BY <1>0, <2>0, <3>1 DEF FatSound, Refused
  <2>2. CASE F!N # 0 /\ fi = F!N
    <3>1. fpc' = "choose"
      BY <1>1, <2>2 DEF F!CheckArch
    <3>2. ~Refused(req, Slices)
      <4>1. Slices # << >>
        BY <2>2, <2>n
      <4> QED BY <1>0, <2>0, <2>2, <2>n, <4>1 DEF Refused, FatSound
    <3> QED BY <1>0, <3>1, <3>2 DEF FatSound
  <2>3. CASE F!N # 0 /\ fi # F!N /\ F!check_fat_arch(fi + 1, FALSE)
    <3>1. fpc' = "check" /\ fi' = fi + 1 /\ fi + 1 \in 1..F!N
      BY <1>1, <2>0, <2>3, <2>n DEF F!CheckArch
    <3>2. Slices[fi + 1].kind \in {"MH", "ARCHIVE"} => Slices[fi + 1].ok
      BY <1>0, <2>3, <3>1, OnlyKindsFail
    <3>3. \A s \in 1..fi' : s = fi + 1 \/ s \in 1..fi
      BY <2>0, <3>1
    <3> QED BY <1>0, <2>0, <3>1, <3>2, <3>3 DEF FatSound
  <2>4. CASE F!N # 0 /\ fi # F!N /\ ~F!check_fat_arch(fi + 1, FALSE)
    <3>1. fpc' = "refused" /\ fi + 1 \in 1..F!N
      BY <1>1, <2>0, <2>4, <2>n DEF F!CheckArch
    <3>2. Slices[fi + 1].kind \in {"MH", "ARCHIVE"} /\ ~Slices[fi + 1].ok
      BY <1>0, <2>4, <3>1, OnlyKindsFail
    <3>3. Refused(req, Slices)
      BY <2>0, <2>n, <3>1, <3>2 DEF Refused
    <3> QED BY <1>0, <2>0, <3>1, <3>3 DEF FatSound
  <2> QED BY <2>1, <2>2, <2>3, <2>4
<1>2. CASE F!Choose
  <2>1. fpc = "choose" /\ fpc' \in {"done", "all", "flags"} /\ ~Refused(req, Slices)
    BY <1>0, <1>2 DEF F!Choose, FatSound
  <2>2. CASE fpc' = "done"
    BY <1>0, <2>1, <2>2 DEF FatSound
  <2>3. CASE fpc' # "done"
    <3>1. /\ req.archs = << >> => F!Best = {} \/ \E s \in F!Best : F!A(s).offset >= File.fat.fsize
          /\ fpc' = (IF F!AllArchs(req.archs) THEN "all" ELSE "flags")
      BY <1>2, <2>3 DEF F!Choose
    <3>2. ASSUME NEW s \in F!Best PROVE ~(F!A(s).offset >= File.fat.fsize)
      <4>1. s \in 1..F!N
        BY DEF F!Best
      <4> QED BY <1>0, <4>1, SoundSlice, SoundFile DEF F!A, Slices
    <3>3. F!Best = Native(Slices) /\ (F!AllArchs(req.archs) <=> AllArchs(req.archs))
      BY <1>0, NativeIs DEF F!AllArchs, AllArchs
    <3> QED BY <1>0, <2>1, <3>1, <3>2, <3>3 DEF FatSound
  <2> QED BY <2>2, <2>3
<1>3. CASE F!AllSlices
  BY <1>0, <1>3 DEF F!AllSlices, FatSound
<1>4. CASE F!EndFlags
  BY <1>0, <1>4 DEF F!EndFlags, FatSound
<1>5. CASE F!FlagMissing
  BY <1>0, <1>5 DEF F!FlagMissing, FatSound
<1>6. CASE F!FlagSlice
  BY <1>0, <1>6 DEF F!FlagSlice, FatSound
<1> QED BY <1>0, <1>1, <1>2, <1>3, <1>4, <1>5, <1>6 DEF F!Step

\* Where handle_fat_file may stand: the slices it has considered, in their order,
\* 0 for a flag that names none; and whether they are shown with a label.
Considered ==
  CASE fpc = "all"   -> {[s \in 1..fi |-> s]}
    [] fpc = "flags" -> {[j \in 1..fi |-> Named(Slices, req.archs[j])]}
    [] fpc = "done"  -> Chosen(req, Slices).seqs
    [] OTHER         -> {<< >>}
Labels ==
  CASE fpc = "all"   -> TRUE
    [] fpc = "flags" -> Len(req.archs) > 1
    [] fpc = "done"  -> Chosen(req, Slices).labelled
    [] OTHER         -> FALSE

SliceNumbers == {0} \cup DOMAIN Slices

\* A step of handle_fat_file considers no slice, or one more: that slice is handed
\* on as it is, or suits nobody.
Considers(seq) ==
  \/ fhanded' = fhanded /\ seq \in Considered' /\ (seq = << >> \/ Labels' = Labels)
  \/ \E s \in SliceNumbers :
       /\ Append(seq, s) \in Considered' /\ (seq = << >> \/ Labels' = Labels)
       /\ \/ fhanded' = fhanded /\ ~(s # 0 /\ Fits(req, File, s))
          \/ /\ s # 0 /\ Fits(req, File, s)
             /\ \E e \in F!HandedSlice : /\ fhanded' = Append(fhanded, e)
                                         /\ e.n = s /\ e.label = Labels'
                                         /\ e.size = Slices[s].size

\* A slice that fits is handed on, and no other.
LEMMA HandingOn ==
  ASSUME SoundDisk, Types, InFat, NEW s \in 1..F!N, NEW label \in BOOLEAN, NEW cputype \in Int,
         F!HandOn(s, label, cputype)
  PROVE  \/ fhanded' = fhanded /\ ~Fits(req, File, s)
         \/ /\ Fits(req, File, s)
            /\ \E e \in F!HandedSlice : /\ fhanded' = Append(fhanded, e)
                                        /\ e.n = s /\ e.label = label
                                        /\ e.size = Slices[s].size
<1> DEFINE e == F!Slice(s, label, cputype)
<1>1. /\ F!Clamp(s) = Slices[s].size /\ Slices[s].size \in Nat /\ s \in Nat \ {0}
      /\ F!Suits(s) /\ F!A(s).offset <= File.fat.fsize <=> Fits(req, File, s)
  BY SoundSlice
<1>2. e.n = s /\ e.label = label /\ e.size = Slices[s].size /\ e \in F!HandedSlice
  BY <1>1 DEF F!Slice, F!HandedSlice
<1>3. fhanded' = IF F!Suits(s) /\ F!A(s).offset <= File.fat.fsize
                   THEN Append(fhanded, e) ELSE fhanded
  BY DEF F!HandOn
<1> HIDE DEF e
<1> QED BY <1>1, <1>2, <1>3

\* One more element of what is listed in order.
LEMMA OneMore ==
  ASSUME NEW S, NEW M \in Nat, NEW g \in [1..M -> S], NEW m \in Nat
  PROVE  /\ m <= M => [j \in 1..m |-> g[j]] \in Seq(S)
         /\ m = 0 => [j \in 1..m |-> g[j]] = << >>
         /\ m < M => [j \in 1..(m + 1) |-> g[j]] = Append([j \in 1..m |-> g[j]], g[m + 1])
<1> DEFINE f == [j \in 1..m |-> g[j]]
<1>1. ASSUME m <= M PROVE f \in Seq(S) /\ Len(f) = m /\ \A j \in 1..m : f[j] = g[j]
  <2>1. \A j \in 1..m : j \in 1..M
    BY <1>1
  <2>2. \A j \in 1..m : g[j] \in S
    BY <2>1
  <2> QED BY <2>2, IsASeq
<1>2. m = 0 => f = << >>
  OBVIOUS
<1>3. ASSUME m < M PROVE [j \in 1..(m + 1) |-> g[j]] = Append(f, g[m + 1])
  <2> DEFINE p == m + 1
             w == Append(f, g[p])
  <2>1. g[p] \in S /\ p \in Nat /\ f \in Seq(S) /\ Len(f) = m /\ \A j \in 1..m : f[j] = g[j]
    BY <1>1, <1>3
  <2> HIDE DEF f
  <2>2. /\ w \in Seq(S) /\ Len(w) = p
        /\ (\A j \in 1..m : w[j] = g[j]) /\ w[p] = g[p]
    BY <2>1, AppendProperties
  <2>3. \A j \in 1..p : j = p \/ j \in 1..m
    BY <2>1
  <2>4. \A j \in 1..p : w[j] = g[j]
    <3> HIDE DEF w, p
    <3> QED BY <2>2, <2>3
  <2>5. w \in [1..p -> S]
    <3> HIDE DEF w, p
    <3> QED BY <2>2, LenProperties
  <2>6. w = [j \in 1..p |-> w[j]]
    <3> HIDE DEF w, p
    <3> QED BY <2>5
  <2> HIDE DEF w, p
  <2>7. w = [j \in 1..p |-> g[j]]
    BY <2>4, <2>6
  <2> QED BY <2>7 DEF w, p
<1> HIDE DEF f
<1> QED BY <1>1, <1>2, <1>3 DEF f

\* The ways handle_fat_file takes through the slices.
LEMMA WaysAre ==
  ASSUME SoundDisk, Types, InFat
  PROVE  /\ [s \in 1..F!N |-> s] \in [1..F!N -> SliceNumbers]
         /\ [j \in 1..Len(req.archs) |-> Named(Slices, req.archs[j])]
              \in [1..Len(req.archs) -> SliceNumbers]
         /\ F!N \in Nat /\ Len(req.archs) \in Nat /\ fi \in Nat
         /\ DOMAIN req.archs = 1..Len(req.archs) /\ DOMAIN Slices = 1..F!N
<1>1. [s \in 1..F!N |-> s] \in [1..F!N -> SliceNumbers]
  BY SoundFile DEF SliceNumbers
<1>2. ASSUME NEW name PROVE Named(Slices, name) \in SliceNumbers
  <2> DEFINE named == {s \in DOMAIN Slices : Cpu(Slices[s]) = Cpu(Info(name))}
  <2>1. Named(Slices, name) =
          IF named = {} THEN 0 ELSE CHOOSE s \in named : \A t \in named : s <= t
    BY DEF Named
  <2>2. named \subseteq Nat
    BY SoundFile
  <2> HIDE DEF named
  <2>3. CASE named = {}
    BY <2>1, <2>3 DEF SliceNumbers
  <2>4. CASE named # {}
    <3>1. \E s \in named : \A t \in named : s <= t
      BY <2>2, <2>4, LeastNumber
    <3>2. Named(Slices, name) \in named
      BY <2>1, <2>4, <3>1
    <3>3. named \subseteq DOMAIN Slices
      BY DEF named
    <3> QED BY <3>2, <3>3 DEF SliceNumbers
  <2> QED BY <2>3, <2>4
<1>3. req.archs \in Seq(STRING)
  BY RequestsAssumption DEF Types
<1> QED BY <1>1, <1>2, <1>3, SoundFile DEF Types, FatTypes

\* One step of handle_fat_file is one step along its way through the slices.
LEMMA FatAdvances ==
  ASSUME SoundDisk, Types, FatSound, FatStep, NEW seq \in Considered
  PROVE  Considers(seq)
<1> DEFINE N == F!N
           L == Len(req.archs)
           gs == [s \in 1..N |-> s]
           gf == [j \in 1..L |-> Named(Slices, req.archs[j])]
<1>0. /\ InFat /\ req' = req /\ File' = File /\ Slices' = Slices /\ F!Step /\ fpc # "idle"
  BY FatHandsOn, SameFile DEF FatStep, Slices, InFat
<1>n. /\ gs \in [1..N -> SliceNumbers] /\ gf \in [1..L -> SliceNumbers]
      /\ N \in Nat /\ L \in Nat /\ fi \in Nat /\ DOMAIN req.archs = 1..L
      /\ DOMAIN Slices = 1..N
  BY <1>0, WaysAre
<1>a. /\ \A m \in 0..N : m < N => [s \in 1..(m + 1) |-> s] = Append([s \in 1..m |-> s], m + 1)
      /\ \A m : m = 0 => [s \in 1..m |-> s] = << >>
  <2>1. ASSUME NEW m \in 0..N, m < N
        PROVE  [s \in 1..(m + 1) |-> s] = Append([s \in 1..m |-> s], m + 1)
    <3> DEFINE p == m + 1
    <3>1. \A s \in 1..p : s \in 1..N
      BY <1>n, <2>1
    <3>2. \A s \in 1..m : s \in 1..p
      BY <1>n, <2>1
    <3>3. p \in 1..p
      BY <1>n, <2>1
    <3>4. (\A s \in 1..p : gs[s] = s) /\ gs[p] = p
      BY <3>1, <3>3
    <3>5. \A s \in 1..m : gs[s] = s
      BY <3>2, <3>4
    <3>6. [s \in 1..p |-> gs[s]] = Append([s \in 1..m |-> gs[s]], gs[p])
      <4> HIDE DEF gs, gf, N, L
      <4> QED BY <1>n, <2>1, OneMore
    <3> HIDE DEF gs, p
    <3>7. [s \in 1..p |-> gs[s]] = [s \in 1..p |-> s] /\ [s \in 1..m |-> gs[s]] = [s \in 1..m |-> s]
      BY <3>4, <3>5
    <3>8. [s \in 1..p |-> s] = Append([s \in 1..m |-> s], p)
      BY <3>4, <3>6, <3>7
    <3> QED BY <3>8 DEF p
  <2>2. \A m : m = 0 => [s \in 1..m |-> s] = << >>
    OBVIOUS
  <2> QED BY <2>1, <2>2
<1>b. /\ \A m \in 0..L : m < L =>
           [j \in 1..(m + 1) |-> Named(Slices, req.archs[j])] =
             Append([j \in 1..m |-> Named(Slices, req.archs[j])], Named(Slices, req.archs[m + 1]))
      /\ \A m : m = 0 => [j \in 1..m |-> Named(Slices, req.archs[j])] = << >>
  <2>1. ASSUME NEW m \in 0..L, m < L
        PROVE  [j \in 1..(m + 1) |-> Named(Slices, req.archs[j])] =
                 Append([j \in 1..m |-> Named(Slices, req.archs[j])],
                        Named(Slices, req.archs[m + 1]))
    <3> DEFINE p == m + 1
    <3>1. \A j \in 1..p : j \in 1..L
      BY <1>n, <2>1
    <3>2. \A j \in 1..m : j \in 1..p
      BY <1>n, <2>1
    <3>3. p \in 1..p
      BY <1>n, <2>1
    <3>4. (\A j \in 1..p : gf[j] = Named(Slices, req.archs[j]))
          /\ gf[p] = Named(Slices, req.archs[p])
      BY <3>1, <3>3
    <3>5. \A j \in 1..m : gf[j] = Named(Slices, req.archs[j])
      BY <3>2, <3>4
    <3>6. [j \in 1..p |-> gf[j]] = Append([j \in 1..m |-> gf[j]], gf[p])
      <4> HIDE DEF gs, gf, N, L
      <4> QED BY <1>n, <2>1, OneMore
    <3> HIDE DEF gf, p
    <3>7. /\ [j \in 1..p |-> gf[j]] = [j \in 1..p |-> Named(Slices, req.archs[j])]
          /\ [j \in 1..m |-> gf[j]] = [j \in 1..m |-> Named(Slices, req.archs[j])]
      BY <3>4, <3>5
    <3>8. [j \in 1..p |-> Named(Slices, req.archs[j])] =
            Append([j \in 1..m |-> Named(Slices, req.archs[j])], Named(Slices, req.archs[p]))
      BY <3>4, <3>6, <3>7
    <3> QED BY <3>8 DEF p
  <2>2. \A m : m = 0 => [j \in 1..m |-> Named(Slices, req.archs[j])] = << >>
    OBVIOUS
  <2> QED BY <2>1, <2>2
<1> HIDE DEF gs, gf
<1>1. CASE F!CheckArch
  <2>1. fpc = "check" /\ fpc' \in {"check", "choose", "refused"} /\ fhanded' = fhanded
    BY <1>1 DEF F!CheckArch
  <2>2. Considered = {<< >>} /\ Considered' = {<< >>}
    BY <2>1 DEF Considered
  <2> QED BY <2>1, <2>2 DEF Considers
<1>2. CASE F!Choose
  <2>1. fpc = "choose" /\ fpc' \in {"done", "all", "flags"} /\ fi' = fi /\ fi = 0
    BY <1>0, <1>2 DEF F!Choose, Types, FatTypes
  <2>2. seq = << >>
    <3>1. Considered = {<< >>}
      BY <2>1 DEF Considered
    <3> QED BY <3>1
  <2>3. CASE fpc' # "done"
    <3>1. fhanded' = fhanded
      BY <1>2, <2>3 DEF F!Choose
    <3>2. Considered' = {<< >>}
      <4>1. fi' = 0 /\ req' = req /\ Slices' = Slices
        BY <1>0, <2>1
      <4>2. CASE fpc' = "all"
        <5>1. Considered' = {[s \in 1..fi' |-> s]}
          BY <4>2 DEF Considered
        <5> QED BY <1>a, <4>1, <5>1
      <4>3. CASE fpc' = "flags"
        <5>1. Considered' = {[j \in 1..fi' |-> Named(Slices', req'.archs[j])]}
          BY <4>3 DEF Considered
        <5> QED BY <1>b, <4>1, <5>1
      <4> QED BY <2>1, <2>3, <4>2, <4>3
    <3> QED BY <2>2, <3>1, <3>2 DEF Considers
  <2>4. CASE fpc' = "done"
    <3>1. PICK s \in F!Best : /\ req.archs = << >> /\ F!HandOn(s, FALSE, F!A(s).cputype)
      BY <1>2, <2>4 DEF F!Choose
    <3>2. s \in 1..F!N /\ s \in Native(Slices)
      BY <1>0, NativeIs DEF F!Best
    <3>3. /\ Chosen(req, Slices).seqs = {<<t>> : t \in Native(Slices)}
          /\ Chosen(req, Slices).labelled = FALSE
      BY <3>1, <3>2 DEF Chosen
    <3>4. <<s>> \in Considered' /\ Labels' = FALSE
      BY <1>0, <2>4, <3>2, <3>3 DEF Considered, Labels
    <3>5. F!A(s).cputype \in Int
      BY <1>0, <3>2, SoundFile, SliceIs DEF F!A, F!FatArch, Slices
    <3>6. /\ s \in SliceNumbers /\ s # 0 /\ Append(seq, s) = <<s>>
      BY <1>n, <2>2, <3>2 DEF SliceNumbers
    <3>7. \/ fhanded' = fhanded /\ ~Fits(req, File, s)
          \/ /\ Fits(req, File, s)
             /\ \E e \in F!HandedSlice : /\ fhanded' = Append(fhanded, e)
                                         /\ e.n = s /\ e.label = FALSE
                                         /\ e.size = Slices[s].size
      BY <1>0, <3>1, <3>2, <3>5, HandingOn
    <3> QED BY <2>2, <3>4, <3>6, <3>7 DEF Considers
  <2> QED BY <2>3, <2>4
<1>3. CASE F!AllSlices
  <2>1. /\ fpc = "all" /\ AllArchs(req.archs) /\ (req.archs # << >> \/ Native(Slices) = {})
        /\ fi \in 0..N
    BY <1>0, <1>3, <1>n DEF F!AllSlices, FatSound, Types, FatTypes
  <2>2. seq = [s \in 1..fi |-> s] /\ Labels = TRUE
    BY <2>1 DEF Considered, Labels
  <2>3. CASE fi = N
    <3>1. fpc' = "done" /\ fhanded' = fhanded
      BY <1>3, <2>3 DEF F!AllSlices
    <3>2. /\ Chosen(req, Slices).seqs = {[s \in DOMAIN Slices |-> s]}
          /\ Chosen(req, Slices).labelled = TRUE
      BY <2>1 DEF Chosen
    <3>3. seq = [s \in DOMAIN Slices |-> s]
      BY <1>n, <2>2, <2>3
    <3>4. seq \in Considered' /\ Labels' = TRUE
      BY <1>0, <3>1, <3>2, <3>3 DEF Considered, Labels
    <3> QED BY <2>2, <3>1, <3>4 DEF Considers
  <2>4. CASE fi # N
    <3>1. /\ fpc' = "all" /\ fi' = fi + 1 /\ fi + 1 \in 1..F!N /\ fi < N
          /\ IF F!Known(fi + 1) /\ F!A(fi + 1).offset < File.fat.fsize
               THEN F!HandOn(fi + 1, TRUE, F!A(fi + 1).cputype) ELSE fhanded' = fhanded
      <4>1. /\ fpc' = "all" /\ fi' = fi + 1
            /\ IF F!Known(fi + 1) /\ F!A(fi + 1).offset < File.fat.fsize
                 THEN F!HandOn(fi + 1, TRUE, F!A(fi + 1).cputype) ELSE fhanded' = fhanded
        BY <1>3, <2>1, <2>4, Zenon DEF F!AllSlices
      <4>2. fi + 1 \in 1..N /\ fi < N
        <5> HIDE DEF N
        <5> QED BY <1>n, <2>1, <2>4
      <4> QED BY <4>1, <4>2
    <3>2. F!HandOn(fi + 1, TRUE, F!A(fi + 1).cputype)
      BY <1>0, <3>1, SoundSlice DEF F!A, Slices
    <3>3. F!A(fi + 1).cputype \in Int
      BY <1>0, <3>1, SoundFile, SliceIs DEF F!A, F!FatArch, Slices
    <3>4. \/ fhanded' = fhanded /\ ~Fits(req, File, fi + 1)
          \/ /\ Fits(req, File, fi + 1)
             /\ \E e \in F!HandedSlice : /\ fhanded' = Append(fhanded, e)
                                         /\ e.n = fi + 1 /\ e.label = TRUE
                                         /\ e.size = Slices[fi + 1].size
      BY <1>0, <3>1, <3>2, <3>3, HandingOn
    <3>5. Labels' = TRUE /\ Considered' = {[s \in 1..(fi + 1) |-> s]}
      BY <3>1 DEF Considered, Labels
    <3>6. Append(seq, fi + 1) \in Considered'
      BY <1>a, <2>1, <2>2, <3>1, <3>5
    <3>7. fi + 1 \in SliceNumbers /\ fi + 1 # 0
      BY <1>n, <3>1 DEF SliceNumbers
    <3> QED BY <2>2, <3>4, <3>5, <3>6, <3>7 DEF Considers
  <2> QED BY <2>3, <2>4
<1>4. CASE F!EndFlags
  <2>1. /\ fpc = "flags" /\ fpc' = "done" /\ fhanded' = fhanded /\ fi = L
        /\ ~AllArchs(req.archs)
    BY <1>0, <1>4 DEF F!EndFlags, FatSound
  <2>2. seq = [j \in 1..fi |-> Named(Slices, req.archs[j])] /\ Labels = (L > 1)
    BY <2>1 DEF Considered, Labels
  <2>3. /\ Chosen(req, Slices).seqs = {[j \in DOMAIN req.archs |-> Named(Slices, req.archs[j])]}
        /\ Chosen(req, Slices).labelled = (L > 1)
    BY <2>1 DEF Chosen, AllArchs
  <2>4. seq = [j \in DOMAIN req.archs |-> Named(Slices, req.archs[j])]
    BY <1>n, <2>1, <2>2
  <2>5. seq \in Considered' /\ Labels' = (L > 1)
    BY <1>0, <2>1, <2>3, <2>4 DEF Considered, Labels
  <2> QED BY <2>1, <2>2, <2>5 DEF Considers
<1>5. CASE F!FlagMissing \/ F!FlagSlice
  <2>1. /\ fpc = "flags" /\ fpc' = fpc /\ fi' = fi + 1 /\ fi < L /\ fi \in 0..L
        /\ fi + 1 \in 1..L
    BY <1>5, <1>n DEF F!FlagMissing, F!FlagSlice
  <2> DEFINE s == Named(Slices, req.archs[fi + 1])
             label == L > 1
  <2>2. seq = [j \in 1..fi |-> Named(Slices, req.archs[j])] /\ Labels = label /\ Labels' = label
    BY <1>0, <2>1 DEF Considered, Labels
  <2>3. Considered' = {[j \in 1..(fi + 1) |-> Named(Slices, req.archs[j])]}
    BY <1>0, <2>1 DEF Considered
  <2>4. Append(seq, s) \in Considered'
    BY <1>b, <2>1, <2>2, <2>3
  <2>5. s \in SliceNumbers
    BY <1>n, <2>1 DEF gf
  <2>6. CASE F!FlagMissing
    <3>1. s = 0 /\ fhanded' = fhanded
      BY <1>0, <2>6, NamedIs DEF F!FlagMissing
    <3> HIDE DEF s, label
    <3> QED BY <2>2, <2>4, <2>5, <3>1 DEF Considers
  <2>7. CASE F!FlagSlice
    <3>1. PICK t \in 1..F!N :
                 /\ F!First(t, F!get_corr_fat_arch(req.archs[fi + 1]))
                 /\ F!HandOn(t, L > 1, IF F!A(t).kind = "MH" THEN F!A(t).hdcpu ELSE 0)
      BY <2>7 DEF F!FlagSlice
    <3>2. s = t /\ t \in Nat \ {0}
      BY <1>0, <3>1, NamedIs, SoundFile
    <3> DEFINE cputype == IF F!A(t).kind = "MH" THEN F!A(t).hdcpu ELSE 0
    <3>3. cputype \in Int /\ label \in BOOLEAN
      <4>1. F!A(t) \in F!FatArch
        BY <1>0, <3>1, SoundFile, SliceIs DEF F!A, Slices
      <4>2. F!A(t).hdcpu \in Int
        BY <4>1 DEF F!FatArch
      <4>3. label \in BOOLEAN
        OBVIOUS
      <4> QED BY <4>2, <4>3
    <3>4. F!HandOn(t, label, cputype)
      BY <3>1
    <3> HIDE DEF s, label, cputype
    <3>5. \/ fhanded' = fhanded /\ ~Fits(req, File, t)
          \/ /\ Fits(req, File, t)
             /\ \E e \in F!HandedSlice : /\ fhanded' = Append(fhanded, e)
                                         /\ e.n = t /\ e.label = label
                                         /\ e.size = Slices[t].size
      BY <1>0, <3>1, <3>3, <3>4, HandingOn
    <3> QED BY <2>2, <2>4, <2>5, <3>2, <3>5 DEF Considers
  <2> QED BY <1>5, <2>6, <2>7
<1> QED BY <1>0, <1>1, <1>2, <1>3, <1>4, <1>5 DEF F!Step

-----------------------------------------------------------------------------
(* The archive being handled *)

\* A slice is handed on with the size it has on the disk.
SizesKept ==
  InFat => \A j \in DOMAIN fhanded : fhanded[j].size = Slices[fhanded[j].n].size

LEMMA StepSizesKept ==
  ASSUME SoundDisk, Types, SizesKept, [Next]_vars
  PROVE  SizesKept'
<1>1. CASE FatStep
  <2>1. /\ InFat /\ fhanded \in Seq(F!HandedSlice) /\ Slices' = Slices
        /\ fhanded' = fhanded \/ FatAdds
    BY <1>1, FatHandsOn, SameFile DEF Slices
  <2>2. CASE fhanded' = fhanded
    BY <2>1, <2>2 DEF SizesKept
  <2>3. CASE FatAdds
    <3>1. PICK s \in DOMAIN Slices, label \in BOOLEAN, cputype \in Int :
                 fhanded' = Append(fhanded, F!Slice(s, label, cputype))
      BY <2>3 DEF FatAdds, Slices
    <3>2. s \in 1..F!N
      BY <2>1, SoundFile
    <3>3. F!Clamp(s) = Slices[s].size
      BY <2>1, <3>2, SoundSlice
    <3> DEFINE e == F!Slice(s, label, cputype)
    <3>4. e.n = s /\ e.size = Slices[s].size
      BY <3>3 DEF F!Slice
    <3>5. fhanded' = Append(fhanded, e)
      BY <3>1
    <3> HIDE DEF e
    <3>6. \A j \in DOMAIN fhanded' :
            fhanded'[j] = e \/ (j \in DOMAIN fhanded /\ fhanded'[j] = fhanded[j])
      BY <2>1, <3>5
    <3> QED BY <2>1, <3>4, <3>6 DEF SizesKept
  <2> QED BY <2>1, <2>2, <2>3
<1>2. CASE fhanded' = << >>
  BY <1>2 DEF SizesKept
<1>3. CASE UNCHANGED <<req, n, fpc, fhanded>>
  <2>1. Slices' = Slices /\ (InFat' <=> InFat)
    BY <1>3, SameFile DEF Slices, InFat
  <2> QED BY <1>3, <2>1 DEF SizesKept
<1>4. CASE fpc' = "idle"
  BY <1>4 DEF SizesKept, InFat
<1>5. CASE CannotOpen \/ CannotMap \/ NotAnObject \/ handle_file
  <2>1. fpc = "idle"
    BY <1>5, NextFileIs DEF CannotOpen, CannotMap, NotAnObject, handle_file
  <2>2. CASE handle_file
    BY <1>2, <1>4, <2>1, <2>2, EntersAs DEF EnterFat, fatVars
  <2>3. CASE ~handle_file
    BY <1>4, <1>5, <2>1, <2>3 DEF CannotOpen, CannotMap, NotAnObject, fatVars
  <2> QED BY <2>2, <2>3
<1>6. CASE EndFat
  BY <1>4, <1>6 DEF EndFat
<1>7. CASE ArchiveStep \/ EndArchive \/ handle_macho_file \/ UNCHANGED vars
  BY <1>3, <1>7 DEF ArchiveStep, EndArchive, handle_macho_file, vars, fatVars
<1> QED BY <1>1, <1>5, <1>6, <1>7 DEF Next, Step

\* The archive being handled is one of the disk: no slice of it was cut off.
LEMMA ArchiveOnDisk ==
  ASSUME SoundDisk, Types, SizesKept, InAr
  PROVE  /\ Archive \in OnDisk
         /\ Archive = IF InFat THEN File.inner[Slice.n] ELSE File.ar
         /\ IF InFat THEN Slice.n \in 1..F!N /\ Slices[Slice.n].kind = "ARCHIVE"
                     ELSE File.kind = "ARCHIVE"
<1>1. CASE InFat
  <2>1. /\ fhanded # << >> /\ fhanded \in Seq(F!HandedSlice)
        /\ \A j \in DOMAIN fhanded : fhanded[j].n \in DOMAIN File.fat.archs
        /\ File.fat.archs[Slice.n].kind = "ARCHIVE"
    BY <1>1 DEF Types, FatTypes, Modes, ArchiveTypes, InAr
  <2>2. Len(fhanded) \in DOMAIN fhanded
    BY <2>1
  <2>3. /\ Slice.n \in DOMAIN Slices /\ Slices[Slice.n].kind = "ARCHIVE"
        /\ Slice.size = Slices[Slice.n].size
    BY <1>1, <2>1, <2>2 DEF Slice, Slices, SizesKept
  <2> DEFINE s == Slice.n
  <2>4. File.inner[s] = [File.inner[s] EXCEPT !.fsize = Slices[s].size]
    BY <1>1, <2>3, SoundFile DEF SoundFat, Slices
  <2>5. Archive = File.inner[s]
    BY <1>1, <2>3, <2>4 DEF Archive
  <2>6. File.inner[s] \in OnDisk
    BY <1>1, <2>3, SoundFile DEF OnDisk, Slices
  <2> QED BY <1>1, <2>3, <2>5, <2>6, SoundFile
<1>2. CASE ~InFat
  <2>1. File.kind = "ARCHIVE" /\ n # 0
    BY <1>2 DEF Types, ArchiveTypes, Modes
  <2>2. req.files[n] \in DOMAIN Disk /\ File = Disk[req.files[n]]
    BY <2>1, FileIs DEF File
  <2> QED BY <1>2, <2>1, <2>2 DEF OnDisk, Archive
<1> QED BY <1>1, <1>2

\* The same in the next state.
LEMMA ArchiveOnDiskNext ==
  ASSUME SoundDisk
  PROVE  Types' /\ SizesKept' /\ InAr' => (Archive \in OnDisk)'
<1>1. Types /\ SizesKept /\ InAr => Archive \in OnDisk
  BY ArchiveOnDisk
<1> QED BY <1>1, PTL

\* Every archive a file or a slice comes to is handled as the theorems about
\* Archive say.
ArInv == InAr => ArchiveInv

\* An archive that was just entered.
LEMMA InitArchiveInvNext ==
  ASSUME SoundDisk
  PROVE  AP!Init' => ArchiveInv'
<1>1. AP!Init => ArchiveInv
  BY InitArchiveInv, AssumptionsHold
<1> QED BY <1>1, PTL

LEMMA EnterArInv ==
  ASSUME SoundDisk, Types', SizesKept', EnterArchive
  PROVE  ArInv'
<1>1. InAr' /\ (Archive \in OnDisk)'
  BY EnteringTypes, ArchiveOnDiskNext
<1>2. req' \in Requests
  BY DEF Types
<1>3. req'.archs \in FlagLists /\ req'.bin \in {"nm", "otool"}
  BY <1>2, RequestsAssumption DEF FlagLists
<1>4. Labelled' \in BOOLEAN
  BY DEF Labelled
<1>5. AP!Init'
  BY <1>1, <1>3, <1>4 DEF AP!Init, EnterArchive, AP!NoCpu
<1> QED BY <1>5, InitArchiveInvNext DEF ArInv

\* ArInv is inductive.
LEMMA StepArInv ==
  ASSUME SoundDisk, Types, Types', SizesKept', ArInv, [Next]_vars
  PROVE  ArInv'
<1>0. ArchiveInv /\ [AP!Next]_(AP!vars) => ArchiveInv'
  BY StepArchiveInv, AssumptionsHold
<1>1. CASE EnterArchive
  BY <1>1, EnterArInv
<1>2. CASE apc' = "idle"
  BY <1>2 DEF ArInv, InAr
<1>3. CASE UNCHANGED <<req, n, fatVars, archiveVars>>
  <2>1. UNCHANGED <<Archive, req.archs, req.bin, Labelled>>
    BY <1>3 DEF Archive, Labelled, Slice, File, InFat, fatVars
  <2>2. UNCHANGED AP!vars /\ (InAr' <=> InAr)
    BY <1>3, <2>1 DEF AP!vars, archiveVars, InAr
  <2> QED BY <1>0, <2>2 DEF ArInv
<1>4. CASE ArchiveStep
  <2>1. Ar!Step /\ InAr
    BY <1>4, ArchiveHandsOn DEF ArchiveStep
  <2>2. AP!Next
    BY <2>1, SameStep
  <2> QED BY <1>0, <2>1, <2>2 DEF ArInv
<1>5. CASE CannotOpen \/ CannotMap \/ NotAnObject \/ handle_file
  <2>1. apc = "idle"
    BY <1>5, NextFileIs DEF CannotOpen, CannotMap, NotAnObject, handle_file
  <2>2. CASE handle_file
    BY <1>1, <1>2, <2>1, <2>2, EntersAs DEF archiveVars
  <2>3. CASE ~handle_file
    BY <1>2, <1>5, <2>1, <2>3 DEF CannotOpen, CannotMap, NotAnObject, archiveVars
  <2> QED BY <2>2, <2>3
<1>6. CASE FatStep
  <2>1. ~InAr /\ (EnterArchive \/ UNCHANGED archiveVars)
    BY <1>6, FatHandsOn
  <2> QED BY <1>1, <1>2, <2>1 DEF InAr, archiveVars
<1>7. CASE EndFat
  <2>1. ~InAr /\ UNCHANGED archiveVars
    BY <1>7 DEF EndFat, Types, Modes
  <2> QED BY <1>2, <2>1 DEF InAr, archiveVars
<1>8. CASE EndArchive
  BY <1>2, <1>8 DEF EndArchive
<1>9. CASE handle_macho_file \/ UNCHANGED vars
  BY <1>3, <1>9 DEF handle_macho_file, vars
<1> QED BY <1>4, <1>5, <1>6, <1>7, <1>8, <1>9 DEF Next, Step

-----------------------------------------------------------------------------
(* What main comes to *)

\* The directories in front have taken a descriptor each, as long as there were any.
Granted == fds = IF Directories(req, n) < MaxFds THEN Directories(req, n) ELSE MaxFds

\* One more file, one more directory or none.
LEMMA DirectoriesMore ==
  ASSUME NEW r, NEW i \in Nat
  PROVE  /\ Directories(r, i) \in Nat
         /\ i = 0 => Directories(r, i) = 0
         /\ Directories(r, i + 1) =
              Directories(r, i) + (IF FileOf(r, i + 1).access = "nomap" THEN 1 ELSE 0)
<1> DEFINE D(m) == {j \in 1..m : FileOf(r, j).access = "nomap"}
<1>1. IsFiniteSet(D(i)) /\ Cardinality(D(i)) \in Nat
  <2>1. IsFiniteSet(1..i)
    BY FS_Interval
  <2> QED BY <2>1, FS_Subset, FS_CardinalityType
<1>2. i = 0 => D(i) = {}
  OBVIOUS
<1>3. \A j : j \in 1..(i + 1) <=> j \in 1..i \/ j = i + 1
  OBVIOUS
<1>4. i + 1 \notin 1..i
  OBVIOUS
<1>5. CASE FileOf(r, i + 1).access = "nomap"
  <2>1. D(i + 1) = D(i) \cup {i + 1} /\ i + 1 \notin D(i)
    BY <1>3, <1>4, <1>5
  <2> HIDE DEF D
  <2>2. Cardinality(D(i + 1)) = Cardinality(D(i)) + 1
    BY <1>1, <2>1, FS_AddElement
  <2> QED BY <1>1, <1>2, <1>5, <2>2, FS_EmptySet DEF Directories, D
<1>6. CASE FileOf(r, i + 1).access # "nomap"
  <2>1. D(i + 1) = D(i)
    BY <1>3, <1>6
  <2> HIDE DEF D
  <2>2. Cardinality(D(i + 1)) = Cardinality(D(i)) + 0
    BY <1>1, <2>1
  <2> QED BY <1>1, <1>2, <1>6, <2>2, FS_EmptySet DEF Directories, D
<1> QED BY <1>5, <1>6

\* mapp_file leaves the descriptor of a directory open and closes all others.
LEMMA StepGranted ==
  ASSUME Types, Granted, [Next]_vars
  PROVE  Granted'
<1>1. n \in Nat /\ MaxFds \in Nat \ {0}
  BY RequestIs, MaxFdsAssumption DEF Types
<1> DEFINE d == Directories(req, n)
           e == Directories(req, n + 1)
<1>2. /\ d \in Nat
      /\ e = d + (IF FileOf(req, n + 1).access = "nomap" THEN 1 ELSE 0)
  BY <1>1, DirectoriesMore
<1>3. fds = IF d < MaxFds THEN d ELSE MaxFds
  BY DEF Granted
<1>4. Upcoming = FileOf(req, n + 1)
  BY DEF Upcoming, FileOf
<1>5. CASE UNCHANGED <<req, n, fds>>
  BY <1>5 DEF Granted
<1>6. CASE CannotOpen \/ CannotMap \/ NotAnObject \/ handle_file
  <2>1. req' = req /\ n' = n + 1
    BY <1>6 DEF CannotOpen, CannotMap, NotAnObject, handle_file, NextFile
  <2>2. Granted' <=> fds' = IF e < MaxFds THEN e ELSE MaxFds
    BY <2>1 DEF Granted
  <2> HIDE DEF d, e
  <2>3. CASE CannotOpen
    <3>1. fds' = fds /\ (Upcoming.access = "noopen" \/ ~(fds < MaxFds))
      BY <2>3 DEF CannotOpen, Opens
    <3> QED BY <1>1, <1>2, <1>3, <1>4, <2>2, <3>1
  <2>4. CASE CannotMap
    <3>1. fds' = fds + 1 /\ Upcoming.access = "nomap" /\ fds < MaxFds
      BY <2>4 DEF CannotMap, Opens
    <3> QED BY <1>1, <1>2, <1>3, <1>4, <2>2, <3>1
  <2>5. CASE NotAnObject \/ handle_file
    <3>1. fds' = fds /\ Upcoming.access # "nomap"
      BY <2>5 DEF NotAnObject, handle_file, IsObject
    <3> QED BY <1>1, <1>2, <1>3, <1>4, <2>2, <3>1
  <2> QED BY <1>6, <2>3, <2>4, <2>5
<1>7. CASE FatStep \/ EndFat \/ ArchiveStep \/ EndArchive \/ handle_macho_file \/ UNCHANGED vars
  BY <1>5, <1>7 DEF FatStep, EndFat, ArchiveStep, EndArchive, handle_macho_file, vars
<1> QED BY <1>6, <1>7 DEF Next, Step

\* A file that is handled is within reach; one that is an image itself is handed
\* to handle_macho_file at once.
Reaching ==
  mode # "main" =>
    /\ Reached(req, n)
    /\ InFat => File.kind = "FAT"
    /\ ~InFat /\ InAr => File.kind = "ARCHIVE"
    /\ ~InFat /\ ~InAr => /\ File.kind = "MH" /\ mode = "macho"
                          /\ ~(req.bin = "otool" /\ File.small)

\* Only handle_file begins with a file, and only with one it can read.
LEMMA StepReaching ==
  ASSUME Types, Granted, Reaching, [Next]_vars
  PROVE  Reaching'
<1>1. CASE handle_file
  <2>1. /\ mode = "main" /\ ~InFat /\ ~InAr /\ fpc = "idle" /\ apc = "idle"
        /\ n' = n + 1 /\ req' = req
    BY <1>1, NextFileIs DEF handle_file, NextFile
  <2>2. Upcoming = File' /\ File' = FileOf(req, n + 1)
    BY <2>1 DEF Upcoming, File, FileOf
  <2>3. Reached(req', n')
    <3>1. Upcoming.access = "ok" /\ fds < MaxFds
      BY <1>1 DEF handle_file, IsObject, Opens
    <3>2. n \in Nat /\ n' - 1 = n
      BY <2>1, RequestIs DEF Types
    <3>3. Directories(req, n) < MaxFds
      BY <3>1, <3>2, DirectoriesMore, MaxFdsAssumption DEF Granted
    <3> QED BY <2>1, <2>2, <3>1, <3>2, <3>3 DEF Reached
  <2>4. /\ Upcoming.kind \in {"MH", "FAT", "ARCHIVE"}
        /\ ~(req.bin = "otool" /\ Upcoming.kind = "MH" /\ Upcoming.small)
    <3>1. req.files[n + 1] \in DOMAIN Disk
      <4>1. n + 1 \in 1..Len(req.files)
        BY <1>1, RequestIs DEF Types, handle_file, NextFile
      <4> QED BY <4>1, RequestIs
    <3> QED BY <1>1, <3>1, DiskAssumption DEF handle_file, IsObject, Upcoming
  <2>5. mode' = CASE Upcoming.kind = "FAT" -> "fat" [] Upcoming.kind = "ARCHIVE" -> "archive"
                  [] OTHER -> "macho"
    BY <1>1 DEF handle_file
  <2>6. CASE Upcoming.kind = "FAT"
    <3>1. InFat'
      BY <1>1, <2>5, <2>6 DEF handle_file, EnterFat, InFat
    <3> QED BY <2>2, <2>3, <2>6, <3>1 DEF Reaching
  <2>7. CASE Upcoming.kind = "ARCHIVE"
    <3>1. InAr' /\ ~InFat'
      BY <1>1, <2>1, <2>5, <2>7 DEF handle_file, EnterArchive, InFat, InAr, fatVars
    <3> QED BY <2>2, <2>3, <2>7, <3>1 DEF Reaching
  <2>8. CASE Upcoming.kind = "MH"
    <3>1. ~InAr' /\ ~InFat' /\ mode' = "macho"
      BY <1>1, <2>1, <2>5, <2>8 DEF handle_file, InFat, InAr, fatVars, archiveVars
    <3> QED BY <2>1, <2>2, <2>3, <2>4, <2>8, <3>1 DEF Reaching
  <2> QED BY <2>4, <2>6, <2>7, <2>8
<1>2. CASE mode' = "main"
  BY <1>2 DEF Reaching
<1>3. CASE UNCHANGED vars \/ CannotOpen \/ CannotMap \/ NotAnObject
  <2>1. CASE UNCHANGED vars
    BY <2>1 DEF vars, fatVars, archiveVars, Reaching, Reached, File, InFat, InAr
  <2> QED BY <1>2, <1>3, <2>1 DEF CannotOpen, CannotMap, NotAnObject, NextFile
<1>4. CASE FatStep
  <2>1. /\ InFat /\ InFat' /\ req' = req /\ n' = n /\ File' = File /\ mode = "fat"
    BY <1>4, FatHandsOn, SameFile
  <2> QED BY <2>1 DEF Reaching
<1>5. CASE EndFat
  BY <1>2, <1>5 DEF EndFat
<1>6. CASE ArchiveStep
  <2>1. /\ InAr /\ InAr' /\ InFat' = InFat /\ req' = req /\ n' = n /\ File' = File
        /\ mode = "archive"
    BY <1>6, ArchiveHandsOn
  <2> QED BY <2>1 DEF Reaching
<1>7. CASE EndArchive
  <2>1. /\ mode = "archive" /\ UNCHANGED <<req, n, fpc>>
        /\ mode' = IF InFat THEN "fat" ELSE "main"
    BY <1>7 DEF EndArchive, fatVars
  <2>2. File' = File /\ InFat' = InFat
    BY <2>1, SameFile DEF InFat
  <2> QED BY <2>1, <2>2 DEF Reaching
<1>8. CASE handle_macho_file
  <2>1. /\ mode = "macho" /\ UNCHANGED <<req, n, fpc, apc>>
        /\ mode' = IF InAr THEN "archive" ELSE IF InFat THEN "fat" ELSE "main"
    BY <1>8, MachoIs
  <2>2. File' = File /\ InFat' = InFat /\ InAr' = InAr
    BY <2>1, SameFile DEF InFat, InAr
  <2> QED BY <2>1, <2>2 DEF Reaching
<1> QED BY <1>1, <1>3, <1>4, <1>5, <1>6, <1>7, <1>8 DEF Next, Step

-----------------------------------------------------------------------------
(* What is said of a file *)

\* What was printed before the current file, and that it stays.
Said == Listings(SubSeq(out, 1, start))
Started == start <= Len(out)

\* What was said is made of places.
LEMMA SaidTypes ==
  ASSUME Types, Started
  PROVE  /\ Said \in Seq(Origins) /\ Listings(out) \in Seq(Origins)
         /\ SubSeq(out, 1, start) \in Seq(Entry)
         /\ start = Len(out) => Said = Listings(out)
<1>1. out \in Seq(Entry) /\ start \in Nat /\ Len(out) \in Nat
  BY DEF Types
<1>2. \A j \in 1..start : j \in 1..Len(out) /\ out[j] \in Entry
  BY <1>1 DEF Started
<1>3. SubSeq(out, 1, start) \in Seq(Entry)
  <2>1. SubSeq(out, 1, start) = [j \in 1..start |-> out[j]]
    BY <1>1, <1>2
  <2> QED BY <1>1, <1>2, <2>1, IsASeq
<1>4. start = Len(out) => SubSeq(out, 1, start) = out
  BY <1>1, SubSeqFull
<1> QED BY <1>1, <1>3, <1>4, ListingsMore DEF Said

\* What is printed stays as it is.
LEMMA SubSeqStays ==
  ASSUME NEW S, NEW o \in Seq(S), NEW e \in S, NEW m \in Nat, m <= Len(o)
  PROVE  SubSeq(Append(o, e), 1, m) = SubSeq(o, 1, m) /\ m <= Len(Append(o, e))
<1>0. Len(o) \in Nat
  OBVIOUS
<1>1. \A j \in 1..m : Append(o, e)[j] = o[j]
  <2>1. \A j \in 1..m : j \in 1..Len(o)
    BY <1>0
  <2> QED BY <2>1
<1>2. SubSeq(Append(o, e), 1, m) = [j \in 1..m |-> Append(o, e)[j]]
  OBVIOUS
<1>3. SubSeq(o, 1, m) = [j \in 1..m |-> o[j]]
  OBVIOUS
<1>4. m <= Len(Append(o, e))
  BY <1>0
<1> DEFINE w == Append(o, e)
<1> HIDE DEF w
<1>5. SubSeq(w, 1, m) = SubSeq(o, 1, m)
  BY <1>1, <1>2, <1>3 DEF w
<1> QED BY <1>4, <1>5 DEF w

\* A heading is no listing.
LEMMA HeadingAdds ==
  ASSUME Types, Started, NEW name, Heading(name) \in Entry
  PROVE  /\ Append(out, Heading(name)) \in Seq(Entry)
         /\ Listings(Append(out, Heading(name))) = Listings(out)
         /\ SubSeq(Append(out, Heading(name)), 1, start) = SubSeq(out, 1, start)
         /\ start <= Len(Append(out, Heading(name)))
<1> DEFINE h == Heading(name)
<1>1. h.what = "heading" /\ h \in Entry
  BY DEF Heading
<1>2. out \in Seq(Entry) /\ start \in Nat
  BY DEF Types
<1> HIDE DEF h
<1>3. Listings(Append(out, h)) = Listings(out)
  BY <1>1, <1>2, ListingsMore
<1> QED BY <1>1, <1>2, <1>3, SubSeqStays DEF Started, h

\* Outside of handle_macho_file nothing is listed.
LEMMA QuietSteps ==
  ASSUME Types, Types', Started, FatStep \/ ArchiveStep \/ EndFat \/ EndArchive
  PROVE  /\ Started' /\ Said' = Said /\ Listings(out') = Listings(out)
         /\ UNCHANGED <<req, n, start>>
<1>1. UNCHANGED <<req, n, start>>
  BY DEF FatStep, ArchiveStep, EndFat, EndArchive
<1>2. out' = out \/ \E arch, member : out' = Append(out, Heading(Name(arch, member)))
  <2>1. CASE FatStep
    <3>1. out' = out \/ (FatAdds /\ out' = out \o SliceHeading(Slice'.label, Slice'))
      BY <2>1, FatHandsOn
    <3> QED BY <2>1, <3>1, FatPrints
  <2>2. CASE ArchiveStep
    <3>1. out' = out \/ out' = out \o MemberHeading(pos)
      BY <2>2, ArchiveHandsOn
    <3> QED BY <3>1, ArchivePrints
  <2>3. CASE EndFat \/ EndArchive
    BY <2>3 DEF EndFat, EndArchive
  <2> QED BY <2>1, <2>2, <2>3
<1>3. CASE out' = out
  BY <1>1, <1>3 DEF Said, Started
<1>4. CASE \E arch, member : out' = Append(out, Heading(Name(arch, member)))
  <2>1. PICK arch, member : out' = Append(out, Heading(Name(arch, member)))
    BY <1>4
  <2> DEFINE h == Heading(Name(arch, member))
  <2>2. out \in Seq(Entry) /\ out' \in Seq(Entry)
    BY DEF Types
  <2>3. h \in Entry
    <3> HIDE DEF h
    <3>1. out' = Append(out, h)
      BY <2>1 DEF h
    <3>2. out'[Len(out) + 1] = h /\ Len(out) + 1 \in DOMAIN out'
      BY <2>2, <3>1
    <3> QED BY <2>2, <3>2
  <2> QED BY <1>1, <2>1, <2>3, HeadingAdds DEF Said, Started
<1> QED BY <1>2, <1>3, <1>4

\* The images that are printed are listed.
LEMMA MachoSays ==
  ASSUME Types, Started, handle_macho_file
  PROVE  /\ Started' /\ Said' = Said
         /\ \E accepted \in check_macho_file(Current) :
              Listings(out') = IF accepted /\ (req.bin = "nm" => Current.symtab)
                                 THEN Append(Listings(out), Origin) ELSE Listings(out)
<1>1. out \in Seq(Entry) /\ req.bin \in {"nm", "otool"} /\ start' = start /\ start \in Nat
      /\ mode = "macho"
  BY RequestIs DEF Types, handle_macho_file
<1>2. PICK accepted \in check_macho_file(Current) :
        out' = out \o (IF ~accepted THEN << >>
                       ELSE IF req.bin = "nm" THEN print_nm(Current) ELSE print_otool)
  BY DEF handle_macho_file
<1>3. CASE ~(accepted /\ (req.bin = "nm" => Current.symtab))
  <2>1. CASE ~accepted
    <3>1. out' = out
      BY <1>1, <1>2, <2>1
    <3> QED BY <1>1, <1>3, <3>1 DEF Said, Started
  <2>2. CASE accepted /\ req.bin = "nm" /\ ~Current.symtab
    <3>1. out' = out
      BY <1>1, <1>2, <2>2 DEF print_nm
    <3> QED BY <1>1, <1>3, <3>1 DEF Said, Started
  <2> QED BY <1>3, <2>1, <2>2
<1>4. CASE accepted /\ (req.bin = "nm" => Current.symtab)
  <2>1. \E l, h \in Entry : /\ l.what = "listing" /\ l.origin = Origin
                            /\ h.what = "heading"
                            /\ out' = Append(out, l) \/ out' = Append(Append(out, h), l)
    <3> DEFINE H1 == Heading(Name(<< >>, 0))
               L1 == Listing(Prefix)
               L2 == Listing(Nowhere)
    <3>1. /\ H1 \in Entry /\ L1 \in Entry /\ L2 \in Entry /\ OwnHeading \in Entry
      BY <1>1, PrintedTypes
    <3>2. /\ H1.what = "heading" /\ OwnHeading.what = "heading"
          /\ L1.what = "listing" /\ L1.origin = Origin
          /\ L2.what = "listing" /\ L2.origin = Origin
      BY DEF Heading, Listing, OwnHeading
    <3>3. CASE req.bin = "nm" /\ Several /\ Plain /\ "o" \notin req.flags
      <4>1. print_nm(Current) = <<H1>> \o <<L1>>
        BY <1>4, <3>3 DEF print_nm, NmHeading, Plain
      <4>2. out' = out \o print_nm(Current)
        BY <1>2, <1>4, <3>3
      <4> HIDE DEF H1, L1
      <4>3. print_nm(Current) = <<H1, L1>>
        BY <4>1, OneAndOne
      <4>4. out' = Append(Append(out, H1), L1)
        BY <1>1, <3>1, <4>2, <4>3
      <4> QED BY <3>1, <3>2, <4>4
    <3>4. CASE req.bin = "nm" /\ ~(Several /\ Plain /\ "o" \notin req.flags)
      <4>1. print_nm(Current) = << >> \o <<L1>>
        BY <1>4, <3>4 DEF print_nm, NmHeading, Plain
      <4>2. out' = out \o print_nm(Current)
        BY <1>2, <1>4, <3>4
      <4> HIDE DEF H1, L1
      <4>3. out' = Append(out, L1)
        BY <1>1, <3>1, <4>1, <4>2
      <4> QED BY <3>1, <3>2, <4>3
    <3>5. CASE req.bin = "otool"
      <4>1. print_otool = <<OwnHeading, L2>>
        BY DEF print_otool, OwnHeading
      <4>2. out' = out \o print_otool
        BY <1>2, <1>4, <3>5
      <4> HIDE DEF L2
      <4>3. out' = Append(Append(out, OwnHeading), L2)
        BY <1>1, <3>1, <4>1, <4>2
      <4> QED BY <3>1, <3>2, <4>3
    <3> QED BY <1>1, <3>3, <3>4, <3>5
  <2>2. PICK l, h \in Entry : /\ l.what = "listing" /\ l.origin = Origin
                              /\ h.what = "heading"
                              /\ out' = Append(out, l) \/ out' = Append(Append(out, h), l)
    BY <2>1
  <2> DEFINE o == Append(out, h)
  <2>3. o \in Seq(Entry) /\ Listings(o) = Listings(out)
        /\ SubSeq(o, 1, start) = SubSeq(out, 1, start) /\ start <= Len(o)
    BY <1>1, <2>2, ListingsMore, SubSeqStays DEF Started
  <2>4. CASE out' = Append(out, l)
    <3>1. /\ Listings(out') = Append(Listings(out), Origin)
          /\ SubSeq(out', 1, start) = SubSeq(out, 1, start) /\ start <= Len(out')
      BY <1>1, <2>2, <2>4, ListingsMore, SubSeqStays DEF Started
    <3> QED BY <1>1, <1>4, <3>1 DEF Said, Started
  <2>5. CASE out' = Append(Append(out, h), l)
    <3>0. out' = Append(o, l)
      BY <2>5
    <3> HIDE DEF o
    <3>1. /\ Listings(out') = Append(Listings(o), Origin)
          /\ SubSeq(out', 1, start) = SubSeq(o, 1, start) /\ start <= Len(out')
      BY <1>1, <2>2, <2>3, <3>0, ListingsMore, SubSeqStays
    <3> QED BY <1>1, <1>4, <2>3, <3>1 DEF Said, Started
  <2> QED BY <2>2, <2>4, <2>5
<1> QED BY <1>3, <1>4

\* Is an image asked for: yes, whatever else the flags name, when one names its
\* architecture, and no when none names its family.
LEMMA AskedIs ==
  ASSUME NEW r, NEW x, NEW asked \in check_archs_in_file(x.cputype, x.cpusubtype, r.archs)
  PROVE  /\ AllArchs(r.archs) \/ Exactly(r, x) => asked = TRUE
         /\ ~(AllArchs(r.archs) \/ Exactly(r, x)) /\ ~Family(r, x) => asked = FALSE
<1>1. CASE AllArchs(r.archs)
  BY <1>1 DEF check_archs_in_file
<1>2. CASE ~AllArchs(r.archs)
  <2> DEFINE R == {q \in [DOMAIN r.archs -> BOOLEAN] :
                     \A j \in DOMAIN r.archs :
                       q[j] \in check_arch_in_file(x.cputype, x.cpusubtype, r.archs, r.archs[j])}
  <2>1. check_archs_in_file(x.cputype, x.cpusubtype, r.archs) =
          {\E j \in DOMAIN r.archs : q[j] : q \in R}
    BY <1>2 DEF check_archs_in_file
  <2>2. PICK q \in R : asked = \E j \in DOMAIN r.archs : q[j]
    BY <2>1
  <2>3. /\ q \in [DOMAIN r.archs -> BOOLEAN]
        /\ \A j \in DOMAIN r.archs :
             q[j] \in check_arch_in_file(x.cputype, x.cpusubtype, r.archs, r.archs[j])
    BY <2>2
  <2> HIDE DEF R
  <2>4. ASSUME Exactly(r, x) PROVE asked = TRUE
    <3>1. PICK j \in DOMAIN r.archs : Cpu(Info(r.archs[j])) = Cpu(x)
      BY <2>4 DEF Exactly
    <3>2. check_arch_in_file(x.cputype, x.cpusubtype, r.archs, r.archs[j]) = {TRUE}
      BY <3>1 DEF check_arch_in_file, Cpu
    <3>3. q[j] = TRUE
      BY <2>3, <3>2
    <3> QED BY <2>2, <3>3
  <2>5. ASSUME ~Family(r, x) PROVE asked = FALSE
    <3>1. ASSUME NEW j \in DOMAIN r.archs PROVE q[j] = FALSE
      <4>1. Info(r.archs[j]).cputype # x.cputype
        BY <2>5 DEF Family
      <4>2. check_arch_in_file(x.cputype, x.cpusubtype, r.archs, r.archs[j]) = {FALSE}
        BY <4>1 DEF check_arch_in_file
      <4> QED BY <2>3, <4>2
    <3> QED BY <2>2, <3>1
  <2> QED BY <1>2, <2>4, <2>5
<1> QED BY <1>1, <1>2

AloneHere == Alone(req, n, Origin.slice, Origin.member, Current)

\* handle_macho_file answers for its image.
LEMMA MachoAnswers ==
  ASSUME Types, Started, handle_macho_file
  PROVE  \E z \in Seq(Places) :
           /\ Listings(out') = Listings(out) \o z
           /\ IF Labelled \/ InAr THEN z \in AloneHere ELSE z \in IfAsked(req, Current, AloneHere)
<1>0. /\ Listings(out) \in Seq(Origins) /\ mode = "macho" /\ Origin \in Places
      /\ req.bin \in {"nm", "otool"}
  BY SaidTypes, ShownTypes, RequestIs DEF handle_macho_file
<1>1. PICK accepted \in check_macho_file(Current) :
        Listings(out') = IF accepted /\ (req.bin = "nm" => Current.symtab)
                           THEN Append(Listings(out), Origin) ELSE Listings(out)
  BY MachoSays
<1> DEFINE here == IF Labelled \/ InAr THEN {TRUE}
                   ELSE check_archs_in_file(Current.cputype, Current.cpusubtype, req.archs)
<1>2. PICK asked \in here : accepted = (asked /\ (req.bin = "otool" \/ Current.ok))
  BY DEF check_macho_file
<1> DEFINE z == IF accepted /\ (req.bin = "nm" => Current.symtab) THEN <<Origin>> ELSE << >>
<1>3. z \in Seq(Places) /\ Listings(out') = Listings(out) \o z
  <2>1. Origin \in Origins
    BY <1>0 DEF Origins
  <2>2. /\ Listings(out) \o <<Origin>> = Append(Listings(out), Origin)
        /\ Listings(out) \o << >> = Listings(out)
    BY <1>0, <2>1
  <2> QED BY <1>0, <1>1, <2>2
<1>4. AloneHere = {IF Printed(req, Current) THEN <<Origin>> ELSE << >>}
  BY DEF AloneHere, Alone, Origin
<1>5. z = IF asked /\ Printed(req, Current) THEN <<Origin>> ELSE << >>
  BY <1>0, <1>2 DEF Printed
<1>6. CASE Labelled \/ InAr
  <2>1. z \in AloneHere
    BY <1>2, <1>4, <1>5, <1>6
  <2> HIDE DEF z
  <2> QED BY <1>3, <1>6, <2>1
<1>7. CASE ~(Labelled \/ InAr)
  <2>1. asked \in check_archs_in_file(Current.cputype, Current.cpusubtype, req.archs)
    BY <1>2, <1>7
  <2>2. /\ AllArchs(req.archs) \/ Exactly(req, Current) => asked = TRUE
        /\ ~(AllArchs(req.archs) \/ Exactly(req, Current)) /\ ~Family(req, Current) => asked = FALSE
    BY <2>1, AskedIs
  <2>3. z \in IfAsked(req, Current, AloneHere)
    <3> HIDE DEF z
    <3> QED BY <1>4, <1>5, <2>2 DEF IfAsked
  <2> HIDE DEF z
  <2> QED BY <1>3, <1>7, <2>3
<1> QED BY <1>6, <1>7

\* The slices in seq are done with, and a is what was said of them.
SlicesDone(seq, a) ==
  IF ~InFat THEN a = << >>
  ELSE /\ a \in FatAnswers(req, n, File, seq, Labels)
       /\ IF mode = "fat" THEN seq \in Considered
          ELSE /\ Append(seq, Slice.n) \in Considered /\ Fits(req, File, Slice.n)
               /\ Slice.label = Labels
               /\ mode = "macho" /\ ~InAr => Slices[Slice.n].kind # "ARCHIVE"

\* The members in h are done with, and y is what was said of them.
MembersDone(h, y) ==
  IF ~InAr THEN y = << >>
  ELSE /\ y \in MembersAnswer(req, n, Origin.slice, Archive, h)
       /\ ahanded = IF mode = "macho" THEN Append(h, Member) ELSE h

\* What was said of the current file so far is what is said of the slices and
\* members that are done with.
InFile ==
  mode # "main" =>
    \E seq \in Seq(SliceNumbers), h \in Seq(Nat), a \in Seq(Places), y \in Seq(Places) :
      SlicesDone(seq, a) /\ MembersDone(h, y) /\ Listings(out) = Said \o (a \o y)

WInv == /\ Types /\ SizesKept /\ FatSound /\ ArInv /\ Granted /\ Reaching /\ Started
        /\ InFile

\* No slice, nothing printed.
LEMMA NoSlices ==
  ASSUME NEW r, NEW i, NEW f, NEW lab, NEW seq, seq = << >>
  PROVE  FatAnswers(r, i, f, seq, lab) = {<< >>}
<1> DEFINE g == [j \in DOMAIN seq |-> SliceAnswers(r, i, f, seq[j], lab)]
<1>1. DOMAIN seq = {}
  OBVIOUS
<1>2. g = << >>
  BY <1>1
<1>3. g \in Seq(Choices)
  BY <1>2
<1> QED BY <1>2, <1>3, ConcatsMore DEF FatAnswers

\* One more slice prints what it would print alone.
LEMMA SliceAdds ==
  ASSUME SoundDisk, Types, InFat, NEW lab
  PROVE  \A seq \in Seq(SliceNumbers) :
           /\ FatAnswers(req, n, File, seq, lab) \in Choices
           /\ \A s \in SliceNumbers :
                /\ SliceAnswers(req, n, File, s, lab) \in Choices
                /\ FatAnswers(req, n, File, Append(seq, s), lab) =
                     Joined(FatAnswers(req, n, File, seq, lab),
                            SliceAnswers(req, n, File, s, lab))
<1>1. \A s \in SliceNumbers : SliceAnswers(req, n, File, s, lab) \in Choices
  <2> SUFFICES ASSUME NEW s \in SliceNumbers
               PROVE  SliceAnswers(req, n, File, s, lab) \in Choices
    OBVIOUS
  <2>1. s \in Nat /\ (s = 0 \/ s \in DOMAIN File.fat.archs)
    BY SoundFile DEF SliceNumbers, Slices
  <2>2. /\ req.files[n] \in DOMAIN Disk /\ Disk[req.files[n]].kind = "FAT" /\ n \in Nat
        /\ File = Disk[req.files[n]]
    BY SoundFile
  <2> QED BY <2>1, <2>2, SliceAnswersIs
<1> DEFINE S == SliceNumbers
<1>2. \A s \in S : SliceAnswers(req, n, File, s, lab) \in Choices
  BY <1>1
<1> HIDE DEF S
<1>3. ASSUME NEW seq \in Seq(S)
      PROVE  /\ FatAnswers(req, n, File, seq, lab) \in Choices
             /\ \A s \in S : FatAnswers(req, n, File, Append(seq, s), lab) =
                  Joined(FatAnswers(req, n, File, seq, lab),
                         SliceAnswers(req, n, File, s, lab))
  BY <1>2, SlicesMore, Zenon
<1> QED BY <1>2, <1>3, Zenon DEF S

\* The words of three are put together in any way.
LEMMA Associates ==
  ASSUME NEW w \in Seq(Origins), NEW a \in Seq(Places), NEW y \in Seq(Places),
         NEW z \in Seq(Places)
  PROVE  /\ (w \o (a \o y)) \o z = w \o (a \o (y \o z))
         /\ (w \o (a \o << >>)) \o z = w \o ((a \o z) \o << >>)
         /\ w \o (a \o y) = w \o ((a \o y) \o << >>)
         /\ w \o << >> = w /\ a \o << >> = a /\ << >> \o << >> = << >> /\ << >> \o y = y
         /\ a \o y \in Seq(Places) /\ y \o z \in Seq(Places) /\ a \o z \in Seq(Places)
<1>1. /\ a \in Seq(Origins) /\ y \in Seq(Origins) /\ z \in Seq(Origins)
  BY SeqMonotonic DEF Origins
<1>2. /\ a \o y \in Seq(Origins) /\ y \o z \in Seq(Origins)
      /\ a \o y \in Seq(Places) /\ y \o z \in Seq(Places) /\ a \o z \in Seq(Places)
  BY <1>1, ConcatProperties
<1>3. (w \o (a \o y)) \o z = w \o ((a \o y) \o z)
  <2> DEFINE v == a \o y
  <2>1. v \in Seq(Origins)
    BY <1>2
  <2> HIDE DEF v
  <2>2. (w \o v) \o z = w \o (v \o z)
    BY <1>1, <2>1, ConcatAssociative
  <2> QED BY <2>2 DEF v
<1>4. (a \o y) \o z = a \o (y \o z)
  BY <1>1, ConcatAssociative
<1>5. /\ w \o << >> = w /\ a \o << >> = a /\ << >> \o y = y /\ (a \o y) \o << >> = a \o y
      /\ (a \o z) \o << >> = a \o z
  BY <1>1, <1>2, ConcatEmptySeq
<1>6. << >> \o << >> = << >>
  OBVIOUS
<1>7. (w \o a) \o z = w \o (a \o z)
  BY <1>1, ConcatAssociative
<1> QED BY <1>2, <1>3, <1>4, <1>5, <1>6, <1>7

\* The last of three goes inwards.
LEMMA Inwards ==
  ASSUME NEW w \in Seq(Origins), NEW a \in Seq(Places), NEW y \in Seq(Places),
         NEW z \in Seq(Places)
  PROVE  (w \o (a \o y)) \o z = w \o (a \o (y \o z))
BY Associates

\* No member of an archive that was just entered is done with.
LEMMA NoneYet ==
  ASSUME EnterArchive, mode' = "archive"
  PROVE  MembersDone(<< >>, << >>)'
<1>1. ahanded' = << >>
  BY DEF EnterArchive
<1>2. ASSUME NEW h \in Seq(Nat), h = << >>
      PROVE  MembersAnswer(req', n', Origin'.slice, Archive', h) = {<< >>}
  BY <1>2, NoMembers
<1>3. << >> \in Seq(Nat)
  OBVIOUS
<1>4. MembersAnswer(req', n', Origin'.slice, Archive', << >>) = {<< >>}
  BY <1>2, <1>3
<1> QED BY <1>1, <1>4 DEF MembersDone

\* Nothing was said yet of a file that handle_file begins with.
LEMMA HandleFileInFile ==
  ASSUME Types, Types', Started, handle_file
  PROVE  InFile' /\ Started' /\ Said' = Listings(out) /\ req' = req /\ n' - 1 = n
         /\ mode = "main" /\ mode' # "main"
<1>1. /\ mode = "main" /\ ~InFat /\ ~InAr /\ n' = n + 1 /\ fpc = "idle" /\ apc = "idle"
      /\ req' = req /\ out' = out /\ start' = Len(out) /\ out \in Seq(Entry)
  BY NextFileIs DEF handle_file, NextFile, Types
<1>2. Started' /\ Said' = Listings(out) /\ Listings(out') = Said' /\ Said' \in Seq(Origins)
  <2>1. SubSeq(out', 1, start') = out
    BY <1>1, SubSeqFull
  <2>2. start' <= Len(out')
    BY <1>1
  <2>3. Listings(out) \in Seq(Origins)
    BY <1>1, ListingsMore
  <2> QED BY <1>1, <2>1, <2>2, <2>3 DEF Said, Started
<1>3. SlicesDone(<< >>, << >>)'
  <2>1. CASE EnterFat
    <3>1. fpc' \in {"check", "choose"} /\ mode' = "fat"
      <4>1. mode' # "archive" /\ mode' # "macho"
        BY <1>1, <2>1, EntersAs DEF EnterFat, fatVars
      <4> QED BY <2>1, <4>1, EntersAs DEF EnterFat
    <3>2. Considered' = {<< >>}
      BY <3>1 DEF Considered
    <3>3. FatAnswers(req', n', File', << >>, Labels') = {<< >>}
      BY NoSlices
    <3> QED BY <3>1, <3>2, <3>3 DEF SlicesDone
  <2>2. CASE UNCHANGED fatVars
    BY <1>1, <2>2 DEF SlicesDone, InFat, fatVars
  <2> QED BY <2>1, <2>2, EntersAs
<1>4. MembersDone(<< >>, << >>)'
  <2>1. CASE EnterArchive /\ mode' = "archive"
    BY <2>1, NoneYet
  <2>2. CASE UNCHANGED archiveVars
    BY <1>1, <2>2 DEF MembersDone, InAr, archiveVars
  <2> QED BY <2>1, <2>2, EntersAs
<1>5. InFile'
  <2>1. /\ << >> \in Seq(SliceNumbers') /\ << >> \in Seq(Nat) /\ << >> \in Seq(Places)
        /\ Listings(out') = Said' \o (<< >> \o << >>)
    BY <1>2, Associates
  <2> QED BY <1>3, <1>4, <2>1 DEF InFile
<1>6. n' - 1 = n /\ mode' # "main"
  <2>1. n \in Nat
    BY RequestIs DEF Types
  <2> QED BY <1>1, <2>1, EntersAs
<1> QED BY <1>1, <1>2, <1>5, <1>6

\* handle_fat_file goes on.
LEMMA FatStepInFile ==
  ASSUME SoundDisk, Types, Types', FatSound, Started, InFile, FatStep
  PROVE  InFile'
<1>0. /\ InFat /\ InFat' /\ ~InAr /\ mode = "fat" /\ req' = req /\ n' = n /\ File' = File
      /\ Slices' = Slices /\ SliceNumbers' = SliceNumbers
      /\ Said' = Said /\ Listings(out') = Listings(out) /\ fhanded \in Seq(F!HandedSlice)
  BY FatHandsOn, QuietSteps, SameFile DEF Slices, SliceNumbers
<1>1. PICK seq \in Seq(SliceNumbers), h \in Seq(Nat), a \in Seq(Places), y \in Seq(Places) :
        SlicesDone(seq, a) /\ MembersDone(h, y) /\ Listings(out) = Said \o (a \o y)
  BY <1>0 DEF InFile
<1>2. y = << >> /\ a \in FatAnswers(req, n, File, seq, Labels) /\ seq \in Considered
  BY <1>0, <1>1 DEF SlicesDone, MembersDone
<1>3. Considers(seq)
  BY <1>2, FatAdvances
<1>4. << >> \in Seq(Nat) /\ << >> \in Seq(Places)
      /\ Listings(out') = Said' \o (a \o << >>)
  BY <1>0, <1>1, <1>2
<1>5. ASSUME seq = << >> \/ Labels' = Labels
      PROVE  a \in FatAnswers(req, n, File, seq, Labels')
  <2>1. CASE seq = << >>
    BY <1>2, <2>1, NoSlices
  <2> QED BY <1>2, <1>5, <2>1
<1>6. CASE fhanded' = fhanded
  <2>1. UNCHANGED <<mode, archiveVars>>
    <3>1. ~FatAdds
      <4>1. \A e : fhanded # Append(fhanded, e)
        BY <1>0
      <4> QED BY <1>6, <4>1 DEF FatAdds
    <3> QED BY <3>1, FatHandsOn
  <2>2. MembersDone(<< >>, << >>)' /\ mode' = "fat"
    BY <1>0, <2>1 DEF MembersDone, InAr, archiveVars
  <2>3. ASSUME seq \in Considered', seq = << >> \/ Labels' = Labels
        PROVE  InFile'
    <3>1. SlicesDone(seq, a)'
      BY <1>0, <1>5, <2>2, <2>3 DEF SlicesDone
    <3> QED BY <1>0, <1>4, <2>2, <3>1 DEF InFile
  <2>4. ASSUME NEW s \in SliceNumbers, ~(s # 0 /\ Fits(req, File, s)),
               Append(seq, s) \in Considered', seq = << >> \/ Labels' = Labels
        PROVE  InFile'
    <3>1. SliceAnswers(req, n, File, s, Labels') = {<< >>}
      BY <2>4 DEF SliceAnswers
    <3>2. FatAnswers(req, n, File, Append(seq, s), Labels') =
            Joined(FatAnswers(req, n, File, seq, Labels'), {<< >>})
      BY <1>0, <3>1, SliceAdds
    <3>3. a \o << >> \in FatAnswers(req, n, File, Append(seq, s), Labels')
      BY <1>5, <2>4, <3>2, JoinedHas
    <3>4. a \o << >> = a
      OBVIOUS
    <3>5. SlicesDone(Append(seq, s), a)'
      BY <1>0, <2>2, <2>4, <3>3, <3>4 DEF SlicesDone
    <3>6. Append(seq, s) \in Seq(SliceNumbers')
      BY <1>0, <2>4
    <3> QED BY <1>4, <2>2, <3>5, <3>6 DEF InFile
  <2>5. fhanded' # fhanded => FALSE
    BY <1>6
  <2>6. ASSUME NEW e, fhanded' = Append(fhanded, e) PROVE FALSE
    <3>1. Append(fhanded, e) # fhanded
      BY <1>0
    <3> QED BY <1>6, <2>6, <3>1
  <2> QED BY <1>3, <2>3, <2>4, <2>6, Zenon DEF Considers
<1>7. CASE fhanded' # fhanded
  <2>1. PICK s \in SliceNumbers, e \in F!HandedSlice :
          /\ Append(seq, s) \in Considered' /\ (seq = << >> \/ Labels' = Labels)
          /\ s # 0 /\ Fits(req, File, s)
          /\ fhanded' = Append(fhanded, e) /\ e.n = s /\ e.label = Labels'
    BY <1>3, <1>7, Zenon DEF Considers
  <2>2. Slice' = e /\ Len(fhanded') # Len(fhanded)
    BY <1>0, <2>1 DEF Slice
  <2>3. Kind = Slices[s].kind
    BY <2>1, <2>2 DEF Kind, Slice, Slices
  <2>4. \/ mode' = "archive" /\ EnterArchive
        \/ Kind # "ARCHIVE" /\ mode' = "macho" /\ UNCHANGED archiveVars
    <3>1. CASE Kind = "ARCHIVE"
      BY <2>2, <3>1, Zenon DEF FatStep
    <3>2. CASE Kind # "ARCHIVE"
      BY <2>2, <3>2, Zenon DEF FatStep
    <3> QED BY <3>1, <3>2
  <2>5. SlicesDone(seq, a)'
    <3>1. mode' # "fat"
      BY <2>4
    <3>2. mode' = "macho" /\ ~InAr' => Slices'[Slice'.n].kind # "ARCHIVE"
      BY <1>0, <2>1, <2>2, <2>3, <2>4
    <3> QED BY <1>0, <1>5, <2>1, <2>2, <3>1, <3>2 DEF SlicesDone
  <2>6. MembersDone(<< >>, << >>)'
    <3>1. CASE mode' = "archive" /\ EnterArchive
      BY <3>1, NoneYet
    <3>2. CASE UNCHANGED archiveVars
      BY <1>0, <3>2 DEF MembersDone, InAr, archiveVars
    <3> QED BY <2>4, <3>1, <3>2
  <2> QED BY <1>0, <1>4, <2>5, <2>6 DEF InFile
<1> QED BY <1>6, <1>7

\* handle_archive_file goes on.
LEMMA ArchiveStepInFile ==
  ASSUME Types, Types', Started, InFile, ArchiveStep
  PROVE  InFile'
<1>0. /\ req' = req /\ n' = n /\ UNCHANGED fatVars /\ InAr /\ InAr' /\ InFat' = InFat
      /\ mode = "archive" /\ File' = File
      /\ Said' = Said /\ Listings(out') = Listings(out) /\ ahanded \in Seq(Nat)
  BY ArchiveHandsOn, QuietSteps
<1>1. /\ Slices' = Slices /\ SliceNumbers' = SliceNumbers /\ Slice' = Slice /\ Archive' = Archive
      /\ Origin'.slice = Origin.slice /\ Considered' = Considered /\ Labels' = Labels
  BY <1>0 DEF Slices, SliceNumbers, Slice, Archive, Origin, Considered, Labels, fatVars
<1>2. PICK seq \in Seq(SliceNumbers), h \in Seq(Nat), a \in Seq(Places), y \in Seq(Places) :
        SlicesDone(seq, a) /\ MembersDone(h, y) /\ Listings(out) = Said \o (a \o y)
  BY <1>0 DEF InFile
<1>3. mode' \in {"archive", "macho"}
  BY <1>0, ArchiveHandsOn
<1>4. SlicesDone(seq, a)'
  BY <1>0, <1>1, <1>2, <1>3 DEF SlicesDone
<1>5. MembersDone(h, y)'
  <2>1. h = ahanded /\ y \in MembersAnswer(req, n, Origin.slice, Archive, h)
    BY <1>0, <1>2 DEF MembersDone
  <2>2. ahanded' = IF mode' = "macho" THEN Append(h, Member') ELSE h
    <3>1. CASE ahanded' = ahanded /\ mode' = mode
      BY <1>0, <2>1, <3>1
    <3>2. CASE ahanded' = Append(ahanded, pos) /\ mode' = "macho"
      <4>1. Member' = pos
        BY <1>0, <3>2 DEF Member
      <4> QED BY <2>1, <3>2, <4>1
    <3> QED BY <3>1, <3>2, ArchiveHandsOn
  <2> QED BY <1>0, <1>1, <2>1, <2>2 DEF MembersDone
<1> QED BY <1>0, <1>1, <1>2, <1>4, <1>5 DEF InFile

\* What is said of a slice goes behind what is said of the slices before it.
LEMMA SliceDone ==
  ASSUME SoundDisk, Types, InFat, mode # "fat", NEW seq \in Seq(SliceNumbers), NEW a,
         SlicesDone(seq, a), NEW s, s = Slice.n,
         NEW z \in WholeSlice(req, n, File, s, Labels),
         UNCHANGED <<req, n, fatVars>>, mode' = "fat"
  PROVE  SlicesDone(Append(seq, s), a \o z)' /\ Append(seq, s) \in Seq(SliceNumbers')
<1>1. /\ s \in SliceNumbers /\ s # 0
      /\ a \in FatAnswers(req, n, File, seq, Labels)
      /\ Append(seq, s) \in Considered /\ Fits(req, File, s)
  <2>1. Slice.n \in DOMAIN File.fat.archs /\ DOMAIN Slices = 1..F!N
    BY CurrentSlice, SoundFile
  <2> QED BY <2>1 DEF SlicesDone, SliceNumbers, Slices
<1>2. /\ File' = File /\ Slices' = Slices /\ SliceNumbers' = SliceNumbers /\ Labels' = Labels
      /\ Considered' = Considered /\ InFat'
  BY DEF File, Slices, SliceNumbers, Labels, Considered, InFat, fatVars
<1>3. SliceAnswers(req, n, File, s, Labels) = WholeSlice(req, n, File, s, Labels)
  BY <1>1 DEF SliceAnswers
<1>4. z \in SliceAnswers(req, n, File, s, Labels)
  BY <1>3
<1>5. a \o z \in FatAnswers(req, n, File, Append(seq, s), Labels)
  <2>1. FatAnswers(req, n, File, Append(seq, s), Labels) =
          Joined(FatAnswers(req, n, File, seq, Labels), SliceAnswers(req, n, File, s, Labels))
    BY <1>1, SliceAdds
  <2> QED BY <1>1, <1>4, <2>1, JoinedHas
<1>6. Append(seq, s) \in Seq(SliceNumbers')
  BY <1>1, <1>2
<1>7. SlicesDone(Append(seq, s), a \o z)'
  BY <1>1, <1>2, <1>5 DEF SlicesDone
<1> QED BY <1>6, <1>7

\* An image of an archive or of a fat file is done with.
LEMMA MachoInFile ==
  ASSUME SoundDisk, Types, Types', Started, InFile, handle_macho_file, InFat \/ InAr
  PROVE  InFile'
<1>0. /\ mode = "macho" /\ UNCHANGED <<req, n, start, fatVars, archiveVars>>
      /\ mode' = (IF InAr THEN "archive" ELSE IF InFat THEN "fat" ELSE "main")
      /\ Said' = Said /\ Said \in Seq(Origins)
  BY MachoSays, SaidTypes DEF handle_macho_file
<1>1. /\ File' = File /\ Slices' = Slices /\ SliceNumbers' = SliceNumbers /\ Slice' = Slice
      /\ InFat' = InFat /\ InAr' = InAr /\ Archive' = Archive /\ Member' = Member
      /\ Origin'.slice = Origin.slice /\ Considered' = Considered /\ Labels' = Labels
  BY <1>0 DEF File, Slices, SliceNumbers, Slice, InFat, InAr, Archive, Member, Origin,
              Considered, Labels, fatVars, archiveVars
<1>2. PICK seq \in Seq(SliceNumbers), h \in Seq(Nat), a \in Seq(Places), y \in Seq(Places) :
        SlicesDone(seq, a) /\ MembersDone(h, y) /\ Listings(out) = Said \o (a \o y)
  BY <1>0 DEF InFile
<1>3. PICK z \in Seq(Places) :
        /\ Listings(out') = Listings(out) \o z
        /\ IF Labelled \/ InAr THEN z \in AloneHere ELSE z \in IfAsked(req, Current, AloneHere)
  BY MachoAnswers
<1>4. CASE InAr
  <2>1. z \in Alone(req, n, Origin.slice, Member, Archive.images[Member])
    BY <1>3, <1>4 DEF AloneHere, Origin, Current
  <2>2. n \in Nat /\ Origin.slice \in Nat /\ Member \in Nat
    BY <1>0, <1>4, MemberIs, ShownTypes DEF Places
  <2>3. h \in Seq(Nat) /\ y \in MembersAnswer(req, n, Origin.slice, Archive, h)
        /\ ahanded = Append(h, Member)
    BY <1>0, <1>2, <1>4 DEF MembersDone
  <2>4. y \o z \in MembersAnswer(req, n, Origin.slice, Archive, Append(h, Member))
    <3>1. MembersAnswer(req, n, Origin.slice, Archive, Append(h, Member)) =
            Joined(MembersAnswer(req, n, Origin.slice, Archive, h),
                   Alone(req, n, Origin.slice, Member, Archive.images[Member]))
      BY <2>2, <2>3, MembersMore
    <3> QED BY <2>1, <2>3, <3>1, JoinedHas
  <2>5. MembersDone(Append(h, Member), y \o z)'
    BY <1>0, <1>1, <1>4, <2>3, <2>4 DEF MembersDone, archiveVars
  <2>6. SlicesDone(seq, a)'
    BY <1>0, <1>1, <1>2, <1>4 DEF SlicesDone
  <2>7. Append(h, Member) \in Seq(Nat) /\ y \o z \in Seq(Places)
    BY <1>0, <2>2, <2>3, Associates
  <2>8. Listings(out') = Said' \o (a \o (y \o z))
    <3>1. \A w \in Seq(Origins) : (w \o (a \o y)) \o z = w \o (a \o (y \o z))
      BY Inwards
    <3> QED BY <1>0, <1>2, <1>3, <3>1
  <2> QED BY <1>1, <2>5, <2>6, <2>7, <2>8 DEF InFile
<1>5. CASE ~InAr
  <2>0. InFat /\ mode' = "fat" /\ y = << >>
    BY <1>0, <1>2, <1>5 DEF MembersDone
  <2>1. /\ AloneHere = Alone(req, n, Slice.n, 0, File.inner[Slice.n])
        /\ Current = File.inner[Slice.n]
    BY <1>5, <2>0 DEF AloneHere, Origin, Current
  <2>2. /\ Slice.label = Labels /\ Slices[Slice.n].kind # "ARCHIVE" /\ (Labelled <=> Labels)
    BY <1>0, <1>2, <1>5, <2>0 DEF SlicesDone, Labelled
  <2>3. z \in WholeSlice(req, n, File, Slice.n, Labels)
    BY <1>3, <1>5, <2>1, <2>2 DEF WholeSlice, Slices
  <2>4. PICK s : s = Slice.n
    OBVIOUS
  <2>7. SlicesDone(Append(seq, s), a \o z)' /\ Append(seq, s) \in Seq(SliceNumbers')
    BY <1>0, <1>2, <2>0, <2>3, <2>4, SliceDone
  <2>5. MembersDone(h, << >>)'
    BY <1>1, <1>5 DEF MembersDone
  <2>6. a \o z \in Seq(Places) /\ << >> \in Seq(Places)
        /\ Listings(out') = Said' \o ((a \o z) \o << >>)
    BY <1>0, <1>2, <1>3, <2>0, Associates
  <2> QED BY <2>0, <2>5, <2>6, <2>7 DEF InFile
<1> QED BY <1>4, <1>5

\* What an archive said.
LEMMA EndArchiveSaid ==
  ASSUME SoundDisk, Types, SizesKept, ArInv, EndArchive, NEW h \in Seq(Nat), NEW y,
         MembersDone(h, y)
  PROVE  IF InFat THEN /\ y \in WholeArchive(req, n, Slice.n, File.inner[Slice.n], Labelled)
                       /\ Slices[Slice.n].kind = "ARCHIVE"
         ELSE /\ File.kind = "ARCHIVE"
              /\ y \in WholeArchive(req, n, 0, File.ar, FALSE)
<1>1. mode = "archive" /\ InAr /\ apc \in {"done", "refused"}
  BY DEF EndArchive, Types, Modes
<1>2. /\ Archive \in OnDisk
      /\ Archive = IF InFat THEN File.inner[Slice.n] ELSE File.ar
      /\ IF InFat THEN Slices[Slice.n].kind = "ARCHIVE" ELSE File.kind = "ARCHIVE"
  BY <1>1, ArchiveOnDisk
<1>3. SoundArchive(Archive) /\ IsArchive(Archive) /\ ArchiveInv
  BY <1>1, <1>2, OnDiskIs DEF ArInv
<1>4. h = ahanded /\ y \in MembersAnswer(req, n, Origin.slice, Archive, ahanded)
  BY <1>1 DEF MembersDone
<1>5. n \in Nat /\ req.bin \in {"nm", "otool"} /\ Origin.slice \in Nat
      /\ Origin.slice = IF InFat THEN Slice.n ELSE 0
  <2>1. Origin.slice = IF InFat THEN Slice.n ELSE 0
    BY DEF Origin
  <2>2. InFat => Slice.n \in Nat
    BY <1>1, CurrentSlice
  <2> QED BY <2>1, <2>2, RequestIs DEF Types
<1>6. y \in WholeArchive(req, n, Origin.slice, Archive, Labelled)
  BY <1>1, <1>3, <1>4, <1>5, ArchiveSaid
<1>7. ~InFat => Labelled = FALSE
  BY DEF Labelled
<1> QED BY <1>2, <1>5, <1>6, <1>7

\* An archive in a fat file is done with.
LEMMA EndArchiveInFile ==
  ASSUME SoundDisk, Types, Types', Started, SizesKept, ArInv, InFile, EndArchive, InFat
  PROVE  InFile'
<1>0. /\ mode = "archive" /\ mode' = "fat" /\ apc' = "idle" /\ ~InAr'
      /\ UNCHANGED <<req, n, out, start, fatVars>>
      /\ Said' = Said /\ Listings(out') = Listings(out) /\ Said \in Seq(Origins)
  BY QuietSteps, SaidTypes DEF EndArchive, InAr
<1>1. PICK seq \in Seq(SliceNumbers), h \in Seq(Nat), a \in Seq(Places), y \in Seq(Places) :
        SlicesDone(seq, a) /\ MembersDone(h, y) /\ Listings(out) = Said \o (a \o y)
  BY <1>0 DEF InFile
<1>2. /\ y \in WholeArchive(req, n, Slice.n, File.inner[Slice.n], Labelled)
      /\ Slices[Slice.n].kind = "ARCHIVE"
  BY <1>1, EndArchiveSaid
<1>3. Labelled = Labels
  BY <1>0, <1>1, CurrentSlice DEF SlicesDone, Labelled
<1>4. y \in WholeSlice(req, n, File, Slice.n, Labels)
  BY <1>2, <1>3 DEF WholeSlice, Slices
<1>s. PICK s : s = Slice.n
  OBVIOUS
<1>5. SlicesDone(Append(seq, s), a \o y)' /\ Append(seq, s) \in Seq(SliceNumbers')
  BY <1>0, <1>1, <1>4, <1>s, SliceDone
<1>6. MembersDone(h, << >>)'
  BY <1>0 DEF MembersDone
<1>7. a \o y \in Seq(Places) /\ << >> \in Seq(Places)
      /\ Listings(out') = Said' \o ((a \o y) \o << >>)
  BY <1>0, <1>1, Associates
<1> QED BY <1>5, <1>6, <1>7 DEF InFile

-----------------------------------------------------------------------------
(* Every step *)

\* FatSound is inductive.
LEMMA StepFatSound ==
  ASSUME SoundDisk, Types, FatSound, [Next]_vars
  PROVE  FatSound'
<1>1. CASE FatStep
  BY <1>1, FatStepSound
<1>2. CASE fpc' = "idle"
  BY <1>2 DEF FatSound, InFat
<1>3. CASE UNCHANGED <<req, n, fpc, fi>>
  <2>1. Slices' = Slices /\ InFat' = InFat
    BY <1>3 DEF Slices, File, InFat
  <2> QED BY <1>3, <2>1 DEF FatSound
<1>4. CASE CannotOpen \/ CannotMap \/ NotAnObject \/ handle_file
  <2>1. fpc = "idle"
    BY <1>4, NextFileIs DEF CannotOpen, CannotMap, NotAnObject, handle_file
  <2>2. CASE handle_file
    <3>1. CASE EnterFat
      <4>1. /\ fpc' = (IF req'.bin = "nm" THEN "check" ELSE "choose") /\ fi' = 0
        BY <2>2, <3>1 DEF EnterFat, handle_file, NextFile
      <4>2. Refused(req', Slices') => req'.bin = "nm"
        BY DEF Refused
      <4> QED BY <4>1, <4>2 DEF FatSound
    <3>2. CASE UNCHANGED fatVars
      BY <1>2, <2>1, <3>2 DEF fatVars
    <3> QED BY <2>2, <3>1, <3>2, EntersAs
  <2>3. CASE ~handle_file
    BY <1>2, <1>4, <2>1, <2>3 DEF CannotOpen, CannotMap, NotAnObject, fatVars
  <2> QED BY <2>2, <2>3
<1>5. CASE EndFat
  BY <1>2, <1>5 DEF EndFat
<1>6. CASE ArchiveStep \/ EndArchive \/ handle_macho_file \/ UNCHANGED vars
  BY <1>3, <1>6 DEF ArchiveStep, EndArchive, handle_macho_file, vars, fatVars
<1> QED BY <1>1, <1>4, <1>5, <1>6 DEF Next, Step

\* What was printed before the current file is never more than all there is.
LEMMA StepStarted ==
  ASSUME Types, Types', Started, [Next]_vars
  PROVE  Started'
<1>1. CASE CannotOpen \/ CannotMap \/ NotAnObject \/ handle_file
  <2>1. start' = Len(out) /\ out' = out /\ Len(out) \in Nat
    BY <1>1 DEF CannotOpen, CannotMap, NotAnObject, handle_file, NextFile, Types
  <2> QED BY <2>1 DEF Started
<1>2. CASE FatStep \/ ArchiveStep \/ EndFat \/ EndArchive
  BY <1>2, QuietSteps
<1>3. CASE handle_macho_file
  BY <1>3, MachoSays
<1>4. CASE UNCHANGED vars
  BY <1>4 DEF vars, Started
<1> QED BY <1>1, <1>2, <1>3, <1>4 DEF Next, Step

\* InFile is inductive: what is said of a file is said slice by slice and member by
\* member, and nothing else comes in between.
LEMMA StepInFile ==
  ASSUME SoundDisk, Types, Types', SizesKept, FatSound, ArInv, Started, InFile, [Next]_vars
  PROVE  InFile'
<1>1. CASE mode' = "main"
  BY <1>1 DEF InFile
<1>2. CASE CannotOpen \/ CannotMap \/ NotAnObject
  <2>1. mode' = "main"
    BY <1>2, NextFileIs DEF CannotOpen, CannotMap, NotAnObject
  <2> QED BY <1>1, <2>1
<1>3. CASE handle_file
  BY <1>3, HandleFileInFile
<1>4. CASE FatStep
  BY <1>4, FatStepInFile
<1>5. CASE EndFat
  BY <1>1, <1>5 DEF EndFat
<1>6. CASE ArchiveStep
  BY <1>6, ArchiveStepInFile
<1>7. CASE EndArchive
  BY <1>1, <1>7, EndArchiveInFile DEF EndArchive
<1>8. CASE handle_macho_file
  BY <1>1, <1>8, MachoInFile DEF handle_macho_file
<1>9. CASE UNCHANGED vars
  <2>1. UNCHANGED <<req, n, mode, out, start, fatVars, archiveVars>>
    BY <1>9 DEF vars
  <2>2. /\ SliceNumbers' = SliceNumbers /\ Said' = Said
        /\ \A seq, a : SlicesDone(seq, a)' <=> SlicesDone(seq, a)
        /\ \A h, y : MembersDone(h, y)' <=> MembersDone(h, y)
    BY <2>1 DEF SliceNumbers, Said, SlicesDone, MembersDone, Slices, File, Slice, Considered,
                Labels, Origin, Member, Archive, InFat, InAr, fatVars, archiveVars
  <2> QED BY <2>1, <2>2 DEF InFile
<1> QED BY <1>2, <1>3, <1>4, <1>5, <1>6, <1>7, <1>8, <1>9 DEF Next, Step

\* The inductive invariant.
LEMMA InitWInv ==
  ASSUME Init
  PROVE  WInv
<1>1. /\ mode = "main" /\ fpc = "idle" /\ apc = "idle" /\ ~InFat /\ ~InAr
      /\ out = << >> /\ start = 0 /\ n = 0 /\ fds = 0
  BY DEF Init, InFat, InAr
<1>2. Granted
  <2>1. Directories(req, n) = 0
    BY <1>1, DirectoriesMore
  <2> QED BY <1>1, <2>1, MaxFdsAssumption DEF Granted
<1>3. Started
  BY <1>1 DEF Started
<1> QED BY <1>1, <1>2, <1>3, InitTypes
    DEF WInv, SizesKept, FatSound, ArInv, Reaching, InFile

\* No step leaves the invariant.
LEMMA StepWInv ==
  ASSUME SoundDisk
  PROVE  WInv /\ [Next]_vars => WInv'
<1> SUFFICES ASSUME WInv, [Next]_vars PROVE WInv'
  OBVIOUS
<1>1. Types /\ Types' /\ SizesKept'
  BY StepTypes, StepSizesKept DEF WInv
<1>2. ArInv'
  BY <1>1, StepArInv DEF WInv
<1>3. FatSound' /\ Granted' /\ Reaching' /\ Started'
  BY <1>1, StepFatSound, StepGranted, StepReaching, StepStarted DEF WInv
<1>4. InFile'
  BY <1>1, StepInFile DEF WInv
<1> QED BY <1>1, <1>2, <1>3, <1>4 DEF WInv

-----------------------------------------------------------------------------
(* The report *)

Answered == IF mode = "main" THEN n ELSE n - 1
Reported == Listings(IF mode = "main" THEN out ELSE SubSeq(out, 1, start))

\* What makes a step an answer,
LEMMA AnswerIs ==
  ASSUME req' = req, Answered < Len(req.files), Answered' = Answered + 1,
         NEW a \in Whole(req, Answered + 1), Reported' = Reported \o a
  PROVE  Promise!Answer
BY DEF Promise!Answer, Answered, Reported

\* and what makes it none.
LEMMA NoAnswerIs ==
  ASSUME req' = req, Answered' = Answered, Reported' = Reported
  PROVE  UNCHANGED Promise!rvars
BY DEF Promise!rvars, Answered, Reported

\* A file that is passed over has nothing to say.
LEMMA PassedOver ==
  ASSUME Types, Granted, CannotOpen \/ CannotMap \/ NotAnObject
  PROVE  Promise!Answer
<1>0. /\ mode = "main" /\ mode' = "main" /\ n' = n + 1 /\ req' = req /\ out' = out
      /\ n < Len(req.files) /\ n \in Nat /\ out \in Seq(Entry) /\ Len(req.files) \in Nat
  BY NextFileIs, RequestIs DEF CannotOpen, CannotMap, NotAnObject, Types
<1>1. Upcoming = FileOf(req, n + 1) /\ (n + 1) - 1 = n /\ Upcoming.kind \in {"MH", "FAT", "ARCHIVE", "UNKNOWN"}
  <2>1. n + 1 \in 1..Len(req.files)
    BY <1>0
  <2>2. req.files[n + 1] \in DOMAIN Disk
    BY <2>1, RequestIs
  <2> QED BY <1>0, <2>2, DiskAssumption DEF Upcoming, FileOf
<1>2. Whole(req, n + 1) = {<< >>}
  <2>1. CASE CannotOpen
    <3>1. Upcoming.access # "ok" \/ ~(Directories(req, n) < MaxFds)
      <4>1. Upcoming.access = "noopen" \/ ~(fds < MaxFds)
        BY <2>1 DEF CannotOpen, Opens
      <4> QED BY <1>0, <4>1, DirectoriesMore, MaxFdsAssumption DEF Granted
    <3>2. ~Reached(req, n + 1)
      BY <1>1, <3>1 DEF Reached
    <3> QED BY <3>2 DEF Whole
  <2>2. CASE CannotMap
    <3>1. ~Reached(req, n + 1)
      BY <1>1, <2>2 DEF CannotMap, Reached
    <3> QED BY <3>1 DEF Whole
  <2>3. CASE NotAnObject
    <3>1. \/ Upcoming.access # "ok"
          \/ Upcoming.kind = "UNKNOWN"
          \/ req.bin = "otool" /\ Upcoming.kind = "MH" /\ Upcoming.small
      BY <2>3 DEF NotAnObject, IsObject
    <3>2. CASE Upcoming.access # "ok"
      BY <1>1, <3>2 DEF Whole, Reached
    <3>3. CASE Upcoming.kind = "UNKNOWN"
      BY <1>1, <3>3 DEF Whole
    <3>4. CASE req.bin = "otool" /\ Upcoming.kind = "MH" /\ Upcoming.small
      BY <1>1, <3>4 DEF Whole
    <3> QED BY <3>1, <3>2, <3>3, <3>4
  <2> QED BY <2>1, <2>2, <2>3
<1>3. Answered = n /\ Answered' = n + 1 /\ Reported' = Reported /\ Reported \in Seq(Origins)
  BY <1>0, ListingsMore DEF Answered, Reported
<1>4. Reported' = Reported \o << >>
  BY <1>3
<1>5. << >> \in Whole(req, Answered + 1)
  BY <1>2, <1>3
<1> QED BY <1>0, <1>3, <1>4, <1>5, AnswerIs

\* A file that was handled has said what it would say alone.
LEMMA HandledOver ==
  ASSUME Types, mode # "main", mode' = "main", UNCHANGED <<req, n>>,
         NEW w \in Whole(req, n), Listings(out') = Said \o w
  PROVE  Promise!Answer
<1>1. n \in Nat /\ n # 0 /\ n <= Len(req.files) /\ Len(req.files) \in Nat
  BY RequestIs DEF Types
<1>2. Answered = n - 1 /\ Answered' = n /\ Answered + 1 = n
  BY <1>1 DEF Answered
<1>3. Reported' = Reported \o w
  BY DEF Reported, Said
<1>4. w \in Whole(req, Answered + 1)
  BY <1>2
<1>5. Answered < Len(req.files) /\ Answered' = Answered + 1
  BY <1>1, <1>2
<1> QED BY <1>3, <1>4, <1>5, AnswerIs

\* What is said of the file when it is done with.
LEMMA FatIsDone ==
  ASSUME Types, FatSound, Reaching, Started, InFile, EndFat
  PROVE  \E w \in Whole(req, n) : Listings(out') = Said \o w
<1>0. /\ mode = "fat" /\ fpc \in {"done", "refused"} /\ out' = out /\ InFat /\ ~InAr
      /\ File.kind = "FAT" /\ Reached(req, n) /\ File = FileOf(req, n)
      /\ Said \in Seq(Origins)
  BY SaidTypes DEF EndFat, Reaching, Types, Modes, InFat, File, FileOf
<1>1. PICK seq \in Seq(SliceNumbers), h \in Seq(Nat), a \in Seq(Places), y \in Seq(Places) :
        SlicesDone(seq, a) /\ MembersDone(h, y) /\ Listings(out) = Said \o (a \o y)
  BY <1>0 DEF InFile
<1>2. /\ y = << >> /\ a \in FatAnswers(req, n, File, seq, Labels) /\ seq \in Considered
  BY <1>0, <1>1 DEF SlicesDone, MembersDone
<1>3. Listings(out') = Said \o a
  BY <1>0, <1>1, <1>2
<1>4. Whole(req, n) = WholeFat(req, n, File)
  BY <1>0 DEF Whole
<1>5. a \in WholeFat(req, n, File)
  <2>1. CASE fpc = "done"
    <3>1. ~Refused(req, Slices) /\ seq \in Chosen(req, Slices).seqs
          /\ Labels = Chosen(req, Slices).labelled
      BY <1>0, <1>2, <2>1 DEF FatSound, Considered, Labels
    <3> QED BY <1>2, <3>1 DEF WholeFat, Slices
  <2>2. CASE fpc = "refused"
    <3>1. Refused(req, Slices) /\ seq = << >>
      BY <1>0, <1>2, <2>2 DEF FatSound, Considered
    <3>2. a = << >>
      BY <1>2, <3>1, NoSlices
    <3> QED BY <3>1, <3>2 DEF WholeFat, Slices
  <2> QED BY <1>0, <2>1, <2>2
<1> QED BY <1>3, <1>4, <1>5

\* An archive that is a file of its own,
LEMMA ArchiveIsDone ==
  ASSUME SoundDisk, Types, SizesKept, ArInv, Reaching, Started, InFile, EndArchive, ~InFat
  PROVE  \E w \in Whole(req, n) : Listings(out') = Said \o w
<1>0. /\ mode = "archive" /\ out' = out /\ Reached(req, n) /\ File = FileOf(req, n)
      /\ Said \in Seq(Origins)
  BY SaidTypes DEF EndArchive, Reaching, File, FileOf
<1>1. PICK seq \in Seq(SliceNumbers), h \in Seq(Nat), a \in Seq(Places), y \in Seq(Places) :
        SlicesDone(seq, a) /\ MembersDone(h, y) /\ Listings(out) = Said \o (a \o y)
  BY <1>0 DEF InFile
<1>2. a = << >> /\ File.kind = "ARCHIVE" /\ y \in WholeArchive(req, n, 0, File.ar, FALSE)
  BY <1>1, EndArchiveSaid DEF SlicesDone
<1>3. Listings(out') = Said \o y
  BY <1>0, <1>1, <1>2
<1> QED BY <1>0, <1>2, <1>3 DEF Whole

\* and an image that is one.
LEMMA ImageIsDone ==
  ASSUME Types, Reaching, Started, InFile, handle_macho_file, ~InFat, ~InAr
  PROVE  \E w \in Whole(req, n) : Listings(out') = Said \o w
<1>0. /\ mode = "macho" /\ Reached(req, n) /\ File = FileOf(req, n)
      /\ File.kind = "MH" /\ ~(req.bin = "otool" /\ File.small)
      /\ Said \in Seq(Origins)
  BY SaidTypes DEF handle_macho_file, Reaching, File, FileOf
<1>1. PICK seq \in Seq(SliceNumbers), h \in Seq(Nat), a \in Seq(Places), y \in Seq(Places) :
        SlicesDone(seq, a) /\ MembersDone(h, y) /\ Listings(out) = Said \o (a \o y)
  BY <1>0 DEF InFile
<1>2. Listings(out) = Said
  BY <1>0, <1>1 DEF SlicesDone, MembersDone
<1>3. PICK z \in Seq(Places) :
        /\ Listings(out') = Listings(out) \o z
        /\ IF Labelled \/ InAr THEN z \in AloneHere ELSE z \in IfAsked(req, Current, AloneHere)
  BY MachoAnswers
<1>4. AloneHere = Alone(req, n, 0, 0, File.image) /\ Current = File.image /\ ~Labelled
  BY DEF AloneHere, Origin, Current, Labelled
<1> QED BY <1>0, <1>2, <1>3, <1>4 DEF Whole

\* Every step answers one file or none.
LEMMA StepAnswers ==
  ASSUME SoundDisk
  PROVE  WInv /\ [Next]_vars => [Promise!Answer]_(Promise!rvars)
<1> SUFFICES ASSUME WInv, [Next]_vars PROVE Promise!Answer \/ UNCHANGED Promise!rvars
  OBVIOUS
<1>0. Types /\ Types' /\ SizesKept /\ FatSound /\ ArInv /\ Granted /\ Reaching /\ Started
      /\ InFile
  BY StepTypes DEF WInv
<1>1. CASE CannotOpen \/ CannotMap \/ NotAnObject
  BY <1>0, <1>1, PassedOver
<1>2. CASE handle_file
  <2>1. /\ Said' = Listings(out) /\ req' = req /\ n' - 1 = n /\ mode = "main" /\ mode' # "main"
    BY <1>0, <1>2, HandleFileInFile
  <2> QED BY <2>1, NoAnswerIs DEF Answered, Reported, Said
<1>3. ASSUME mode # "main", mode' # "main", Said' = Said, req' = req, n' = n
      PROVE  UNCHANGED Promise!rvars
  BY <1>3, NoAnswerIs DEF Answered, Reported, Said
<1>4. ASSUME mode # "main", mode' = "main", req' = req, n' = n,
             \E w \in Whole(req, n) : Listings(out') = Said \o w
      PROVE  Promise!Answer
  BY <1>0, <1>4, HandledOver
<1>5. CASE FatStep
  <2>1. mode = "fat" /\ mode' # "main"
    BY <1>0, <1>5, FatHandsOn
  <2> QED BY <1>0, <1>3, <1>5, <2>1, QuietSteps
<1>6. CASE ArchiveStep
  <2>1. mode = "archive" /\ mode' # "main"
    BY <1>0, <1>6, ArchiveHandsOn
  <2> QED BY <1>0, <1>3, <1>6, <2>1, QuietSteps
<1>7. CASE EndFat
  <2>1. mode = "fat" /\ mode' = "main" /\ req' = req /\ n' = n
    BY <1>7 DEF EndFat
  <2> QED BY <1>0, <1>4, <1>7, <2>1, FatIsDone
<1>8. CASE EndArchive
  <2>1. mode = "archive" /\ mode' = (IF InFat THEN "fat" ELSE "main") /\ req' = req /\ n' = n
    BY <1>8 DEF EndArchive
  <2>2. CASE InFat
    BY <1>0, <1>3, <1>8, <2>1, <2>2, QuietSteps
  <2>3. CASE ~InFat
    BY <1>0, <1>4, <1>8, <2>1, <2>3, ArchiveIsDone
  <2> QED BY <2>2, <2>3
<1>9. CASE handle_macho_file
  <2>1. /\ mode = "macho" /\ mode' = (IF InAr THEN "archive" ELSE IF InFat THEN "fat" ELSE "main")
        /\ req' = req /\ n' = n
    BY <1>9 DEF handle_macho_file
  <2>2. CASE InFat \/ InAr
    BY <1>0, <1>3, <1>9, <2>1, <2>2, MachoSays
  <2>3. CASE ~InFat /\ ~InAr
    BY <1>0, <1>4, <1>9, <2>1, <2>3, ImageIsDone
  <2> QED BY <2>2, <2>3
<1>10. CASE UNCHANGED vars
  <2>1. UNCHANGED Promise!rvars
    BY <1>10 DEF vars, Promise!rvars
  <2> QED BY <2>1
<1> QED BY <1>1, <1>2, <1>5, <1>6, <1>7, <1>8, <1>9, <1>10 DEF Next, Step

\* In the beginning nothing is answered.
LEMMA InitAnswers == Init => Promise!Init
<1> SUFFICES ASSUME Init PROVE Promise!Init
  OBVIOUS
<1>1. mode = "main" /\ n = 0 /\ out = << >> /\ out \in Seq(Entry)
  BY DEF Init
<1>2. Listings(out) = << >>
  BY <1>1, ListingsMore
<1> QED BY <1>1, <1>2 DEF Promise!Init

\* On every disk whose archives and fat files are laid out as they should be, the
\* files are answered one by one, in the order of the command line, each with
\* what it would get alone: the safety half of AnswersAsAlone.  A file that
\* cannot be opened, is malformed or has nothing to list, a directory, an archive
\* or a fat file that is refused halfway take nothing away from the files behind
\* them and lend nothing to them.
THEOREM ListsAsAlone ==
  ASSUME SoundDisk
  PROVE  Spec => Promise!Init /\ [][Promise!Answer]_(Promise!rvars)
<1>1. WInv /\ [Next]_vars => WInv'
  BY StepWInv
<1>2. WInv /\ [Next]_vars => [Promise!Answer]_(Promise!rvars)
  BY StepAnswers
<1>3. Init => WInv
  BY InitWInv
<1> QED BY <1>1, <1>2, <1>3, InitAnswers, PTL DEF Spec
=============================================================================
