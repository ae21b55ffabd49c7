------------------------------ MODULE Program ------------------------------
(***************************************************************************)
(* The two programs behind their option parser: main takes one file after  *)
(* the other, maps it (mapp_file), looks at its magic (get_parse_info) and *)
(* hands it on (handle_file).  The slices of a fat file and the members of *)
(* an archive are handed on by Fat and Archive, which are composed here;   *)
(* an image becomes a heading and a listing.                               *)
(***************************************************************************)
EXTENDS Arch, FiniteSets

CONSTANTS
  Disk,      \* what open finds under each name
  Requests,  \* command lines: [bin, flags, archs, files]
  HostCpu, U32, MaxAlign,
  MaxFds     \* descriptors the system grants beyond the standard ones

\* `flags' are the letters of nm that decide about names: -A sets -o, too.
\* An image is what handle_macho_file makes of a Mach-O file: does
\* check_macho_file accept its load commands, is there a symbol table.
Image   == [cputype : Int, cpusubtype : Int, ok : BOOLEAN, symtab : BOOLEAN]
NoImage == [cputype |-> 0, cpusubtype |-> 0, ok |-> FALSE, symtab |-> FALSE]

ASSUME RequestsAssumption ==
  \A r \in Requests :
    /\ r.bin \in {"nm", "otool"}
    /\ r.flags \subseteq {"o", "A", "P"} /\ ("A" \in r.flags => "o" \in r.flags)
    /\ r.archs \in Seq(STRING)
    /\ AllArchs(r.archs) \/ \A j \in DOMAIN r.archs : r.archs[j] \in ArchNames
    /\ r.files \in Seq(DOMAIN Disk)
ASSUME MaxFdsAssumption == MaxFds \in Nat \ {0}

VARIABLES
  req,    \* the command line
  n,      \* files main has begun with
  fds,    \* descriptors that stay open
  mode,   \* "main", "fat", "archive" or "macho": who is running
  out,    \* what is printed on standard output
  start,  \* Len(out) when the current file began
  fpc, fi, fmissing, fhanded,  \* the variables of Fat
  apc, k, pos, extended, cpu, check, finalCheck, amissing, seen, ahanded
                               \* the variables of Archive

fatVars     == <<fpc, fi, fmissing, fhanded>>
archiveVars == <<apc, k, pos, extended, cpu, check, finalCheck, amissing, seen, ahanded>>
vars        == <<req, n, fds, mode, out, start, fatVars, archiveVars>>

-----------------------------------------------------------------------------
(* What is being handled *)

File  == Disk[req.files[n]]
InFat == fpc # "idle"
InAr  == apc # "idle"
Slice == fhanded[Len(fhanded)]

\* pinfo->fat_arch_from is set.
Labelled == InFat /\ Slice.label

Archive == IF InFat THEN [File.inner[Slice.n] EXCEPT !.fsize = Slice.size] ELSE File.ar

F  == INSTANCE Fat WITH
        Fats <- {}, ArchFlags <- {}, Bins <- {}, file <- File.fat, archs <- req.archs,
        bin <- req.bin, pc <- fpc, i <- fi, missing <- fmissing, handed <- fhanded
Ar == INSTANCE Archive WITH
        Archives <- {}, ArchFlags <- {}, Bins <- {}, file <- Archive, archs <- req.archs,
        bin <- req.bin, from <- Labelled, pc <- apc, missing <- amissing, handed <- ahanded

\* What may stand on the disk; an archive also has the images of its objects.
IsArchive(ar) ==
  /\ ar.fsize \in Nat /\ DOMAIN ar.headers \subseteq Nat
  /\ \A p \in DOMAIN ar.headers : ar.headers[p] \in Ar!Header
  /\ \A p \in DOMAIN ar.shifted : ar.shifted[p] \in Ar!Header
  /\ ar.noise \in Ar!Header /\ ar.beyond \in Ar!Header
  /\ \A p \in DOMAIN ar.images : ar.images[p] \in Image
ASSUME DiskAssumption ==
  \A name \in DOMAIN Disk :
    /\ Disk[name].access \in {"ok", "noopen", "empty", "nomap"}
    /\ Disk[name].kind \in {"MH", "FAT", "ARCHIVE", "UNKNOWN"}
    /\ Disk[name].small \in BOOLEAN
    /\ Disk[name].image \in Image
    /\ Disk[name].kind = "ARCHIVE" => IsArchive(Disk[name].ar)
    /\ Disk[name].kind = "FAT" =>
         /\ Disk[name].fat \in F!FatFile
         /\ \A s \in DOMAIN Disk[name].fat.archs :
              /\ Disk[name].fat.archs[s].kind = "MH" => Disk[name].inner[s] \in Image
              /\ Disk[name].fat.archs[s].kind = "ARCHIVE" => IsArchive(Disk[name].inner[s])
ASSUME WidthAssumption == U32 \in Nat \ {0} /\ MaxAlign \in Nat \ {0}

Member  == ahanded[Len(ahanded)]
Current == IF InAr THEN Archive.images[Member]
           ELSE IF InFat THEN File.inner[Slice.n] ELSE File.image

\* Where an image comes from, and the parts of that a name may show.
Origin == [file |-> n, slice |-> IF InFat THEN Slice.n ELSE 0,
           member |-> IF InAr THEN Member ELSE 0]

\* A label is the name of the table's entry, which has no capability bits.
ArchOf(s) == Cpu(File.fat.archs[s.n])

Nowhere == [file |-> 0, arch |-> << >>, member |-> 0]
Name(arch, member) == [file |-> n, arch |-> arch, member |-> member]

Heading(name) == [what |-> "heading", name |-> name, origin |-> Nowhere]

\* -o does away with the headings of nm.
NmHeading(name) == IF "o" \in req.flags THEN << >> ELSE <<Heading(name)>>

\* DISPLAY_INFO_ON
Several == Len(req.files) > 1

-----------------------------------------------------------------------------
(* main, mapp_file and get_parse_info *)

Init ==
  /\ req \in Requests
  /\ n = 0 /\ fds = 0 /\ mode = "main" /\ out = << >> /\ start = 0
  /\ fpc = "idle" /\ fi = 0 /\ fmissing = {} /\ fhanded = << >>
  /\ apc = "idle" /\ k = 1 /\ pos = 0 /\ extended = FALSE
  /\ cpu = [cputype |-> 0, cpusubtype |-> 0] /\ check = FALSE /\ finalCheck = FALSE
  /\ amissing = {} /\ seen = {} /\ ahanded = << >>

NextFile ==
  /\ mode = "main" /\ n < Len(req.files)
  /\ n' = n + 1 /\ start' = Len(out)
  /\ UNCHANGED <<req, out>>

Upcoming == Disk[req.files[n + 1]]
Opens    == Upcoming.access # "noopen" /\ fds < MaxFds

CannotOpen ==
  /\ NextFile /\ ~Opens
  /\ UNCHANGED <<fds, mode, fatVars, archiveVars>>

\* The descriptor of a file that cannot be mapped, a directory, is not closed.
CannotMap ==
  /\ NextFile /\ Opens /\ Upcoming.access = "nomap"
  /\ fds' = fds + 1
  /\ UNCHANGED <<mode, fatVars, archiveVars>>

\* `small': shorter than a mach_header, which otool alone looks at.
IsObject == /\ Upcoming.access = "ok" /\ Upcoming.kind # "UNKNOWN"
            /\ ~(req.bin = "otool" /\ Upcoming.kind = "MH" /\ Upcoming.small)

NotAnObject ==
  /\ NextFile /\ Opens /\ Upcoming.access # "nomap" /\ ~IsObject
  /\ UNCHANGED <<fds, mode, fatVars, archiveVars>>

\* check_fat_file is nm's.
EnterFat ==
  /\ fpc' = (IF req.bin = "nm" THEN "check" ELSE "choose")
  /\ fi' = 0 /\ fmissing' = {} /\ fhanded' = << >>

EnterArchive ==
  /\ apc' = "open" /\ k' = 1 /\ pos' = 0 /\ extended' = FALSE
  /\ cpu' = [cputype |-> 0, cpusubtype |-> 0] /\ check' = FALSE /\ finalCheck' = FALSE
  /\ amissing' = {} /\ seen' = {} /\ ahanded' = << >>

\* Mutant: the magic is looked at before the file is known to be mapped.
handle_file_Unmapped ==
  /\ NextFile /\ Opens /\ Upcoming.kind # "UNKNOWN"
  /\ mode' = CASE Upcoming.kind = "FAT" -> "fat" [] Upcoming.kind = "ARCHIVE" -> "archive"
               [] OTHER -> "macho"
  /\ IF mode' = "fat" THEN EnterFat ELSE UNCHANGED fatVars
  /\ IF mode' = "archive" THEN EnterArchive ELSE UNCHANGED archiveVars
  /\ UNCHANGED fds

handle_file ==
  /\ NextFile /\ Opens /\ IsObject
  /\ mode' = CASE Upcoming.kind = "FAT" -> "fat" [] Upcoming.kind = "ARCHIVE" -> "archive"
               [] OTHER -> "macho"
  /\ IF mode' = "fat" THEN EnterFat ELSE UNCHANGED fatVars
  /\ IF mode' = "archive" THEN EnterArchive ELSE UNCHANGED archiveVars
  /\ UNCHANGED fds

-----------------------------------------------------------------------------
(* Fat and Archive at work *)

Kind == File.fat.archs[fhanded'[Len(fhanded')].n].kind

\* Mutant: the label is that of the first slice.
SliceHeading_First(all, slice) ==
  IF req.bin = "nm" /\ (Several \/ all)
    THEN NmHeading(Name(IF all THEN ArchOf(fhanded'[1]) ELSE << >>, 0)) ELSE << >>

\* The heading handle_fat_arch prints for a slice that is a Mach-O image: with
\* the architecture when that is shown, or when there are several files.
\* `all' is FAT_ARCH_ALL.
SliceHeading(all, slice) ==
  IF req.bin = "nm" /\ (Several \/ all)
    THEN NmHeading(Name(IF all THEN ArchOf(slice) ELSE << >>, 0)) ELSE << >>

FatStep ==
  /\ mode = "fat" /\ fpc \notin {"done", "refused"}
  /\ UNCHANGED <<req, n, fds, start>>
  /\ F!Step
  /\ IF Len(fhanded') = Len(fhanded)
       THEN UNCHANGED <<mode, out, archiveVars>>
     ELSE IF Kind = "ARCHIVE"
       THEN mode' = "archive" /\ EnterArchive /\ UNCHANGED out
     ELSE LET slice == fhanded'[Len(fhanded')] IN
          /\ mode' = "macho" /\ UNCHANGED archiveVars
          /\ out' = out \o SliceHeading(slice.label, slice)

EndFat ==
  /\ mode = "fat" /\ fpc \in {"done", "refused"}
  /\ mode' = "main" /\ fpc' = "idle"
  /\ UNCHANGED <<req, n, fds, out, start, fi, fmissing, fhanded, archiveVars>>

MemberHeading(member) ==
  IF req.bin = "nm" THEN NmHeading(Name(IF Labelled THEN ArchOf(Slice) ELSE << >>, member))
  ELSE << >>

ArchiveStep ==
  /\ mode = "archive" /\ apc \notin {"done", "refused"}
  /\ UNCHANGED <<req, n, fds, start, fatVars>>
  /\ Ar!Step
  /\ IF Len(ahanded') = Len(ahanded)
       THEN UNCHANGED <<mode, out>>
       ELSE mode' = "macho" /\ out' = out \o MemberHeading(ahanded'[Len(ahanded')])

EndArchive ==
  /\ mode = "archive" /\ apc \in {"done", "refused"}
  /\ mode' = (IF InFat THEN "fat" ELSE "main") /\ apc' = "idle"
  /\ UNCHANGED <<req, n, fds, out, start, fatVars, k, pos, extended, cpu, check,
                 finalCheck, amissing, seen, ahanded>>

-----------------------------------------------------------------------------
(* handle_macho_file *)

\* -arch is not asked about again once a slice or a member was chosen.
check_macho_file(img) ==
  {asked /\ (req.bin = "otool" \/ img.ok) :
     asked \in IF Labelled \/ InAr THEN {TRUE}
               ELSE check_archs_in_file(img.cputype, img.cpusubtype, req.archs)}

\* Mutant: -A alone puts the name in front of the lines.
Prefix_OnlyA == IF "A" \in req.flags
                  THEN Name(IF Labelled THEN ArchOf(Slice) ELSE << >>,
                            IF InAr THEN Member ELSE 0)
                  ELSE Nowhere

\* What assign_symbol puts in front of every line.
Prefix == IF "A" \in req.flags \/ ("o" \in req.flags /\ "P" \notin req.flags)
            THEN Name(IF Labelled THEN ArchOf(Slice) ELSE << >>,
                      IF InAr THEN Member ELSE 0)
            ELSE Nowhere

Listing(prefix) == [what |-> "listing", name |-> prefix, origin |-> Origin]

\* print_nm: the heading of a file that is an image itself.
print_nm(img) ==
  IF ~img.symtab THEN << >>
  ELSE (IF Several /\ ~InFat /\ ~InAr THEN NmHeading(Name(<< >>, 0)) ELSE << >>)
       \o <<Listing(Prefix)>>

\* print_otool: a labelled slice has no member's name in its heading.
print_otool ==
  <<Heading(IF Labelled THEN Name(ArchOf(Slice), 0)
            ELSE Name(<< >>, IF InAr THEN Member ELSE 0)), Listing(Nowhere)>>

handle_macho_file ==
  /\ mode = "macho"
  /\ \E accepted \in check_macho_file(Current) :
       out' = out \o (IF ~accepted THEN << >>
                      ELSE IF req.bin = "nm" THEN print_nm(Current) ELSE print_otool)
  /\ mode' = (IF InAr THEN "archive" ELSE IF InFat THEN "fat" ELSE "main")
  /\ UNCHANGED <<req, n, fds, start, fatVars, archiveVars>>

-----------------------------------------------------------------------------
Step == \/ CannotOpen \/ CannotMap \/ NotAnObject \/ handle_file
        \/ FatStep \/ EndFat \/ ArchiveStep \/ EndArchive \/ handle_macho_file

Finished == mode = "main" /\ n = Len(req.files)

Next == Step \/ (Finished /\ UNCHANGED vars)

\* One thread, no input to wait for: a program that can take a step takes it.
Spec == Init /\ [][Next]_vars /\ WF_vars(Step)

-----------------------------------------------------------------------------
(* What suits the i-th file of a command line r: what it would get alone *)

FileOf(r, i)  == Disk[r.files[i]]
Exactly(r, x) == \E j \in DOMAIN r.archs : Cpu(Info(r.archs[j])) = Cpu(x)
Family(r, x)  == \E j \in DOMAIN r.archs : Info(r.archs[j]).cputype = x.cputype

\* Another subtype of a cputype that was asked for may be taken or not.
IfAsked(r, x, answers) == IF AllArchs(r.archs) \/ Exactly(r, x) THEN answers
                          ELSE IF Family(r, x) THEN answers \cup {<< >>} ELSE {<< >>}

\* One answer of each, in order.
Joined(some, more) == {a \o b : a \in some, b \in more}
Concats(answers) ==
  LET C[j \in 0..Len(answers)] ==
        IF j = 0 THEN {<< >>} ELSE Joined(C[j - 1], answers[j])
  IN  C[Len(answers)]

Printed(r, img) == r.bin = "otool" \/ (img.ok /\ img.symtab)

Alone(r, i, slice, member, img) ==
  {IF Printed(r, img) THEN <<[file |-> i, slice |-> slice, member |-> member]>> ELSE << >>}

\* An archive: all of its objects in their order, or nothing.
ObjectsOf(ar) ==
  LET places == DOMAIN ar.images
  IN  [j \in 1..Cardinality(places) |->
         CHOOSE p \in places : Cardinality({q \in places : q <= p}) = j]

WholeArchive(r, i, slice, ar, labelled) ==
  LET objects == ObjectsOf(ar)
      all     == Concats([j \in DOMAIN objects |->
                            Alone(r, i, slice, objects[j], ar.images[objects[j]])])
  IN  IF r.bin = "nm" /\ (\E p \in DOMAIN ar.contents : ar.contents[p].kind = "FAT")
        THEN {<< >>}
      ELSE IF labelled \/ objects = << >> THEN all
      ELSE IfAsked(r, ar.images[objects[1]], all)

WholeSlice(r, i, f, s, labelled) ==
  LET alone == Alone(r, i, s, 0, f.inner[s])
  IN  IF f.fat.archs[s].kind = "ARCHIVE" THEN WholeArchive(r, i, s, f.inner[s], labelled)
      ELSE IF labelled THEN alone ELSE IfAsked(r, f.inner[s], alone)

\* The slice of this machine, or else all slices; with -arch the first of each
\* architecture asked for, in the order of the flags, 0 for none.
Native(slices) ==
  LET same  == {s \in DOMAIN slices : slices[s].cputype = HostCpu.cputype}
      exact == {s \in same : Cpu(slices[s]) = Cpu(HostCpu)}
  IN  IF exact # {} THEN exact ELSE same

Named(slices, name) ==
  LET named == {s \in DOMAIN slices : Cpu(slices[s]) = Cpu(Info(name))}
  IN  IF named = {} THEN 0 ELSE CHOOSE s \in named : \A t \in named : s <= t

Chosen(r, slices) ==
  IF r.archs = << >> /\ Native(slices) # {}
    THEN [seqs |-> {<<s>> : s \in Native(slices)}, labelled |-> FALSE]
  ELSE IF AllArchs(r.archs) THEN [seqs |-> {[s \in DOMAIN slices |-> s]}, labelled |-> TRUE]
  ELSE [seqs |-> {[j \in DOMAIN r.archs |-> Named(slices, r.archs[j])]},
        labelled |-> Len(r.archs) > 1]

\* A fat file: of the chosen slices those that fit.  nm wants every slice sound.
Fits(r, f, s) ==
  LET slice == f.fat.archs[s] IN
  /\ slice.offset < f.fat.fsize
  /\ \/ slice.kind = "ARCHIVE"
     \/ slice.kind = "MH" /\ (r.bin = "otool" \/ slice.hdcpu = slice.cputype)

Refused(r, slices) ==
  r.bin = "nm" /\ (slices = << >> \/ \E s \in DOMAIN slices :
                     slices[s].kind \in {"MH", "ARCHIVE"} /\ ~slices[s].ok)

SliceAnswers(r, i, f, s, labelled) ==
  IF s # 0 /\ Fits(r, f, s) THEN WholeSlice(r, i, f, s, labelled) ELSE {<< >>}

FatAnswers(r, i, f, seq, labelled) ==
  Concats([j \in DOMAIN seq |-> SliceAnswers(r, i, f, seq[j], labelled)])

WholeFat(r, i, f) ==
  LET chosen == Chosen(r, f.fat.archs)
  IN  IF Refused(r, f.fat.archs) THEN {<< >>}
      ELSE UNION {FatAnswers(r, i, f, seq, chosen.labelled) : seq \in chosen.seqs}

\* A file is out of reach when it cannot be opened, or when the directories in
\* front of it have used up the descriptors.
Directories(r, i) == Cardinality({j \in 1..i : FileOf(r, j).access = "nomap"})
Reached(r, i) == FileOf(r, i).access = "ok" /\ Directories(r, i - 1) < MaxFds

Whole(r, i) ==
  LET f == FileOf(r, i) IN
  IF ~Reached(r, i) THEN {<< >>}
  ELSE CASE f.kind = "FAT"     -> WholeFat(r, i, f)
         [] f.kind = "ARCHIVE" -> WholeArchive(r, i, 0, f.ar, FALSE)
         [] f.kind = "MH"      -> IF r.bin = "otool" /\ f.small THEN {<< >>}
                                  ELSE IfAsked(r, f.image, Alone(r, i, 0, 0, f.image))
         [] OTHER              -> {<< >>}

Listings(o) ==
  LET L[j \in 0..Len(o)] ==
        IF j = 0 THEN << >>
        ELSE IF o[j].what = "listing" THEN Append(L[j - 1], o[j].origin) ELSE L[j - 1]
  IN  L[Len(o)]

\* The disks on which this is what is printed.  An archive is laid out as ar(5)
\* has it, in members of even sizes whose names are all written in one way, and
\* nothing behind its end reads as a member.
DataOf(ar, m)   == m + 60 + (IF ar.headers[m].ext THEN ar.headers[m].len ELSE 0)
EndOf(ar, m)    == m + 60 + ar.headers[m].size
BehindOf(ar, m) == EndOf(ar, m) + (EndOf(ar, m) % 2)

LaidOut(ar) ==
  LET members == DOMAIN ar.headers IN
  /\ ar.fsize >= 8 /\ members \subseteq 8..(ar.fsize - 1)
  /\ members = {} <=> ar.fsize = 8
  /\ members # {} => 8 \in members
  /\ \A m, l \in members : /\ m < l => BehindOf(ar, m) <= l
                           /\ ar.headers[m].ext = ar.headers[l].ext
  /\ \A m \in members : /\ ar.headers[m].size >= 0
                        /\ EndOf(ar, m) <= ar.fsize /\ DataOf(ar, m) < ar.fsize
                        /\ BehindOf(ar, m) \in members \/ BehindOf(ar, m) >= ar.fsize
                        /\ ar.headers[m].size % 2 = 0
  /\ \A p \in DOMAIN ar.shifted : p + 1 \in members /\ ar.shifted[p].size % 2 = 0
  /\ ar.noise.size % 2 = 0 /\ ar.beyond.size = 0

\* Its images are those of its objects, of the architectures their headers show;
\* its fat members pass check_fat_file.
SoundArchive(ar) ==
  LET held(m)   == IF DataOf(ar, m) \in DOMAIN ar.contents
                     THEN ar.contents[DataOf(ar, m)].kind ELSE "UNKNOWN"
      objects   == {m \in DOMAIN ar.headers : held(m) = "MH"}
  IN  /\ LaidOut(ar)
      /\ DOMAIN ar.images = objects
      /\ \A m \in objects : /\ ~ar.headers[m].symdef
                            /\ Cpu(ar.images[m]) = Cpu(ar.contents[DataOf(ar, m)])
                            /\ ar.images[m].cputype # 0
      /\ \A p \in DOMAIN ar.contents :
           /\ \E m \in DOMAIN ar.headers : p = DataOf(ar, m)
           /\ ar.contents[p].kind = "FAT" => ar.contents[p].fatok

\* The slices of a fat file lie inside it, as they are aligned, no two of the
\* same cputype and subtype, capability bits included, and all of a cputype that
\* is known; an archive fills its slice.
SoundFat(f) ==
  \A s \in DOMAIN f.fat.archs :
    LET slice == f.fat.archs[s] IN
    /\ slice.offset < f.fat.fsize /\ slice.offset + slice.size <= f.fat.fsize
    /\ slice.align <= MaxAlign /\ slice.offset % F!Unit(slice.align) = 0
    /\ \A t \in DOMAIN f.fat.archs : /\ f.fat.archs[t].cputype = slice.cputype
                                     /\ f.fat.archs[t].cpusubtype = slice.cpusubtype
                                     => t = s
    /\ \E j \in DOMAIN ArchTable : ArchTable[j].cputype = slice.cputype
    /\ slice.kind = "ARCHIVE" => /\ f.inner[s] = [f.inner[s] EXCEPT !.fsize = slice.size]
                                 /\ SoundArchive(f.inner[s])

SoundDisk ==
  \A name \in DOMAIN Disk :
    /\ Disk[name].kind = "ARCHIVE" => SoundArchive(Disk[name].ar)
    /\ Disk[name].kind = "FAT" => SoundFat(Disk[name])

Promise == INSTANCE Report WITH
  Answers  <- Whole,
  request  <- req,
  answered <- IF mode = "main" THEN n ELSE n - 1,
  report   <- Listings(IF mode = "main" THEN out ELSE SubSeq(out, 1, start))

-----------------------------------------------------------------------------
(* Properties *)

\* The files are answered in order, each as it would be alone: one that cannot
\* be opened, is malformed or has nothing to list takes nothing away from the
\* files behind it (main goes on with a fresh t_pinfo).  What check_fat_file
\* accepted is listed, though its archives are checked again when their turn
\* comes; and main comes to its last file whatever the files in front are.
AnswersAsAlone == Promise!Spec

\* The name the output gives the listing at j: the one in front of its lines,
\* or that of the heading directly before it.
Shown(j) == IF out[j].name # Nowhere THEN out[j].name
            ELSE IF j > 1 /\ out[j - 1].what = "heading" THEN out[j - 1].name
            ELSE Nowhere

\* Two slices of one fat file that differ in capability bits and in nothing else
\* check_fat_file looks at; nm lists both of them under one label.
CapabilityTwins(a, b) ==
  LET slices == FileOf(req, a.file).fat.archs
  IN  /\ a.file = b.file /\ a.member = b.member /\ a.slice # b.slice
      /\ Cpu(slices[a.slice]) = Cpu(slices[b.slice])
      /\ slices[a.slice].cpusubtype # slices[b.slice].cpusubtype

\* No two listings carry the same name, unless they are those of capability twins
\* and no -arch flag chose: from the output alone each listing can be told apart
\* from every other one, -o, -A and -P or not, across files, slices and members; a
\* file named twice counts as two.  Not so where -o takes away the headings while
\* -P takes away the prefix, where two -arch flags stand for one architecture, and
\* where otool drops a member's name for its slice's.
NoneTwice == \A j, l \in DOMAIN req.archs :
               j # l => Cpu(Info(req.archs[j])) # Cpu(Info(req.archs[l]))

ListingsToldApart ==
  /\ req.bin = "nm" => ~({"o", "P"} \subseteq req.flags /\ "A" \notin req.flags) /\ NoneTwice
  => \A j, l \in DOMAIN out :
       /\ out[j].what = "listing" /\ out[l].what = "listing" /\ j < l
       /\ req.bin = "otool" => Shown(j).arch = << >>
       => \/ Shown(j) # Shown(l)
          \/ AllArchs(req.archs) /\ CapabilityTwins(out[j].origin, out[l].origin)

\* A heading names the file being handled and what is listed under it: nm prints
\* no listing under the heading of something else.
HeadingsFit ==
  \A j \in DOMAIN out : out[j].what = "listing" /\ Shown(j) # Nowhere =>
    /\ Shown(j).file = out[j].origin.file
    /\ req.bin = "nm" => Shown(j).member = out[j].origin.member
    /\ Shown(j).arch # << >> =>
         Shown(j).arch = Cpu(FileOf(req, out[j].origin.file).fat.archs[out[j].origin.slice])
=============================================================================
