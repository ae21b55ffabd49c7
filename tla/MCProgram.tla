----------------------------- MODULE MCProgram -----------------------------
(* Program on up to three files: images, fat files, archives and fat files  *)
(* that hold archives, some of them malformed, beside what is no object.    *)
EXTENDS Program

MCArchTable == <<[name |-> "i386", cputype |-> 7, cpusubtype |-> 3],
                 [name |-> "i486", cputype |-> 7, cpusubtype |-> 4],
                 [name |-> "ppc",  cputype |-> 18, cpusubtype |-> 0]>>
MCHostCpu   == [cputype |-> 7, cpusubtype |-> 3]

Img(t, s)  == [cputype |-> t, cpusubtype |-> s, ok |-> TRUE, symtab |-> TRUE]
Bad(img)   == [img EXCEPT !.ok = FALSE]
Bare(img)  == [img EXCEPT !.symtab = FALSE]

\* An archive of members of 40 bytes each.
Place(j) == 8 + (j - 1) * 100
Ar2(images, fats, size) ==
  [fsize    |-> size,
   headers  |-> [p \in {Place(j) : j \in 1..(Len(images) + fats)} |->
                   [size |-> 40, ext |-> FALSE, len |-> 0, symdef |-> FALSE]],
   contents |-> [p \in {Place(j) + 60 : j \in 1..(Len(images) + fats)} |->
                   LET j == (p + 32) \div 100 IN
                   IF j <= Len(images)
                     THEN [kind |-> "MH", cputype |-> images[j].cputype,
                           cpusubtype |-> images[j].cpusubtype, fatok |-> TRUE]
                     ELSE [kind |-> "FAT", cputype |-> 0, cpusubtype |-> 0, fatok |-> TRUE]],
   shifted  |-> << >>,
   noise    |-> [size |-> 0, ext |-> FALSE, len |-> 0, symdef |-> FALSE],
   beyond   |-> [size |-> 0, ext |-> FALSE, len |-> 0, symdef |-> FALSE],
   images   |-> [p \in {Place(j) : j \in 1..Len(images)} |-> images[(p + 92) \div 100]]]
MCArchive(images, fats) == Ar2(images, fats, 8 + 100 * (Len(images) + fats))

Slc(t, s, offset, size, kind, hdcpu, ok) ==
  [cputype |-> t, cpusubtype |-> s, offset |-> offset, size |-> size, align |-> 3,
   kind |-> kind, hdcpu |-> hdcpu, ok |-> ok]

NoFat == [fsize |-> 0, archs |-> << >>]
Plain == [access |-> "ok", kind |-> "MH", small |-> FALSE, image |-> NoImage,
          fat |-> NoFat, inner |-> << >>, ar |-> MCArchive(<< >>, 0)]

MachO(img)    == [Plain EXCEPT !.image = img]
ArFile(ar)    == [Plain EXCEPT !.kind = "ARCHIVE", !.ar = ar]
\* A fat file; an image in it is 128 bytes long.
FatFile(cpus, inner) ==
  LET size(j)   == IF "fsize" \in DOMAIN inner[j] THEN inner[j].fsize ELSE 128
      isAr(j)   == "fsize" \in DOMAIN inner[j]
      sound(j)  == IF isAr(j) THEN \A p \in DOMAIN inner[j].contents :
                                     inner[j].contents[p].kind = "MH"
                              ELSE inner[j].ok
  IN  [Plain EXCEPT !.kind = "FAT", !.inner = inner,
        !.fat = [fsize |-> 64 + 512 * Len(inner),
                 archs |-> [j \in DOMAIN inner |->
                   Slc(cpus[j][1], cpus[j][2], 64 + 512 * (j - 1), size(j),
                       IF isAr(j) THEN "ARCHIVE" ELSE "MH",
                       IF isAr(j) THEN 0 ELSE inner[j].cputype, sound(j))]]]

I386 == <<7, 3>>
I486 == <<7, 4>>
PPC  == <<18, 0>>

\* The same with a capability bit.
I486Caps == <<7, 4 + SubtypeSpan>>
PPCCaps  == <<18, SubtypeSpan>>

Files == [
  missing   |-> [Plain EXCEPT !.access = "noopen"],
  empty     |-> [Plain EXCEPT !.access = "empty"],
  directory |-> [Plain EXCEPT !.access = "nomap"],
  directory2 |-> [Plain EXCEPT !.access = "nomap"],
  text      |-> [Plain EXCEPT !.kind = "UNKNOWN"],
  stub      |-> [MachO(Img(7, 3)) EXCEPT !.small = TRUE],
  i386      |-> MachO(Img(7, 3)),
  i486      |-> MachO(Img(7, 4)),
  bad       |-> MachO(Bad(Img(7, 3))),
  stripped  |-> MachO(Bare(Img(18, 0))),
  ar2       |-> ArFile(MCArchive(<<Img(7, 3), Img(7, 3)>>, 0)),
  ar3       |-> ArFile(MCArchive(<<Img(18, 0), Bare(Img(18, 0)), Bad(Img(18, 0))>>, 0)),
  arfat     |-> ArFile(MCArchive(<<Img(7, 3)>>, 1)),
  arempty   |-> ArFile(MCArchive(<< >>, 0)),
  fat       |-> FatFile(<<I386, PPC>>, <<Img(7, 3), Img(18, 0)>>),
  fat486    |-> FatFile(<<I486, PPC>>, <<Img(7, 4), Img(18, 0)>>),
  fatppc    |-> FatFile(<<PPC>>, <<Img(18, 0)>>),
  fatbad    |-> FatFile(<<PPC, I386>>, <<Img(18, 0), Bad(Img(7, 3))>>),
  fattwin   |-> FatFile(<<PPC, PPCCaps>>, <<Img(18, 0), Img(18, SubtypeSpan)>>),
  fattwin2  |-> FatFile(<<I486Caps, I486>>, <<Img(7, 4 + SubtypeSpan), Img(7, 4)>>),
  fatwrong  |-> FatFile(<<I386, I486>>, <<Img(7, 4), Img(7, 4)>>),
  fatother  |-> FatFile(<<I386, PPC>>, <<Img(18, 0), Img(18, 0)>>),
  fatar     |-> FatFile(<<PPC, I386>>, <<MCArchive(<<Img(18, 0), Img(18, 0)>>, 0), Img(7, 3)>>),
  fatar2    |-> FatFile(<<PPC>>, <<MCArchive(<<Img(18, 0), Img(18, 0)>>, 0)>>),
  fatar486  |-> FatFile(<<I386, PPC>>, <<MCArchive(<<Img(7, 4), Img(7, 4)>>, 0), Img(18, 0)>>),
  fatarfat  |-> FatFile(<<I386, PPC>>, <<MCArchive(<<Img(7, 3)>>, 1), Img(18, 0)>>)]

\* The malformed files are so in ways that do not matter to the slices and the
\* members beside them.
ASSUME DiskIsSound == SoundDisk

\* TLC keeps the value of Files, and would compute that of MCDisk at each use.
MCDisk == Files

Names == DOMAIN Files

FileLists ==
  {<<f>> : f \in Names}
  \cup {<<f, g>> : f \in Names, g \in {"i386", "ar2", "fatppc", "fatar2"}}
  \cup {<<"directory", f, "directory2", g>> : f \in Names, g \in {"i386"}}

MCArchFlags == {<< >>, <<"all">>, <<"i386">>, <<"i486", "ppc">>,
                <<"i386", "ppc", "i386">>}

MCRequests ==
  {r \in [bin : {"nm", "otool"}, flags : {{}, {"o"}, {"o", "P"}, {"o", "A", "P"}},
          archs : MCArchFlags, files : {fs \in FileLists :
             \A j, l \in DOMAIN fs : fs[j] = fs[l] => j = l}] :
     r.bin = "otool" => r.flags = {}}
=============================================================================
