# A TLA+ model of ft_nm and ft_otool

The repository builds two programs. `ft_nm` lists the symbols of Mach-O files,
`ft_otool` prints their text and data sections. Both read the file as one memory
mapping and share most of their code (`common/`): the command line, the choice
of a file format by its magic number, and the walks through fat files, archives
and the load commands of Mach-O images. Both are sequential programs. Their
state is a cursor in a mapped file, a few tables that grow, and the settings of
the command line.

Both write their error messages through the formatted output of `libft`, whose
line reader and formatter are small machines of their own: a formatter of four
passes over one argument list, and a reader with a static list of left-over text.

The hard part is not concurrency. Every number that steers a walk (a size, an
offset, a count, a name length) is read from the file. One function compares
it with the size of the file, and another one uses it later without comparing
again. The models are about that distance: what the first walk established, what the
second one relies on, which integer width the comparison was made in, and what
state was left behind in between.

## 1. Inventory

| Component | State it keeps | Operations | Used by |
|---|---|---|---|
| Command line: `parse_arguments`, `handle_nm_options`, `handle_otool_options`, both `main` (`common/srcs/handle.c`, `nm/srcs/main.c`, `otool/srcs/main.c`) | index of the word, `options.flags`, `-s` names, `arch_flags`, the list of files | read a file word, `-arch`, `-t`, a cluster of letters; check architectures; default file | everything reads its settings |
| File dispatch: `mapp_file`, `get_parse_info`, `handle_file`, the loops of both `main` over the files | the mapping, a `t_parse_info`, open descriptors | map a file, choose the walk by the magic number, print headings | calls the three walks |
| Fat files: `common/srcs/fat.c` | a `t_parse_info` per slice, reused for the next slice | `check_fat_file`, `check_fat_arch`, `handle_fat_file`, `handle_fat_arch` | hands slices to the archive or the Mach-O walk |
| Archives: `common/srcs/archive.c` | two cursors over the members, the first object's architecture, `check`, `final_check` | `check_archive_file`, `handle_archive_file` | hands objects to the Mach-O walk |
| Architecture selection: `check_archs_in_file`, `check_arch_in_file` (`common/srcs/mach-o.c`) | none | compare an image with the `-arch` flags | Mach-O and archive walks |
| Mach-O walk: `common/srcs/mach-o.c`, `load_command.c`, `handle_lc_segment.c`, `handle_lc_symtab.c`, `utils.c` | cursor over load commands, `final_size`, `sectab`/`secid`, `symtab`/`symid`, `section_start` | check pass, handle pass | `print_nm`, `print_otool` |
| Symbol letters, filter, order: `handle_lc_symtab.c`, `nm/srcs/main.c`, `nm/srcs/sort.c` | none | `get_symbol`, `check_section_selected`, comparators | Mach-O walk, `print_nm` |
| nm listing: `print_nm`, `create_section_start`, `sort_symtab`, `assign_symbol` | `symtab`, output | add the start line, sort, print | end of the Mach-O walk |
| otool printing: `print_otool` and what it calls | a second cursor over load commands, `tt_size`, `secid`, the dump position | find a section, `print_section`, `print_memory` | end of the Mach-O walk |
| Formatted output: `ft_printf`, `ft_fdprintf`, `ft_getf` (`libft/ft_printf.c`, `ft_getf.c`, `parsing.c`, `parse_conv.c`, `font.c`, `*_conv*.c`, `numeric_flags.c`) | the format, a chain of parts, one `va_list`, a running size | apply fonts, parse, convert, write the chain | error messages (`ft_fdprintf`), labels of slices (`ft_getf`); listings go through the C library's `printf` |
| Line reader: `get_next_line` (`libft/get_next_line.c`) | a static list of rests, one per descriptor | one call: look for the descriptor, take from the rest or read | part of the library; neither program calls it |
| Byte-order conversions, stab names, line formats, error reports, rest of libft, test script | none, or output only | straight-line code | everywhere |

What makes each correct:

* *Command line*: each word is read once and as one thing, `-u`/`-U` never both
  hold, `-arch` leaves a list later code can index, the program never starts
  without a file.
* *Fat*: a slice handed on lies in the file; with one malformed slice `nm` lists
  none; the slices are those asked for, none twice, labelled when there are several.
* *Archive*: every object is listed once and in order; `nm` hands on only members
  its check saw; the handle walk ends whatever the sizes are, the check walk where
  each size moves it forward; an architecture reported missing is missing.
* *Mach-O*: exactly the well-formed images are listed; no entry is read outside
  the file; what is stored fits what was allocated; section numbers mean the same
  in both passes.
* *nm*: the table printed is the selection the options ask for, in order, with
  letters that the complete section table would also give.
* *otool*: the section found is the one printed, completely, and behind it no more
  than the rest of the last group of bytes.
* *File dispatch*: every file of the command line is answered, in order, as it
  would be alone; no two listings carry the same name (but those of slices that
  differ in capability bits alone), and none stands under the heading of another.
* *Formatted output*: a call that succeeds writes what the C standard says of its
  format, although its arguments are taken in three passes; one that fails writes
  nothing from the failed conversion on and says so; the counts are true.
* *Line reader*: each call returns the next line of its descriptor, however calls
  for several descriptors alternate and however little a read returns.

Hard behaviours: two walks over the same data that step differently (Mach-O,
archive, otool's second walk), state from an earlier item used for a later one
(`cputype` of an archive, `extended`, `parse_info` of a slice, the section table),
integer widths, early exits of one of two loops, and termination of walks whose
stride is read from the file. Where there are
several actors of a kind, they are the two walks, the files of one command line
that share descriptors and a `t_pinfo`, and the descriptors that share one list of
rests. There are no threads, no persistent state and no messages.

`PROJECT.json` lists each of these hazards at its line.

## 2. Modules

    Symbols --> MachOFile --> MachO --+--> Nm -----implements-----> NmListing
    (letters,   (images,      (the    |     |
     order)     well-formed)  walk)   +--> Otool
                                |           |
                                |           |
                  MachOProofs --+-----> NmProofs                   (TLAPS)
                                +-----> OtoolProofs                (TLAPS)

    Arch --+--> Archive --> ArchiveProofs --+                      (TLAPS)
           +--> Fat ------> FatProofs       |                      (TLAPS)
           +--> Program (INSTANCEs Fat and Archive) --implements--> Report
                   |                        |
                   +--> ProgramProofs <-----+ (INSTANCE)           (TLAPS)
    Args ----> ArgsProofs                                          (TLAPS)

    Lines --implements--> LineReader;  Lines --> LinesProofs       (TLAPS)
    PrintfFormat --> PrintfConv --> Printf (INSTANCEs PrintfStandard)

| Module | Models | State and actions |
|---|---|---|
| `Symbols` | `get_symbol` and the letters, the five conditions of the filter, names and indirect names, `check_section_selected`, the four comparators | operators only |
| `MachOFile` | the image the walk meets; *reference* definition of a well-formed image in exact arithmetic | operators only |
| `MachO` | `handle_macho_file`: `check_macho_file`, `check_load_command`, `check_lc_*`, `handle_load_command`, `handle_lc_*`, `update_*_size` | `pc`, `i` (commands passed), `finalSize`, both tables with what was allocated for them, `nsyms` (entries left), `sectionStart`; one action per turn of a loop and per way out of it |
| `NmListing` | *abstract specification* of nm on one image: refuse, or print one permitted listing, in a single step | `status`, `out` |
| `Nm` | `MachO` followed by `print_nm` | adds `out`, `warned`; `StartPrint`, `sort_symtab`, `assign_symbol` |
| `Otool` | `MachO` followed by `print_otool` | the second walk (`j`, `ttSize`, `secid`), then `dump` and `rows` of `print_memory` |
| `Arch` | `check_arch_in_file`, `check_archs_in_file` | operators that give the *set* of possible results |
| `Archive` | `handle_archive_file`, `check_archive_file` | `k` (flag), `pos` (cursor), `extended`, `cpu`, `check`, `finalCheck`, `missing`, `handed`; `seen` is a history variable |
| `Fat` | `handle_fat_file`, `check_fat_file`, `check_fat_arch`, `handle_fat_arch` | `i`, `missing`, `handed` |
| `Args` | `parse_arguments`, both flag checkers, `check_arch_flags` and the checks of both mains | `i` (the word), `flags`, `segment`, `archs`, `files` |
| `Program` | both mains from the first file on: `mapp_file`, `get_parse_info`, `handle_file`, `print_nm`'s and `print_otool`'s headings and prefixes, over `Fat` and `Archive` | `n` (file), `fds` (descriptors left open), `mode` (which of the three walks is running), `out`, and the variables of the two composed machines |
| `Report` | *abstract specification* of a command line: file after file, each answered with something that suits it | `answered`, `report` |
| `PrintfFormat` | reading a format: `apply_font`, the font codes, `parse_conv` and its fields | operators only |
| `PrintfConv` | one conversion: numbers, characters and strings, `numeric_flags`, `hex_conv`, UTF-8 | operators that give the set of possible results |
| `PrintfStandard` | *reference*: what the C standard says an item shows, and what a call with these items looks like as a format and an argument list | operators only |
| `Printf` | the four passes of one call | `pc`, `str`, `i`, `ap` (arguments taken), `parts`, `k`, `dead`, `ret`, `stored`, `out`; `want` is a history variable |
| `LineReader` | *abstract specification*: a reader that hands out the lines of every file | text not handed out yet, last answer |
| `Lines` | `get_next_line`: `get_corr_fd`, `get_rest`, `make_clean`, one step per `read` | `list` (the static list), `fd` (call under way), what the kernel still holds, faults |
| `MachOProofs`, `NmProofs`, `OtoolProofs`, `FatProofs`, `ArchiveProofs`, `ProgramProofs`, `ArgsProofs`, `LinesProofs` | theorems | – |
| `MC*` | the instances TLC checks | – |

How data is abstracted:

* A Mach-O image is the sequence of its load commands, each with the bytes it
  leads to (section headers, symbol entries). Struct sizes are the real ones, so
  the arithmetic of the checks is the arithmetic of the code.
* Names are strings only so that they can be compared; `Rank` gives their
  `strcmp` order, `Prefixed` says which names `strncmp` takes for a wanted one.
* `U8`, `U32`, `U64` are the numbers of values of the C types. Every sum the code
  makes in a fixed width is taken modulo that number; a sum the code makes in a
  wider type (the end of a symbol table) is not.
* An archive is a function from offsets to what is read there. Reading at an
  offset where no member begins yields `noise`, behind the file `beyond`, and one
  byte in front of a header what the shifted fields give. This is what lets the
  check walk of the model go astray as the code's does.
* The topmost bits of a `cpusubtype` tell capabilities. `SubtypeSpan` is the number of
  subtypes below them; `Masked` takes them off and `Cpu` is what remains of an
  architecture then. `check_fat_file` alone compares subtypes as they stand
  (`Twice`, `fat.c:240`); the `-arch` flags, the choice for this machine and the labels
  go by `Cpu`.
* The commands both passes know are two sets, `CheckedCmds` and `HandledCmds`, as
  `load_command.c` writes them out twice.
* The sizes in the headers of an archive are integers: `ft_atoll` reads a minus sign.
  The check walk steps by them as they are, the handle walk takes a negative one for
  a large one.
* A slice of a fat file is its `fat_arch`, the kind of file at its offset, and
  whether the Mach-O or archive check accepts it (`ok`). In `Program` a slice also
  has its contents, an image or an archive, and what `Fat` hands on is walked.
* In `Program` the walk over one image and its listing are a single step with the
  outcome that `MachO`, `Nm` and `Otool` arrive at in many.
* `family` in `check_arch_in_file` is read without having been set when there is
  more than one `-arch` flag: the result is either Boolean.
* `qsort` may leave equal lines in any order: `sort_symtab` chooses any ordered
  arrangement.
* A call of the formatter is a row of items (text, font, conversion). The format
  string and the argument list are computed from it; the code's passes read
  them back character by character. Integer types have 8, 10, 12 and 20 bits
  instead of 8, 16, 32 and 64, so that every modifier cuts something TLC can hold.
  Reading one byte in front of a buffer is the character `WILD`. What a `%n` stores
  is a value and a number of bits: always those of a `long long`, whatever the
  modifier makes of the value.
* A file of `Lines` is a sequence of characters; a read returns any number of them
  up to `BUFF_SIZE`, or fails while `faults` are left.

## 3. Runs

Passing runs, with what their properties say:

| Run | Instance | Shows |
|---|---|---|
| `walk` (`MCWalk`) | both programs, images of up to three load commands out of fifteen, sound ones and one of each fault; and pairs with every known command; `U32 = 1024` so that sums wrap within reach | `TypeOK`, `EntryInsideFile`, `TablesFit`, `SectionsInOrder`, `NmReachesTheEnd`, `AcceptedIffWellFormed`, `WalkEnds` |
| `nm` (`MCNm`) | up to two symbols of ten kinds, up to four sections, segments in front of and behind the symbol table, two symbol tables, sixteen option sets | `Nm` implements `NmListing` (`ImplementsListing`, which includes that every image is refused or listed in the end); `LettersFinal`, `SectionStartShown` |
| `args` (`MCArgs`) | every command line of up to four words out of twelve, both programs | `TypeOK`, `FilesAreTheRest`, `NoContradiction`, `ArchsUsable`, `OneSection` |
| `archive` (`MCArchive`) | up to three members of eight kinds, long and short names, odd sizes, the last member cut off, a size of -40, -60 or -100, six lists of `-arch` flags | `ListsEveryObject`, `HandedWereChecked`, `RefusedForAReason`, `ListedIfFound`, `MembersInside`, `ArchiveEnds` |
| `fat` (`MCFat`) | up to three slices out of seventeen, two of them with capability bits (`SubtypeSpan = 16`), five lists of flags, `U32 = 1024` | `SlicesInside`, `AllOrNothing`, `EachOnce`, `RightSlices` |
| `otool` (`MCOtool`) | up to three commands, whole files and cut ones, files shorter than their header, all three group widths, `-t`, `-d` and both | `RightSection`, `FirstOfItsName`, `RowsExact`, `OtoolEnds` |
| `program` (`MCProgram`) | both programs, up to four files out of twenty-six (images, fat files, archives, archives in fat files, sound and malformed; slices with capability bits; files that cannot be opened or mapped), four settings of `-o -A -P`, five of `-arch` (one names an architecture twice), two descriptors | `Program` implements `Report` (`AnswersAsAlone`); `ListingsToldApart`, `HeadingsFit` |
| `printf` (`MCPrintf`) | about 6500 calls: every conversion with every set of its flags, five widths, four precisions; all rows of three out of twelve items; `%n` behind long texts, formats that end in a conversion | `AsStandard`, `EveryArgumentOnce`, `FailsCleanly`, `CountsWhatItWrote`, `NothingWild` |
| `lines` (`MCLines`) | two descriptors, texts of up to five characters, `BUFF_SIZE` 3, one read error, one reopened descriptor | `Lines` implements `LineReader` (`ImplementsReader`); `OneEntryEach`, `RestIsShort` |

Why the bounds are enough: every comparison in the code looks at one item, at an
item and the next, or at an item and the first one of its kind, or at any two
items. Three items give each of these a distinct partner and one bystander. Four
words give an option, its two arguments and a word behind them, or two options
with their arguments. Every condition of a check has an input that fails it and
nothing else, and each width has an input whose sum wraps. Two symbols give
the sort and the "any earlier entry was the section's start" condition a
distinct partner. With two descriptors, the second directory of a command line
uses up the last one, and a fourth word stands behind it. Three items of a call
put a failing conversion, one that takes its width from the argument list or a
font in front of, between and behind others. Texts of five characters with a
buffer of three need two reads, and have line ends inside a buffer, at its end
and behind it.

Runs that show a disagreement between the code and what the repository says of
it (`expect: violation`; each is also in `PROJECT.json` under `findings`):

| Run | The code | What is said |
|---|---|---|
| `two_symtabs` | `check_lc_symtab` tests `pinfo->symtab`, which only the later pass sets | `malformed object (more than one LC_SYMTAB command)` |
| `ar_fat` | the check walk does not skip the padding byte and takes the name format of the first member for all | `is a fat file (not allowed in an archive)` |
| `otool_section` | the bit tested for `-s` is nm's | usage line: `-s <segname> <sectname>` |

The models show more of the kind, which need no run of their own because a
passing property names the condition: `stroff + strsize` (`handle_lc_symtab.c:102`)
and `offset + size` (`fat.c:223`) are added in 32 bits, so that a sum that wraps
passes the check its message describes; an archive whose objects differ
in architecture is judged by the first of them (`archive.c:77`); slices that differ in
capability bits alone pass the check of `fat.c:240`, and `nm` lists both under one
label, although its message says `contains two of the same architecture` and every
other comparison takes them for that; the check walk stays for ever at a member whose
size is `-60` (`archive.c:100`); and `%n` stores eight bytes where its modifier
says one, two or four (`n_conv.c:26-40`).

Conditions some properties carry. They are all there because without them the
code does something else, and TLC shows it:

* `AcceptedIffWellFormed` needs `NoWrap`: the end of a string table or a segment
  may wrap.
* `EachOnce` compares subtypes as `fat.c:240` does: without an `-arch` flag that chooses,
  slices that differ in capability bits alone are both handed on. With one, only the
  first slice of an architecture is (`RightSlices`).
* `ArchiveEnds` is about the handle walk on every archive (`otool` without `-arch`
  takes no other), and about both where every size that may be read is above `-60`.
* `HandedWereChecked` and `MembersInside` need even member sizes, and `MembersInside`
  no minus sign behind the file; `ListsEveryObject`
  needs an archive whose members do not overlap (`WellLaidOut`), odd sizes included.
  `RefusedForAReason` and `ListedIfFound` need both and names written in one way.
  Where the check is not asked to look for an architecture (`-arch all`, or a slice
  chosen already) nothing but a fat member refuses; `otool` hands on no objects behind
  a fat member that `check_fat_file` rejects, so `ListsEveryObject` asks that it pass.
  Behind a member of odd size the check walk stands one byte in front of the next
  header, and what it reads there is not a member; `ar_fat` shows one consequence.
  They also need that the bytes behind the mapping do not read as a large size: the
  check walk reads the size field of a header behind the last member.
* `RightSection` and `FirstOfItsName` need every command to be a known one: the
  first walk of otool stops at an unknown command and the second does not, so the
  second may count further than the table. They also need `HeadersFit`, which
  `WellFormed` includes: the second walk reads no section header behind the end of
  the file and does not count it, the first counts every one a command announces.
  Where a command claims fewer bytes than its headers take, the next one begins among
  them, and a section of it is looked up under a number that is too small.
* `FirstOfItsName` needs a file size below 2^32: the size of the commands is replaced
  by what is left of the file, in a `uint32_t`. A file shorter than its header, where
  what is left is negative and becomes about 2^32, is one of the run's.
* `RowsExact` allows the rest of the last group behind the end of the section or of the
  file: groups of two and four bytes are read whole (`otool/srcs/main.c:17-31`).
* `SectionStartShown` needs `-a` and none of `-g -u -U`: `section_start` is set
  before the filter has decided whether the entry is printed. It also needs fewer
  sections than `n_sect` counts: beyond, the number is cut and names another section.
* `LettersFinal` exempts the letter S of a symbol whose section comes from a
  segment command behind the symbol table.
* `ListingsToldApart` leaves out `-o -P` without `-A` (the headings are gone and
  the lines have no prefix), two `-arch` flags for one architecture (`nm` lists the
  slice for each of them), otool on members of an archive in a labelled slice
  (its heading names the architecture and drops the member), and the listings of
  `CapabilityTwins` where no `-arch` flag chooses.
* `AnswersAsAlone` counts directories: `mapp_file` does not close the descriptor of
  a file it cannot map, so a file behind `MaxFds` of them cannot be opened. What a file
  is answered with is described for a `SoundDisk`: archives laid out as ar(5) has it,
  with members of even size, names written in one way and nothing behind the end that
  reads as a member; slices inside their file, aligned, no two of the same
  `cputype` and subtype word, each of a known `cputype`, an archive filling its
  slice; an object's header naming the architecture of its image. Images may be malformed, stripped or of a foreign
  architecture, and slices and archives refused, all the same. TLC evaluates
  `SoundDisk` of the disk of `MCProgram` (`DiskIsSound`).
* `AsStandard` and `FailsCleanly` are stated for `Settled` items. Where this
  formatter and the standard part ways: a blank flag together with `-` or a
  precision; a `0` flag with a precision on a negative number; a value whose low
  `int` is zero (`check_zero` asks `ft_atoi`) with precision 0; `0x` of `%#-X`;
  `%-0u`; `%p` of a null pointer with precision 0; the width of a NUL character;
  the zero of a precision, read as a `0` flag; code points 0x10000–0x1FFFF;
  a precision inside a multibyte string, whose length is read unset; `%b`, which
  the standard has not.
  They also ask that no `*` or font stands behind a value: widths and fonts are
  taken from the argument list in passes of their own (`StarsFirst`,
  `FontsFirst`). `EveryArgumentOnce` holds without that.
* In `ft_getf` a `%n` is a failed conversion (`CountsWhatItWrote` asks for `fd`).
  `CountsWhatItWrote` says that a `%n` covers the object it is given and that the value
  there is right; what stands behind a smaller object is overwritten all the same.

**Fairness.** Each program is one sequential process without any wait, so some
step is always taken until it stops: the specifications of `MachO`, `Nm`,
`Archive`, `Otool` and `Program` assume weak fairness of their whole step relation,
and of nothing finer. The liveness properties (`WalkEnds`, `ArchiveEnds`,
`OtoolEnds`, and the last conjuncts of `NmListing!Spec` and `Report!Spec`) then say
that the loops make progress whatever sizes the file holds: a size of zero, a sum
that wraps, a size that becomes negative. The one loop that does not, the check walk
of an archive, is left out by the condition in `ArchiveEnds`. `Lines` assumes that a call under
way goes on (a `read` of a regular file returns), and nothing of the caller, who
need not make another. `Fat`, `Args` and `Printf` count up to a length, state no
liveness and assume no fairness. A stopped program repeats its last state, so that
TLC's deadlock check finds any state in which the model knows no next step. In
`lines` the next call is always possible.

## 4. Proofs

| Theorem | For every | Says |
|---|---|---|
| `TypeCorrect` | set of images, options, widths | the types of the walk, and `Position`: where each counter is live |
| `EntriesInside` | the same | the handle pass of `nm` reads only entries the check pass placed in the file |
| `ReachesTheEnd` | the same | the handle pass of `nm` never stops at a command the check pass accepted |
| `TablesAlwaysFit` | the same, under `Countable(m)` | the growing tables never overrun their allocation |
| `SectionsAlwaysInOrder` | the same | the section table is the sections of the commands walked over, in file order |
| `ExactlyTheWellFormed` | the same | `nm` accepts the images of the reference definition and no others |
| `ListsAsPromised` | the same, under `NumbersFit` | every step of `Nm` is a step of `NmListing` or a stutter |
| `LettersAlwaysFinal` | the same | a letter is the one the complete section table gives |
| `StartAlwaysShown` | the same | `-l -s` shows where the section starts |
| `RightSectionAlways` | the same, and the prefixes `strncmp` sees | the two walks of otool number the sections alike |
| `FirstAlwaysFound` | the same | the section printed is the first of its name, for each one asked for |
| `RowsAlwaysExact` | the same | every byte of the section is printed, none in front of it, and behind it at most the rest of the last group |
| `FatTypeCorrect` | set of fat files, flags, table of architectures | the types of the walk over the slices |
| `HandedInside` | the same | a slice handed on lies inside the file, on all three ways |
| `NothingOfABadFile` | the same | `nm` lists nothing of a file with a malformed slice |
| `EachAtMostOnce` | the same | `nm` hands on no two slices that `check_fat_file` takes for the same; under `-arch` no architecture comes twice, unless two names stand for one |
| `AlwaysTheRightSlices` | the same, a table that knows this machine's `cputype` | what is handed on at the end is what was asked for: with `-arch` the first slice of each architecture named |
| `HandedInOrder` | set of archives, flags, table of architectures | members are handed on in file order, each once |
| `ChecksWhatItHandsOn` | the same | `nm` hands on only members its check walk stood at |
| `HandsOnWholeMembers` | the same | a member handed on lies inside the archive, unless a minus sign is read behind the file |
| `HandsOnEveryObject` | the same | an archive that is listed is listed completely |
| `RefusesOnlyFat` | the same | a regular archive is refused for a fat member and, where no architecture is looked for, for nothing else |
| `FindsTheFlag` | the same | a flag the first object answers to is found, and an archive listed under `-arch` has a flag of its family |
| `HeadingsAlwaysFit` | disk, command lines, table of architectures, descriptors | nothing is listed under the name of something else |
| `ListingsAlwaysToldApart` | the same | no two listings carry the same name, but those of slices that differ in capability bits alone |
| `ListsAsAlone` | the same, under `SoundDisk` | every step of `Program` is a step of `Report` or a stutter: each file is answered in its turn, with what it would get alone |
| `ArgsTypeCorrect` | words, command lines of any length | the index over the words stays inside the command line |
| `FilesAreTheLeftOver` | the same | the files are the words the grammar leaves over, in their order |
| `TakesOneSection` | the same | `nm` lists the section its one `-s` names |
| `NeverBoth` | the same | `-u` and `-U` never both hold |
| `ArchsAlwaysUsable` | the same | the list of architectures is one the file handlers can index |
| `LinesTypeCorrect` | descriptors, texts, `BUFF_SIZE`, faults | the types of the reader |
| `AlwaysOneEntry` | the same | the list of rests has one entry per descriptor |
| `RestAlwaysShort` | the same | a rest is shorter than a buffer between calls |
| `ReadsLikeAReader` | the same | every step of `Lines` is a step of `LineReader` or a stutter |

They rest on the `ASSUME`s of the modules: the widths are positive, the images,
fat files, archives, texts and options have their types, `Rank` orders the names;
`-arch` and `-t` are read as letters only when they are spelt with those letters; what
an archive says one byte in front of a header (`shifted`) is given for headers only;
what stands on the disk of `Program` has the types of `Fat` and `Archive`.
TLC evaluates these assumptions in every run.

*The Mach-O walk.* `EntryInsideFile` speaks of the handle pass alone and is not
inductive: it says nothing of the pass that made it true. The invariant behind it is
`TypeOK /\ Position /\ Checked`. `Checked` says that in the check pass every command
passed over so far is `Passed` (known, and a symbol table inside the file and in
front of the strings), and in the handle pass every command of the image is.
`CheckPasses` links it to `check_load_command`; `EndCheck`, where `i = ncmds`,
turns the one half into the other. That a command of the first list is on the second,
which `ReachesTheEnd` needs, is `ListsAgree`. `EntriesInside` is then arithmetic: the n-th
entry ends no later than the table.

`TablesFit` needs a bound, since `secid` and the size passed to the allocation
are sums in a `uint32_t`. `Countable(m)` is that bound: no table of an image has more
than `m` entries, and `m` entries for every command can be counted. `Fits(m)`
carries `Len(sectab) <= i * m`, and likewise for the symbols, through the walk, so that
the sums at the next command are exact (`NoCut`).

*Images and their reference definitions.* `SectionsOf` and `SizesOf` are functions
defined by recursion over the commands. What such a definition means is itself a
theorem: `Recursion` shows that a function with the wanted values exists
(functions on `0..n` are extended one place at a time, the least place where
that fails being the contradiction), and `SectionsOfIs` and `SizesOfIs` give the
equations the step proofs use. `InOrder` (the table so far is `SectionsOf(file)[i]`)
and `Judged` (in the check pass, `finalSize` is the sum so far and every command
so far is well formed; a rejected image has a command, or a sum, that is not) are
then kept step by step.

*nm.* `Gathered` says what the table holds in the middle of the walk: the lines of
the tables behind, followed by those of the entries of this table already read, and
that `sectionStart` is set exactly when one of these entries stands at the start.
`StartLinesAre` compares the line `create_section_start` adds with the promised one,
which is where `n_sect` must be wide enough (`NumbersFit`), and `SortKeeps` shows that an
arrangement of the promised lines is a permitted listing. `LettersAlwaysFinal` and
`StartAlwaysShown` assume nothing of the widths: for the first, the table so far is
a prefix of the complete one (`SectionsGrow`); for the second, `StartInv`
carries a row that shows the start from where the flag is set to the output.

*otool.* `RightSection` speaks of the moment a section is printed; what makes it true
was counted over all the commands in front. `Counted` says that `secid` is the
number of sections of the commands passed, or that the walk is already behind its
`Bound`, the end of the commands as the second walk counts it, where no header is
taken up (`ReadableIs`) and so nothing found.
Either half alone is not inductive: a command whose headers run over the end is
not counted in full, and only its size (`HeadersFit`) puts the next one outside.
For `FirstOfItsName`, `Searched` adds that no section passed has the wanted name and
that `ttSize`, a sum in 32 bits, is the exact one, which keeps the loop from
ending early (`FineIs`). `RowsExact` rests on `GroupStarts`: of the first `m` bytes of a row,
the places where a group begins are as many as groups of that width are needed to cover
`m` bytes. `RowsOK` carries this for every row, and `RowOfByte` finds the row of a byte.

*Fat files.* `Clamp` gives a negative size for a slice that begins behind the end
of the file. `SlicesInside` holds because each of the three ways asks first, in
three different places; `ClampInside` is the arithmetic, and the step theorem has one case
per way. `NothingOfABadFile` needs `Checked` (every slice passed by the check loop
satisfies `check_fat_arch`, and all do when it is over) and `Counting`, which ties the
counter to the loop it belongs to, since one counter serves three loops.
`AlwaysTheRightSlices` strengthens them with `Exact`, which says of every stage of each
way which slices have been handed on: in the loop over all slices the usable ones up
to `i`, in the loop over the flags the fitting ones that are the first of an
architecture named by one of the first `i` flags. This asks nothing of the check:
`otool` makes none, and the check of `nm` lets slices pass that `-arch` takes for the same.
`EachAtMostOnce` needs `Exact` too, to know that a slice about to be handed on is new.
For all slices it adds `~Twice` from `Checked`; for the flags it asks that they stand
for different architectures, since two names of the system's table may stand for one.

*Archives.* The handle walk goes on only behind a member whose size is not negative,
and then by at least a header, which gives the order; the check walk may stand still
or go back. With even sizes both strides are equal, so the places the handle walk passes are among those
the check walk has `seen`; for `HandsOnEveryObject` the walk is tied to the layout
instead: the cursor stands at a member or at the end, and every object in front of
it has been handed on.

The check walk is tied to the layout in the same way (`AtMembers`: while it
looks at anything, it stands at a member or at the end of the file), but only in
`Regular` archives, where its idea of the next header is right. `NoFatBehind` says
that no member it has left behind is a fat file, which needs `AtMembers`: a cursor
beside the members would miss one. `Accepting` says that without `-arch` nothing but a
finding refuses. For `FindsTheFlag`, `Found` says that a flag done with, to which the
first object answers, was found. The check
takes the architecture of an archive from the first object it meets, and `MetFirst`
shows that this is the one the property names: nothing lies between two members
that the cursor could step over (`NoneBetween`).

*Command line.* The type theorem is where the work is: three functions advance one
index by one, two or three words, and each relies on its own comparison with
`argc`. `ArchsUsable` speaks of a finished command line; `Parsed` carries through the
parse that the list is empty exactly when `-arch` was not given. `FilesAreTheRest` compares the parser, which goes
forward word by word, with a recursive reading of the usage line. `StartsAre` turns
that recursion into a fact about the next option or file: the least set closed under
going on behind an option and its words is the function wanted. `PickedIs` does the same
for the words picked so far (`UpTo`: at the least place where it fails it does not).
`FilesSoFar` then says that the parser stands where a word of the grammar begins, with
the files picked in front of it; `ReadsOne` is the one lemma about what a word comes
to. `SectionSoFar` does the same for `-s`: the names stored are those of the one
option passed, and a second one is refused.

*The files together.* `Program` moves between three walks, and the name of a listing
is printed in one of them (`handle_fat_arch`, `handle_archive_file`, `print_nm`) long
before the lines it stands over (`handle_macho_file`), if these come at all.
`HInv` makes `HeadingsFit` inductive. `Ahead` says that when `nm` comes to an image
without `-o`, the last line names that image, or nothing was printed yet, or
`print_nm` will print the name; `Begun` and `NoHeadings` are the cases in which no name
is due. That a single file is printed without any is sound only because at most one of
its slices is, which `FatWays` keeps (more than one slice, and all of them carry
their architecture). For `ListingsToldApart`, `NamesSoFar` describes every name in the output:
its file is not a later one, and if it is the current one, the name is that of a slice
or a member handed on and left (`Behind`). `MembersApart` (members are handed on
from front to back) and `ArchsApart` (slices of `nm` are of different
architectures, stage by stage of the walk: the check refuses two with the same subtype word, which leaves `CapabilityTwins`, and
of those the loop over the flags takes the first) make the next name new.

`ListsAsAlone` compares what three interleaved walks have printed when the next file
begins with what a definition says of that file alone, which is recursive in the
slices, the flags and the members. Its invariant `WInv` has four parts:

* Where the program may be: `Granted` (every directory passed has taken a descriptor,
  while there were any), `Reaching` (a file under way is `Reached`), `FatSound` and
  `SizesKept` (past the check, the slices are in order, and are handed on as they lie
  on the disk).
* What the walk over members does: `ArInv`, the inductive invariants of `ArchiveProofs`
  itself, which is an `INSTANCE` here, for every archive a file or a slice comes to.
  `RegularIs` gives these archives the conditions of the properties of the `archive`
  run, and `ArchiveSaid` turns the properties into what has been listed when
  `handle_archive_file` returns: all objects, or none, or either where only the family
  of a flag agrees.
* What the walk over slices does: `Considered` is the sequence of slices that
  `handle_fat_file` is through with, with a 0 for a flag that names none, on each of
  its three ways.
* What was printed: `InFile` says that the listings of the current file are those of
  the slices considered (`SlicesDone`) followed by those of the members handed on from
  the archive under way (`MembersDone`), each an answer the definition permits.

The recursive definitions (`Listings`, `Concats`, `ObjectsOf`) get their meaning from
`Recursion` and `Agreement`: a function on `0..n` given by its first value and its
step exists, and two that take the same steps are equal. So `Listings(Append(o, x))`
and `Concats(Append(s, a))` are what they should be, and each step of the program
extends one of the two sequences at its end (`SliceAdds`, `MembersMore`). Where a walk ends, the part it was in the middle
of becomes one answer of the walk around it (`SliceDone`, `EndArchiveSaid`), and at the
next file one answer of the command line (`HandledOver`).

*Line reader.* `make_clean` removes an entry from the middle of the list, and
`get_corr_fd` adds one; `AlwaysOneEntry` needs that descriptors in the list are
pairwise different before it can say which entry `Join` changes. For
`ReadsLikeAReader` the text a reader has not handed out is the rest followed by
what `read` has not returned, so a `read` is a stutter and a line taken from a
rest is the first line of that text (`HasLine` of the front decides for the whole).

Only model-checked:

* liveness (`WalkEnds`, `ArchiveEnds`, `OtoolEnds`, the fairness halves of the
  refinements), which is out of the prover's reach;
* `Printf`: `AsStandard`, `EveryArgumentOnce`, `FailsCleanly`, `CountsWhatItWrote` and
  `NothingWild` are statements about recursive functions over the format and the digits
  of numbers of bounded size, for calls that are rows of the items listed in `MCPrintf`;
* the three properties that are violated.

## 5. Not modelled

* Files smaller than their magic number: reads behind the mapping are only in the
  archive walk (`beyond`).
* Byte-order conversions: the models take the fields as read through them.
* Stab names, the layout of the lines of `assign_symbol`, error texts: formatted
  output without state. `nm` prints each row of the table once, in table order, in every
  layout; what stands in front of the rows is in `Program`.
* `nm/srcs/main.c:122`, where "no letters" and "an error" are the same value, and
  `otool/srcs/main.c:149`, where names are compared over the length of the wanted
  one: the first has no state to be wrong later, the second is `Prefixed`.
* Of the formatter: floating-point numbers (`f`, `e`, `g`), whose digits come from
  `long double` arithmetic; the `'` flag, whose buffer is too short for the separators
  written to it (`display_separator`); a brace that is never closed.
* The rest of libft (strings, memory, lists, number parsing), which are
  functions of their arguments. The models use what their callers rely on.
* What an overrun of the heap by one byte does (`ft_ulltoa.c:41` counts the digits
  from zero): the allocator decides, the model takes the digits as written.
* Archive size fields that are not numbers, or too long for a `long long`.
* Segment and section names of 16 bytes, which are not terminated and are
  compared with `strcmp`.
* The name in front of an object with a long name, which the size handed on still
  counts (`archive.c:194`).
* A descriptor that is closed before it was read to its end and opened again: it gets
  the text of the file before (`get_next_line.c:97`).
* `qsort_symtab`, `swap_sym` and `update_fat_symtab`, which nothing calls.
* Allocation failures, which end the program.

## 6. Plan

Done: the modules of section 2, and the theorems of section 4.

Next, in this order:

1. `Printf`: `EveryArgumentOnce` and `CountsWhatItWrote` for every call.
2. `Conversions`: the byte swaps as operators on words, each its own inverse;
   the output formats of `assign_symbol` as data, where two options meet.
