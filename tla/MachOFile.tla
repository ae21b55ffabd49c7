----------------------------- MODULE MachOFile -----------------------------
(***************************************************************************)
(* A Mach-O image as the walks over its load commands meet it, and what it *)
(* means for such an image to be well formed.  No state.                   *)
(*                                                                         *)
(* The image is the sequence of its load commands, each with the bytes it  *)
(* leads to: the section headers behind a segment command, the symbol      *)
(* entries behind a symbol-table command.                                  *)
(***************************************************************************)
EXTENDS Symbols

CONSTANTS
  U32,      \* number of values of a uint32_t
  U64,      \* number of values of a uint64_t
  Files,    \* the images to list
  Options   \* the settings of the command line

\* The load commands check_load_command lets through, and those
\* handle_load_command goes on behind: each function has written out its own list.
CheckedCmds ==
  {"SEGMENT", "SYMTAB", "SYMSEG", "THREAD", "UNIXTHREAD", "LOADFVMLIB",
   "IDFVMLIB", "IDENT", "FVMFILE", "PREPAGE", "DYSYMTAB", "LOAD_DYLIB",
   "ID_DYLIB", "LOAD_DYLINKER", "ID_DYLINKER", "PREBOUND_DYLIB", "ROUTINES",
   "SUB_FRAMEWORK", "SUB_UMBRELLA", "SUB_CLIENT", "SUB_LIBRARY",
   "TWOLEVEL_HINTS", "PREBIND_CKSUM", "LOAD_WEAK_DYLIB", "SEGMENT_64",
   "ROUTINES_64", "UUID", "RPATH", "CODE_SIGNATURE", "SEGMENT_SPLIT_INFO",
   "REEXPORT_DYLIB", "LAZY_LOAD_DYLIB", "ENCRYPTION_INFO", "DYLD_INFO",
   "DYLD_INFO_ONLY", "LOAD_UPWARD_DYLIB", "VERSION_MIN_MACOSX",
   "VERSION_MIN_IPHONEOS", "FUNCTION_STARTS", "DYLD_ENVIRONMENT", "MAIN",
   "DATA_IN_CODE", "SOURCE_VERSION", "DYLIB_CODE_SIGN_DRS",
   "ENCRYPTION_INFO_64", "LINKER_OPTION", "LINKER_OPTIMIZATION_HINT"}

\* Mutant: the second list lacks a command of the first.
HandledCmds_NoLazyLoad == CheckedCmds \ {"LAZY_LOAD_DYLIB"}

HandledCmds ==
  {"SEGMENT", "SYMTAB", "SYMSEG", "THREAD", "UNIXTHREAD", "LOADFVMLIB",
   "IDFVMLIB", "IDENT", "FVMFILE", "PREPAGE", "DYSYMTAB", "LOAD_DYLIB",
   "ID_DYLIB", "LOAD_DYLINKER", "ID_DYLINKER", "PREBOUND_DYLIB", "ROUTINES",
   "SUB_FRAMEWORK", "SUB_UMBRELLA", "SUB_CLIENT", "SUB_LIBRARY",
   "TWOLEVEL_HINTS", "PREBIND_CKSUM", "LOAD_WEAK_DYLIB", "SEGMENT_64",
   "ROUTINES_64", "UUID", "RPATH", "CODE_SIGNATURE", "SEGMENT_SPLIT_INFO",
   "REEXPORT_DYLIB", "LAZY_LOAD_DYLIB", "ENCRYPTION_INFO", "DYLD_INFO",
   "DYLD_INFO_ONLY", "LOAD_UPWARD_DYLIB", "VERSION_MIN_MACOSX",
   "VERSION_MIN_IPHONEOS", "FUNCTION_STARTS", "DYLD_ENVIRONMENT", "MAIN",
   "DATA_IN_CODE", "SOURCE_VERSION", "DYLIB_CODE_SIGN_DRS",
   "ENCRYPTION_INFO_64", "LINKER_OPTION", "LINKER_OPTIMIZATION_HINT"}

Cmds == CheckedCmds \cup HandledCmds \cup {"UNKNOWN"}
SegmentCmds == {"SEGMENT", "SEGMENT_64"}

\* One load command.  "UNKNOWN" is any number neither list has.  The counts nsects
\* and nsyms of the command are the lengths of sects and syms.
LoadCommand ==
  [cmd : Cmds, cmdsize : 0..(U32 - 1),
   sects : Seq(Section), fileoff : Nat, filesize : Nat,
   symoff : 0..(U32 - 1), syms : Seq(Nlist),
   stroff : 0..(U32 - 1), strsize : 0..(U32 - 1)]

\* `wanted' is the outcome of check_archs_in_file, or TRUE for an image that is
\* a member of an archive or a slice handed on under a label.
File == [arch : {32, 64}, fsize : Nat, wanted : BOOLEAN,
         sizeofcmds : 0..(U32 - 1), cmds : Seq(LoadCommand)]

ASSUME WordAssumption    == U32 \in Nat \ {0} /\ U64 \in Nat \ {0}
ASSUME FilesAssumption   == Files \subseteq File
ASSUME OptionsAssumption == Options \subseteq Option

-----------------------------------------------------------------------------
(* The struct sizes of <mach-o/loader.h> and <mach-o/nlist.h>. *)

SegmentSize(c) == IF c.cmd = "SEGMENT" THEN 56 ELSE 72
SectionSize(c) == IF c.cmd = "SEGMENT" THEN 68 ELSE 80
SymtabCommandSize == 24
NlistSize(arch) == IF arch = 64 THEN 16 ELSE 12

\* The end of a symbol table is computed in 64 bits.
SymtabEnd(c, arch) == c.symoff + Len(c.syms) * NlistSize(arch)

-----------------------------------------------------------------------------
(* The reference: a well-formed image, in exact arithmetic. *)

\* SectionsOf(f)[n]: the sections of the segments among the first n commands.
SectionsOf(f) ==
  LET S[n \in 0..Len(f.cmds)] ==
        IF n = 0 THEN << >>
        ELSE S[n - 1] \o (IF f.cmds[n].cmd \in SegmentCmds
                            THEN f.cmds[n].sects ELSE << >>)
  IN  S

\* SizesOf(f)[n]: the size of the first n commands together.
SizesOf(f) ==
  LET S[n \in 0..Len(f.cmds)] ==
        IF n = 0 THEN 0 ELSE S[n - 1] + f.cmds[n].cmdsize
  IN  S

TotalSize(f) == SizesOf(f)[Len(f.cmds)]

StringTableInside(c, f) == c.stroff + c.strsize <= f.fsize

\* The symbol table lies in the file, in front of the string table.
SymbolTableInside(c, f) ==
  SymtabEnd(c, f.arch) <= f.fsize /\ SymtabEnd(c, f.arch) <= c.stroff

SegmentInside(c, f) == c.fileoff + c.filesize <= f.fsize

WellFormedCommand(c, f) ==
  \/ c.cmd \notin SegmentCmds \cup {"SYMTAB", "UNKNOWN"} /\ c.cmdsize > 0
  \/ /\ c.cmd \in SegmentCmds /\ SegmentInside(c, f)
     /\ c.cmdsize = SegmentSize(c) + Len(c.sects) * SectionSize(c)
  \/ /\ c.cmd = "SYMTAB" /\ c.cmdsize = SymtabCommandSize
     /\ SymbolTableInside(c, f) /\ StringTableInside(c, f)

WellFormed(f) ==
  /\ \A n \in 1..Len(f.cmds) : WellFormedCommand(f.cmds[n], f)
  /\ TotalSize(f) = f.sizeofcmds

\* No sum the checks make in a fixed width leaves that width.
NoWrap(f) ==
  /\ TotalSize(f) < U32
  /\ \A n \in 1..Len(f.cmds) :
       LET c == f.cmds[n] IN
       /\ c.cmd = "SYMTAB"     => c.stroff + c.strsize < U32
       /\ c.cmd = "SEGMENT"    => c.fileoff + c.filesize < U32
       /\ c.cmd = "SEGMENT_64" => c.fileoff + c.filesize < U64

\* Every segment command stands before every symbol-table command.
SegmentsFirst(f) ==
  \A m, n \in 1..Len(f.cmds) :
    f.cmds[m].cmd = "SYMTAB" /\ f.cmds[n].cmd \in SegmentCmds => n < m
=============================================================================
