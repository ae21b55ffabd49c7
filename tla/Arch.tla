-------------------------------- MODULE Arch --------------------------------
(***************************************************************************)
(* Does a Mach-O image answer to the architectures asked for with -arch?   *)
(* The comparisons made here take subtypes behind ~CPU_SUBTYPE_MASK: bits  *)
(* that only tell capabilities do not count.                               *)
(***************************************************************************)
EXTENDS Integers, Sequences

CONSTANTS
  ArchTable,  \* NXGetAllArchInfos(): a sequence of [name, cputype, cpusubtype]
  SubtypeSpan \* the subtypes there are without their capability bits: 2^24

ASSUME SubtypeSpanAssumption == SubtypeSpan \in Nat \ {0}
ASSUME ArchTableAssumption ==
  /\ ArchTable \in Seq([name : STRING, cputype : Int, cpusubtype : Int])
  /\ \A j, k \in DOMAIN ArchTable : ArchTable[j].name = ArchTable[k].name => j = k

ArchNames == {ArchTable[k].name : k \in DOMAIN ArchTable}

\* cpusubtype & ~CPU_SUBTYPE_MASK: the capability bits are the topmost ones.
Masked(cpusubtype) == cpusubtype % SubtypeSpan

\* What tells two architectures apart for all who mask.
Cpu(x) == <<x.cputype, Masked(x.cpusubtype)>>

\* NXGetArchInfoFromName
Info(name) == ArchTable[CHOOSE k \in DOMAIN ArchTable : ArchTable[k].name = name]

\* The family test: the table's first entry of that cputype has its subtype.
HeadsFamily(info) ==
  LET same == {k \in DOMAIN ArchTable : ArchTable[k].cputype = info.cputype}
  IN  \E k \in same : /\ \A j \in same : k <= j
                      /\ Masked(ArchTable[k].cpusubtype) = Masked(info.cpusubtype)

\* The possible results.  With more than one -arch flag `family' is read
\* without having been set.
check_arch_in_file(cputype, cpusubtype, flags, name) ==
  LET info == Info(name) IN
  IF info.cputype # cputype THEN {FALSE}
  ELSE IF Masked(info.cpusubtype) = Masked(cpusubtype) THEN {TRUE}
  ELSE IF Len(flags) = 1 THEN {HeadsFamily(info)}
  ELSE BOOLEAN

AllArchs(flags) == flags = << >> \/ flags[1] = "all"

check_archs_in_file(cputype, cpusubtype, flags) ==
  IF AllArchs(flags) THEN {TRUE}
  ELSE {\E k \in DOMAIN flags : r[k] :
          r \in {r \in [DOMAIN flags -> BOOLEAN] :
                   \A k \in DOMAIN flags :
                     r[k] \in check_arch_in_file(cputype, cpusubtype, flags, flags[k])}}
=============================================================================
