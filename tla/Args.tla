-------------------------------- MODULE Args --------------------------------
(***************************************************************************)
(* parse_arguments with the flag checkers of nm and of otool, and the      *)
(* checks both mains make before they open a file.  The command line is a  *)
(* sequence of words.  A word that starts with a dash is an option: -arch, *)
(* -t of nm, or a cluster of one-letter flags.                             *)
(***************************************************************************)
EXTENDS Integers, Sequences, FiniteSets

CONSTANTS
  Cluster,     \* the letters behind the dash, for each option word
  Words,       \* every other word
  KnownArchs,  \* the names NXGetArchInfoFromName knows
  Bins,        \* the programs: a subset of {"nm", "otool"}
  MaxWords     \* bound on the length of the command lines checked

Word == DOMAIN Cluster \cup Words

ASSUME WordsAssumption ==
  /\ Words \cap DOMAIN Cluster = {}
  /\ "a.out" \in Words /\ "-arch" \in DOMAIN Cluster /\ "-t" \in DOMAIN Cluster
  /\ Cluster["-arch"] = {"a", "r", "c", "h"} /\ Cluster["-t"] = {"t"}
ASSUME ArchsAssumption == "all" \notin KnownArchs
ASSUME BinsAssumption == Bins \subseteq {"nm", "otool"}
ASSUME MaxWordsAssumption == MaxWords \in Nat

VARIABLES
  argv, bin,  \* the words behind the program name, and the program
  pc,         \* "parse", "check", "ready" or "usage"
  i,          \* the word parse_arguments has reached
  flags,      \* options.flags: letters, "arch" and "t"
  segment,    \* <<segname, sectname>>, or << >> while both are NULL
  archs,      \* arch_flags
  files       \* the files to handle

avars == <<argv, bin, pc, i, flags, segment, archs, files>>

ValidLetters == [nm    |-> {"a","g","n","o","p","r","u","U","m","x","j","l","f","A","P","s"},
                 otool |-> {"f","a","h","l","t","d","s"}]

IsOption(w) == w \in DOMAIN Cluster

At(k) == IF k <= Len(argv) THEN argv[k] ELSE "NULL"

-----------------------------------------------------------------------------
Init ==
  /\ argv \in UNION {[1..n -> Word] : n \in 0..MaxWords} /\ bin \in Bins
  /\ pc = (IF bin = "otool" /\ argv = << >> THEN "usage" ELSE "parse")
  /\ i = 1 /\ flags = {} /\ segment = << >> /\ archs = << >> /\ files = << >>

Usage == pc' = "usage" /\ UNCHANGED <<argv, bin, i, flags, segment, archs, files>>

Reading == pc = "parse" /\ i <= Len(argv)

\* Mutant: a file name is lost when another one was read before it.
ReadFile_Replace ==
  /\ Reading /\ ~IsOption(argv[i])
  /\ files' = <<argv[i]>> /\ i' = i + 1
  /\ UNCHANGED <<argv, bin, pc, flags, segment, archs>>

ReadFile ==
  /\ Reading /\ ~IsOption(argv[i])
  /\ files' = Append(files, argv[i]) /\ i' = i + 1
  /\ UNCHANGED <<argv, bin, pc, flags, segment, archs>>

update_arch_flags ==
  /\ Reading /\ argv[i] = "-arch"
  /\ IF i = Len(argv) THEN Usage
     ELSE /\ archs' = Append(archs, argv[i + 1])
          /\ flags' = flags \cup {"arch"}
          /\ i' = i + 2
          /\ UNCHANGED <<argv, bin, pc, segment, files>>

update_format ==
  /\ Reading /\ argv[i] = "-t" /\ bin = "nm"
  /\ IF At(i + 1) \notin {"d", "o", "x"} THEN Usage
     ELSE /\ flags' = flags \cup {"t"}
          /\ i' = i + 2
          /\ UNCHANGED <<argv, bin, pc, segment, archs, files>>

\* Mutant: the bit is the same in both programs.
TakesSection_Both(letters) == "s" \in letters

\* The bit both checkers test for -s is the one nm's letter sets.  otool's own
\* letter s sets another bit, so its section names are never taken.
TakesSection(letters) == bin = "nm" /\ "s" \in letters

\* Mutant: -u and -U are compared within one word only.
Contradicts_OneWord(letters) == bin = "nm" /\ {"u", "U"} \subseteq letters

Contradicts(letters) == bin = "nm" /\ {"u", "U"} \subseteq flags \cup letters

\* Mutant: a second -s replaces the first.
SectionRefused_Never(letters) ==
  TakesSection(letters) /\ Len(argv) = i + 1

\* -s is refused a second time, and with one word behind it instead of two.
SectionRefused(letters) ==
  TakesSection(letters) /\ (segment # << >> \/ Len(argv) = i + 1)

\* A word with no letter returns 0, which is OPT_ERROR.
ReadLetters ==
  /\ Reading /\ IsOption(argv[i])
  /\ argv[i] # "-arch" /\ ~(argv[i] = "-t" /\ bin = "nm")
  /\ LET letters == Cluster[argv[i]] IN
     IF \/ ~(letters \subseteq ValidLetters[bin]) \/ letters = {}
        \/ SectionRefused(letters) \/ Contradicts(letters)
       THEN Usage
       ELSE /\ flags' = flags \cup letters
                        \cup (IF bin = "nm" /\ "A" \in letters THEN {"o"} ELSE {})
            /\ IF ~TakesSection(letters) THEN segment' = segment /\ i' = i + 1
               ELSE IF i = Len(argv) THEN segment' = <<"", "">> /\ i' = i + 1
               ELSE segment' = <<argv[i + 1], argv[i + 2]>> /\ i' = i + 3
            /\ UNCHANGED <<argv, bin, pc, archs, files>>

\* Without a file nm reads a.out and otool gives up.
EndParse ==
  /\ pc = "parse" /\ i > Len(argv)
  /\ IF files = << >> /\ bin = "otool" THEN Usage
     ELSE /\ pc' = "check"
          /\ files' = (IF files = << >> THEN <<"a.out">> ELSE files)
          /\ UNCHANGED <<argv, bin, i, flags, segment, archs>>

Elems(s) == {s[k] : k \in 1..Len(s)}

\* Mutant: "all" is accepted but the list is left as it was.
check_arch_flags_KeepList ==
  /\ pc = "check"
  /\ IF \/ bin = "otool" /\ flags \subseteq {"arch"}
        \/ "arch" \in flags /\ ~(Elems(archs) \subseteq KnownArchs \cup {"all"})
       THEN Usage
       ELSE pc' = "ready" /\ UNCHANGED <<argv, bin, i, flags, segment, archs, files>>

\* The checks behind the parser: otool needs an option that prints something,
\* every architecture must be known, and "all" takes the place of the others.
check_arch_flags ==
  /\ pc = "check"
  /\ IF \/ bin = "otool" /\ flags \subseteq {"arch"}
        \/ "arch" \in flags /\ ~(Elems(archs) \subseteq KnownArchs \cup {"all"})
       THEN Usage
       ELSE /\ pc' = "ready"
            /\ archs' = (IF "arch" \in flags /\ "all" \in Elems(archs)
                           THEN <<"all">> ELSE archs)
            /\ UNCHANGED <<argv, bin, i, flags, segment, files>>

Step == \/ ReadFile \/ update_arch_flags \/ update_format \/ ReadLetters
        \/ EndParse \/ check_arch_flags

Next == Step \/ (pc \in {"ready", "usage"} /\ UNCHANGED avars)

Spec == Init /\ [][Next]_avars

-----------------------------------------------------------------------------
(* Properties *)

SectionNames == (Word \cup {""}) \X (Word \cup {""})

TypeOK ==
  /\ argv \in Seq(Word) /\ bin \in Bins
  /\ pc \in {"parse", "check", "ready", "usage"}
  /\ i \in 1..(Len(argv) + 1)
  /\ flags \subseteq ValidLetters[bin] \cup {"arch", "t"}
  /\ segment = << >> \/ (bin = "nm" /\ segment \in SectionNames)
  /\ archs \in Seq(Word \cup {"all"})
  /\ files \in Seq(Word)

\* The usage line read as a grammar: how many words behind an option belong to
\* it.  "-s" as the last word has none and names the empty section.
Arity(k, sections) ==
  CASE ~IsOption(argv[k])                 -> 0
    [] argv[k] = "-arch"                  -> 1
    [] argv[k] = "-t" /\ bin = "nm"       -> 1
    [] IsOption(argv[k]) /\ argv[k] # "-arch" /\ ~(argv[k] = "-t" /\ bin = "nm") ->
         IF sections /\ "s" \in Cluster[argv[k]] /\ k + 1 < Len(argv) THEN 2 ELSE 0

\* The positions at which an option or a file stands.
Starts(sections) ==
  LET start[k \in 1..(Len(argv) + 3)] ==
        \/ k = 1
        \/ \E b \in 1..(k - 1) : /\ b <= Len(argv) /\ start[b]
                                 /\ k = b + 1 + Arity(b, sections)
  IN  {k \in 1..Len(argv) : start[k]}

FilePositions(sections) == {k \in Starts(sections) : ~IsOption(argv[k])}

SectionOptions == {k \in Starts(TRUE) : IsOption(argv[k]) /\ "s" \in Cluster[argv[k]]}

\* The words at the given positions, in order.
Pick(positions) ==
  LET p[k \in 0..Len(argv)] ==
        IF k = 0 THEN << >>
        ELSE IF k \in positions THEN Append(p[k - 1], argv[k]) ELSE p[k - 1]
  IN  p[Len(argv)]

\* The files are the words that are neither options nor arguments of options,
\* in the order given; a.out stands in for none.
FilesAreTheRest ==
  pc \in {"check", "ready"} =>
    LET words == Pick(FilePositions(bin = "nm")) IN
    files = IF words = << >> THEN <<"a.out">> ELSE words

\* otool's usage: "-s <segname> <sectname> print contents of section".  The two
\* words behind -s are then not files.
SectionWordsAreNoFiles ==
  pc = "ready" => LET words == Pick(FilePositions(TRUE)) IN
                  words # << >> => files = words

\* -u and -U never both hold, however they are spread over the words.
NoContradiction == bin = "nm" /\ pc # "usage" => ~({"u", "U"} \subseteq flags)

\* Handling a file relies on this: whenever -arch was given there is a first
\* architecture; it is "all" alone, or every one is known.
ArchsUsable ==
  pc = "ready" =>
    /\ "arch" \in flags <=> archs # << >>
    /\ archs = <<"all">> \/ Elems(archs) \subseteq KnownArchs

\* nm takes -s once at most, and the section it lists is the one named behind
\* that option: the next two words, or the empty names behind a last one.
OneSection ==
  bin = "nm" /\ pc = "ready" =>
    /\ Cardinality(SectionOptions) <= 1
    /\ SectionOptions = {} <=> segment = << >>
    /\ \A k \in SectionOptions :
         segment = IF k = Len(argv) THEN <<"", "">> ELSE <<argv[k + 1], argv[k + 2]>>
=============================================================================
