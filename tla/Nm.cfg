SPECIFICATION NmSpec
CONSTANTS
  U8 <- MCU8
  U32 <- MCU32
  U64 <- MCU64
  Rank <- MCRank
  Files <- MCFiles
  Options <- MCOptions
  Bins = {"nm"}
INVARIANTS
  LettersFinal
  SectionStartShown
PROPERTIES
  ImplementsListing
