SPECIFICATION Spec
CONSTANTS
  U8 <- MCU8
  U32 <- MCU32
  U64 <- MCU64
  Rank <- MCRank
  Files <- MCFiles
  Options <- MCOptions
  Bins = {"nm", "otool"}
INVARIANTS
  TypeOK
  EntryInsideFile
  TablesFit
  SectionsInOrder
  NmReachesTheEnd
  AcceptedIffWellFormed
PROPERTY WalkEnds
