SPECIFICATION OSpec
CONSTANTS
  U8 <- MCU8
  U32 <- MCU32
  U64 <- MCU64
  Rank <- MCRank
  Prefixed <- MCPrefixed
  Jobs <- MCJobs
  Files <- MCFiles
  Options <- MCOptions
  Bins = {"otool"}
INVARIANTS
  RightSection
  FirstOfItsName
  RowsExact
PROPERTY OtoolEnds
