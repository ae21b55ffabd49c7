SPECIFICATION Spec
CONSTANTS
  ArchTable <- MCArchTable
  SubtypeSpan = 16
  Archives <- MCArchives
  ArchFlags <- MCArchFlags
  Bins = {"nm", "otool"}
INVARIANTS
  ListsEveryObject
  HandedWereChecked
  RefusedForAReason
  ListedIfFound
  MembersInside
PROPERTY ArchiveEnds
