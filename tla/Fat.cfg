SPECIFICATION Spec
CONSTANTS
  ArchTable <- MCArchTable
  SubtypeSpan = 16
  Fats <- MCFats
  ArchFlags <- MCArchFlags
  HostCpu <- MCHostCpu
  U32 = 1024
  MaxAlign = 10
  Bins = {"nm", "otool"}
INVARIANTS
  SlicesInside
  AllOrNothing
  EachOnce
  RightSlices
