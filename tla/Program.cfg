SPECIFICATION Spec
CONSTANTS
  ArchTable <- MCArchTable
  SubtypeSpan = 16
  Disk <- MCDisk
  Requests <- MCRequests
  HostCpu <- MCHostCpu
  U32 = 4096
  MaxAlign = 10
  MaxFds = 2
INVARIANTS
  ListingsToldApart
  HeadingsFit
PROPERTIES
  AnswersAsAlone
