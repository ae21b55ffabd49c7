SPECIFICATION Spec
CONSTANTS
  Cluster <- MCCluster
  Words <- MCWords
  KnownArchs = {"i386"}
  Bins = {"nm", "otool"}
  MaxWords = 4
INVARIANTS
  TypeOK
  FilesAreTheRest
  NoContradiction
  ArchsUsable
  OneSection
