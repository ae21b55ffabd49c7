SPECIFICATION Spec
CONSTANTS
  Cluster <- MCCluster
  Words <- MCWords
  KnownArchs = {"i386"}
  Bins = {"otool"}
  MaxWords = 4
INVARIANT SectionWordsAreNoFiles
