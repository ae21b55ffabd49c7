SPECIFICATION Spec
CONSTANTS
  Fds = {f1, f2}
  Texts <- MCTexts
  NL = "n"
  BUFF_SIZE = 3
  MaxFaults = 1
  MaxOpens = 1
  NoFd = NoFd
INVARIANTS
  OneEntryEach
  RestIsShort
PROPERTIES
  ImplementsReader
