SPECIFICATION Spec
CONSTANTS
  CharBits = 8
  ShortBits = 10
  IntBits = 12
  LongBits = 20
  NumCalls <- MCNumCalls
  CallOf <- MCCallOf
INVARIANTS
  AsStandard
  EveryArgumentOnce
  FailsCleanly
  CountsWhatItWrote
  NothingWild
