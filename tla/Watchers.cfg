SPECIFICATION FairSpec
CONSTANTS
  Kinds = {"endpoints", "values", "tls", "backend"}
  Contents <- MCContents
  Decode <- MCDecode
  Services <- MCServices
  MaxChanges = 2
CHECK_DEADLOCK FALSE
INVARIANT ReaderCurrent
PROPERTIES NeverBack NewestArrives
