SPECIFICATION Spec
CONSTANTS
  MaxCalls = 3
  a = a
  Tokens = {a}
  NL = NL
  Obj = Obj
  None = None
  Doc0 <- TwoParagraphs
  Busy = 1
  Down = 1
  Conflict = 1
  MaxOutside = 1
  Overlap = FALSE
CHECK_DEADLOCK FALSE
INVARIANTS
  TypeOK
  AppliedOnce
  OnlyTornCachesMiss
  CacheMatchesRevision
  AnchorsAreUnique
