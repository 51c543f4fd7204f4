SPECIFICATION Spec
CONSTANTS
  Callers = {a, b}
  author = author
  File <- MCFile
  Tracked = TRUE
  MaxCalls = 3
  MaxResolves = 1
INVARIANTS
  PartsAgree
  SettledCommentsStay
SYMMETRY Symmetric
CHECK_DEADLOCK FALSE
