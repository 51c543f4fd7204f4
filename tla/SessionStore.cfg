SPECIFICATION Spec
CONSTANTS
  Calls = {c1, c2, c3}
  Paths = {p1}
  Openers = {}
  NoCall = NoCall
  MaxSessions = 4
SYMMETRY CallSymmetry
INVARIANTS
  TypeOK
  PendingIsCurrent
  SingleFlight
  HandlesAreCurrent
  EditsStayReachable
  TmpDirsAccounted
PROPERTIES
  NeverDisplaced
