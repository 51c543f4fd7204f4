SPECIFICATION Spec
CONSTANTS
  Callers = {c1, c2}
  Tokens = {"a", "b", "c", "x"}
  Obj = "obj"
  Mk = "mk"
  Open = "open"
  AI = "ai"
  File <- TheFile
  Tracked = TRUE
  Requests <- TheRequests
  MaxCalls = 2
  MaxCloses = 1
CHECK_DEADLOCK FALSE
INVARIANTS
  TypeOK
  CounterIsAhead
  RejectGivesTheFile
  BatchIsSimultaneous
PROPERTIES
  EditsAreAtomic
