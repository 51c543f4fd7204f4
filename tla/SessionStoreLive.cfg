SPECIFICATION FairSpec
CONSTANTS
  Calls = {c1, c2}
  Paths = {p1, p2}
  Openers = {}
  NoCall = NoCall
  MaxSessions = 3
PROPERTIES
  EveryCallAnswered
  KeepsPromise
