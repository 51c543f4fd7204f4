SPECIFICATION FairSpec
CONSTANTS
  Procs = {p1, p2}
  Departed = departed
  Serials = {0, 1, 2}
  NoRecord = NoRecord
  Faults <- DeathsOnly
PROPERTIES
  DeadHolderReclaimed
