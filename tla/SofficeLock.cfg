SPECIFICATION Spec
CONSTANTS
  Procs = {p1, p2}
  Departed = departed
  Serials = {0, 1, 2, 3}
  NoRecord = NoRecord
  Faults <- LateOrEarly
SYMMETRY ProcSymmetry
INVARIANTS
  TypeOK
  MutualExclusion
  RemoversSerialized
  LockIsMine
  NoStrandedGuard
