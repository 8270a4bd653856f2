SPECIFICATION Spec
CONSTANTS
  w = w
  a1 = a1
  a2 = a2
  c1 = c1
  c2 = c2
  Process = {w, a1, a2}
  Worker = w
  Cycles = {c1, c2}
  StepCount = 2
  Requests <- MCRequests
  MaxId = 3
  Contents <- MCContents
  Written <- MCWritten
SYMMETRY MCSymmetry
CHECK_DEADLOCK FALSE
INVARIANTS
  TransactionsTypeOK
  DeadlocksNeedTheBatch
  BrokenOnlyByOverlap
