SPECIFICATION Spec
CONSTANTS
  p1 = p1
  p2 = p2
  Positions = {p1, p2}
  MaxParallelCloses = 1
  MaxRetries = 1
  PerCloseTimeout = 2
  Deadline = 3
INVARIANTS
  SoldAtMostOnce
  ClosedIsOnChain
PROPERTIES
  NoAttemptAfterTimeout
  KeepsContract
  RunTerminates
