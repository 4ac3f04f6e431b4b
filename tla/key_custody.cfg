SPECIFICATION CustodySpec
CONSTANTS
  o1 = o1
  o2 = o2
  s1 = s1
  r1 = r1
  k1 = k1
  k2 = k2
  k3 = k3
  k4 = k4
  k5 = k5
  NoWrapper = NoWrapper
  Orders = {o1, o2}
  Snapshots = {s1}
  CloseRuns = {r1}
  Wrappers = {k1, k2, k3, k4, k5}
  MaxUnlocks = 2
SYMMETRY CustodySymmetry
INVARIANTS
  KeyIsInUse
  OneLiveKey
