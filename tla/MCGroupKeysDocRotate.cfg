SPECIFICATION Spec
CONSTANTS
  u1 = u1
  u2 = u2
  u3 = u3
  u4 = u4
  Users <- ThreeFounders
  Founders <- ThreeFounders
  MaxKeys = 1
  MaxPairs = 2
  MaxRotations = 1
  MaxTasks = 2
  MaxFailures = 0
INVARIANTS
  RowsOpen
CHECK_DEADLOCK FALSE
