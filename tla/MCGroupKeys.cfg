SPECIFICATION Spec
CONSTANTS
  u1 = u1
  u2 = u2
  u3 = u3
  u4 = u4
  Users <- FourUsers
  Founders <- ThreeFounders
  MaxKeys = 2
  MaxPairs = 2
  MaxRotations = 1
  MaxTasks = 2
  MaxFailures = 1
SYMMETRY FounderSymmetry
INVARIANTS
  TypeOK
  StaleOnlyIfOvertaken
CHECK_DEADLOCK FALSE
