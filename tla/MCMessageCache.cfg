SPECIFICATION Spec
CONSTANTS
  u1 = u1
  u2 = u2
  Absent = Absent
  NoOne = NoOne
  Users <- TwoUsers
  MaxPerChat = 2
  PageSize = 1
  MaxMsgs = 2
  MaxStarts = 1
SYMMETRY UserSymmetry
INVARIANTS
  TypeOK
  NoDuplicates
  DroppedAloneIsGone
PROPERTIES
  ClearedStaysClear
CHECK_DEADLOCK FALSE
