SPECIFICATION Spec
CONSTANTS
  u1 = u1
  s1 = s1
  s2 = s2
  Users <- OneUser
  Slots <- TwoSlots
  AccessTTL = 1
  RefreshTTL = 2
  Leeway = 1
  Requests = {"refresh", "logout"}
  Evicts = FALSE
  MaxTime = 3
  MaxPairs = 2
SYMMETRY SlotSymmetry
INVARIANTS
  TypeOK
PROPERTIES
  LogoutEnds
  RefinesTokenLife
