SPECIFICATION Spec
CONSTANTS
  u1 = u1
  s1 = s1
  s2 = s2
  Users <- OneUser
  Slots <- TwoSlots
  AccessTTL = 1
  RefreshTTL = 3
  Leeway = 1
  Requests = {"refresh", "logoutAll", "delete"}
  Evicts = FALSE
  MaxTime = 4
  MaxPairs = 3
SYMMETRY SlotSymmetry
INVARIANTS
  RevokedStaysOut
  EpochStaysOut
  OnlyTheRevokedAreRefused
  OnlyInFlightEscapes
  DeletedChainEnds
