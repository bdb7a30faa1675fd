SPECIFICATION Spec
CONSTANTS
  Users = {u1}
  None = None
  Slots = {s1, s2}
  MaxTok = 2
SYMMETRY Symmetric
CONSTRAINTS
  OneFailure
  PassLasts
INVARIANTS
  TypeOK
  OnlyStaleAnswersReturn
  NoSelfReuse
  QueueHasRefresher
PROPERTIES
  SessionKept
