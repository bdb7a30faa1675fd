SPECIFICATION Spec
CONSTANTS
  u1 = u1
  u2 = u2
  chat = chat
  p1 = p1
  a1 = a1
  m1 = m1
  m2 = m2
  m3 = m3
  t1 = t1
  t2 = t2
  Users <- OneUser
  Chat <- chat
  Posts <- OnePost
  Albums <- Nothing
  Messages <- Nothing
  Owner <- OwnerOfPost
  Type <- NoTypes
  Tasks <- TwoTasks
  MaxBatch = 1
  MaxFiles = 3
  MaxRequests = 3
  MaxFaults = 0
SYMMETRY TaskSymmetry
INVARIANTS
  UploadsAreKept
CHECK_DEADLOCK FALSE
