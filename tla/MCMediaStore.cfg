SPECIFICATION Spec
CONSTANTS
  u1 = u1
  u2 = u2
  chat = chat
  p1 = p1
  a1 = a1
  m1 = m1
  m2 = m2
  m3 = m3
  t1 = t1
  t2 = t2
  Users <- TwoUsers
  Chat <- chat
  Posts <- OnePost
  Albums <- OneAlbum
  Messages <- ThreeMessages
  Owner <- Owners
  Type <- Types
  Tasks <- TwoTasks
  MaxBatch = 2
  MaxFiles = 3
  MaxRequests = 3
  MaxFaults = 1
SYMMETRY TaskSymmetry
INVARIANTS
  TypeOK
  DanglingOnlyIfShared
  LeaksAreExplained
  LostOnlyIfRaced
CHECK_DEADLOCK FALSE
