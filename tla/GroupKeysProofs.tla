--------------------------- MODULE GroupKeysProofs ---------------------------
(***************************************************************************)
(* Proofs about GroupKeys, for any users, founders and bounds.             *)
(***************************************************************************)
EXTENDS GroupKeys, TLAPS

Task == [at : {"none", "created", "listing", "wrapping"}, key : 0 .. keys,
         todo : SUBSET Users, wraps : [Users -> 0 .. MaxPairs]]
Sound(t) == t.at \in {"listing", "wrapping"} => t.key # 0

\* Type correctness of Init.
LEMMA TypeInit == Init => TypeOK
  BY FoundersAssumption, BoundsAssumption DEF Init, TypeOK, NoRow, NewTask, NoTask, Row

\* The tasks that do not depend on the state are tasks.
LEMMA TaskFacts ==
  ASSUME TypeOK
  PROVE  /\ NoTask \in Task
         /\ Created \in Task
         /\ \A k \in 0 .. keys : Listing(k) \in Task
         /\ \A k \in 0 .. keys, who \in SUBSET Users : Wrapping(k, who) \in Task
         /\ NoTask.at = "none" /\ Created.at = "created"
         /\ \A k : Listing(k).at = "listing" /\ Listing(k).key = k
         /\ \A k, who : Wrapping(k, who).at = "wrapping" /\ Wrapping(k, who).key = k
  BY BoundsAssumption DEF TypeOK, Task, NewTask, NoTask, Created, Listing, Wrapping

\* The task types, in the terms of this module.
LEMMA TaskTypes ==
  TypeOK <=>
    /\ members \subseteq Users
    /\ pub \in [Users -> 0 .. MaxPairs]
    /\ row \in [Users -> Row \cup {NoRow}]
    /\ keys \in 0 .. MaxKeys
    /\ held \in [Users -> 0 .. keys]
    /\ task \in [Users -> Task]
    /\ \A u \in Users : Sound(task[u])
    /\ rotations \in 0 .. MaxRotations /\ failures \in 0 .. MaxFailures
    /\ overtaken \subseteq Users
  BY DEF TypeOK, Task, Sound

\* A member is dealt with: the tasks that WrapFails and Wrap leave.
LEMMA LeftOut ==
  ASSUME NEW t \in Task, Sound(t), NEW s \in SUBSET Users
  PROVE  [t EXCEPT !.todo = s] \in Task /\ Sound([t EXCEPT !.todo = s])
  <1>1. [t EXCEPT !.todo = s] \in Task
    BY DEF Task
  <1>2. [t EXCEPT !.todo = s].at = t.at /\ [t EXCEPT !.todo = s].key = t.key
    BY DEF Task
  <1>3. QED
    BY <1>1, <1>2 DEF Sound

LEMMA TakenIn ==
  ASSUME NEW t \in Task, Sound(t), NEW s \in SUBSET Users,
         NEW w \in [Users -> 0 .. MaxPairs]
  PROVE  /\ [t EXCEPT !.todo = s, !.wraps = w] \in Task
         /\ Sound([t EXCEPT !.todo = s, !.wraps = w])
  <1> DEFINE n == [t EXCEPT !.todo = s, !.wraps = w]
  <1>1. n \in Task
    BY DEF Task
  <1>2. n.at = t.at
    BY DEF Task
  <1>3. n.key = t.key
    BY DEF Task
  <1>4. QED
    BY <1>1, <1>2, <1>3 DEF Sound

\* A client that goes on to a sound task leaves the tasks as they should be.
LEMMA Becomes ==
  ASSUME TypeOK, NEW u \in Users, NEW t \in Task, Sound(t), Become(u, t)
  PROVE  task' \in [Users -> Task] /\ \A v \in Users : Sound(task'[v])
  BY TaskTypes DEF Become

LEMMA FoundersAreUsers == Founders \subseteq Users
  BY FoundersAssumption

\* Every step keeps the types.
LEMMA TypeStep == TypeOK /\ [Next]_vars => TypeOK'
<1> SUFFICES ASSUME TypeOK, [Next]_vars PROVE TypeOK'
  OBVIOUS
<1> USE BoundsAssumption, FoundersAreUsers DEF Row
<1>t. /\ task \in [Users -> Task] /\ \A v \in Users : Sound(task[v])
      /\ keys \in 0 .. MaxKeys /\ held \in [Users -> 0 .. keys]
      /\ pub \in [Users -> 0 .. MaxPairs] /\ members \subseteq Users
      /\ row \in [Users -> Row \cup {NoRow}]
  BY TaskTypes
\* The steps that only move one client's task.
<1>m. ASSUME NEW u \in Users, NEW t \in Task, Sound(t), Become(u, t),
             members' \subseteq Users, UNCHANGED <<pub, row, held, keys, rotations, overtaken>>,
             failures' \in 0 .. MaxFailures
      PROVE  TypeOK'
  <2>1. task' \in [Users -> Task] /\ \A v \in Users : Sound(task'[v])
    BY <1>m, Becomes
  <2>2. QED
    BY <1>m, <2>1 DEF TypeOK, Task, Sound, Row
<1>1. CASE UNCHANGED vars
  BY <1>1 DEF TypeOK, vars, server, client, bounds
<1>2. ASSUME NEW u \in Users, Publish(u) PROVE TypeOK'
  BY <1>2 DEF TypeOK, Publish, client, bounds
<1>3. ASSUME NEW u \in Users, Rotate(u) PROVE TypeOK'
  BY <1>3 DEF TypeOK, Rotate, client
<1>4. ASSUME NEW u \in Users, Start(u) PROVE TypeOK'
  <2>1. CASE Become(u, Created)
    BY <1>4, <1>m, <2>1, TaskFacts DEF TypeOK, Start, bounds, Sound
  <2>2. CASE UNCHANGED task
    BY <1>4, <2>2 DEF TypeOK, Start, bounds
  <2>3. QED
    BY <1>4, <2>1, <2>2 DEF Start
<1>5. ASSUME NEW u \in Users, Generate(u) PROVE TypeOK'
  <2> DEFINE t == Wrapping(keys + 1, Founders)
             NewTasks == [at : {"none", "created", "listing", "wrapping"},
                          key : 0 .. keys + 1, todo : SUBSET Users,
                          wraps : [Users -> 0 .. MaxPairs]]
  <2>1. keys + 1 \in 1 .. MaxKeys /\ 0 .. keys \subseteq 0 .. keys + 1
    BY <1>5, <1>t DEF Generate
  <2>2. Task \subseteq NewTasks
    BY <2>1 DEF Task
  <2>3. t \in NewTasks /\ Sound(t)
    BY <2>1 DEF Wrapping, NewTask, Sound
  <2>4. task' \in [Users -> NewTasks] /\ \A v \in Users : Sound(task'[v])
    BY <1>5, <1>t, <2>2, <2>3 DEF Generate, Become
  <2>5. held' \in [Users -> 0 .. keys + 1]
    BY <1>5, <1>t, <2>1 DEF Generate
  <2>6. row' \in [Users -> (Row \cup {NoRow})']
    BY <1>5, <1>t, <2>1 DEF Generate, Row, NoRow, server
  <2>7. QED
    BY <1>5, <2>1, <2>4, <2>5, <2>6 DEF TypeOK, Sound, Generate, server, bounds
<1>6. ASSUME NEW u \in Users, Resolve(u) PROVE TypeOK'
  <2>1. row[u].key \in 0 .. keys
    BY <1>6, <1>t DEF Resolve, Row
  <2>2. QED
    BY <1>6, <2>1 DEF TypeOK, Resolve, server, bounds
<1>7. ASSUME NEW u \in Users, Open(u) PROVE TypeOK'
  <2>1. /\ Listing(held[u]) \in Task /\ Sound(Listing(held[u]))
        /\ Become(u, Listing(held[u]))
    BY <1>7, <1>t, TaskFacts DEF Open, Sound
  <2>2. QED
    BY <1>7, <1>m, <2>1 DEF TypeOK, Open, server, bounds
<1>8. ASSUME NEW u \in Users, NEW x \in Users, AddMember(u, x) PROVE TypeOK'
  <2>1. CASE held[u] # 0 /\ Become(u, Listing(held[u]))
    <3>1. Listing(held[u]) \in Task /\ Sound(Listing(held[u]))
      BY <2>1, <1>t, TaskFacts DEF Sound
    <3>2. QED
      BY <1>8, <1>m, <2>1, <3>1 DEF TypeOK, AddMember, bounds
  <2>2. CASE UNCHANGED task
    BY <1>8, <2>2 DEF TypeOK, AddMember, bounds
  <2>3. QED
    BY <1>8, <2>1, <2>2 DEF AddMember
<1>9. ASSUME NEW u \in Users, Listed(u) PROVE TypeOK'
  <2> DEFINE t == IF Missing = {} THEN NoTask ELSE Wrapping(task[u].key, Missing)
  <2>1. task[u].key \in 0 .. keys /\ task[u].key # 0 /\ Missing \in SUBSET Users
    BY <1>9, <1>t DEF Listed, Missing, Task, Sound
  <2>2. t \in Task /\ Sound(t)
    BY <2>1, TaskFacts DEF Sound
  <2>3. Become(u, t)
    BY <1>9 DEF Listed
  <2>4. QED
    BY <1>9, <1>m, <2>2, <2>3 DEF TypeOK, Listed, server, bounds
<1>10. ASSUME NEW u \in Users, NEW x \in Users,
              Wrap(u, x) \/ WrapFails(u, x)
       PROVE  TypeOK'
  <2> DEFINE s == task[u].todo \ {x}
             w == [task[u].wraps EXCEPT ![x] = pub[x]]
  <2>1. task[u] \in Task /\ Sound(task[u])
    BY <1>t
  <2>2. s \in SUBSET Users /\ w \in [Users -> 0 .. MaxPairs]
    BY <2>1, <1>t DEF Task
  <2>3. CASE Wrap(u, x)
    <3>1. Become(u, [task[u] EXCEPT !.todo = s, !.wraps = w])
      BY <2>3 DEF Wrap
    <3>2. PICK t \in Task : Sound(t) /\ Become(u, t)
      BY <2>1, <2>2, <3>1, TakenIn
    <3>3. QED
      BY <1>m, <1>t, <2>3, <3>2 DEF TypeOK, Wrap, server, bounds
  <2>4. CASE WrapFails(u, x)
    <3>1. Become(u, [task[u] EXCEPT !.todo = s])
      BY <2>4 DEF WrapFails
    <3>2. PICK t \in Task : Sound(t) /\ Become(u, t)
      BY <2>1, <2>2, <3>1, LeftOut
    <3>3. members' \subseteq Users /\ failures' \in 0 .. MaxFailures
      BY <2>4 DEF TypeOK, WrapFails, Failure, server
    <3>4. QED
      BY <1>m, <2>4, <3>2, <3>3 DEF WrapFails, server
  <2>5. QED
    BY <1>10, <2>3, <2>4
<1>11. ASSUME NEW u \in Users, Upload(u) PROVE TypeOK'
  <2>1. task' \in [Users -> Task] /\ \A v \in Users : Sound(task'[v])
    BY <1>11, TaskFacts, Becomes DEF Upload, Sound
  <2>2. task[u].key \in 1 .. keys /\ task[u].wraps \in [Users -> 0 .. MaxPairs]
    BY <1>11, <1>t DEF Upload, Task, Sound
  <2>3. row' \in [Users -> Row \cup {NoRow}]
    BY <1>11, <1>t, <2>2 DEF Upload, Insert, Row, NoRow
  <2>4. QED
    BY <1>11, <2>1, <2>3 DEF TypeOK, Task, Sound, Upload, bounds
<1>12. ASSUME NEW u \in Users, Fail(u) PROVE TypeOK'
  <2>1. NoTask \in Task /\ Sound(NoTask)
    BY TaskFacts DEF Sound
  <2>2. members' \subseteq Users /\ failures' \in 0 .. MaxFailures
    BY <1>12 DEF TypeOK, Fail, Failure, server
  <2>3. QED
    BY <1>12, <1>m, <2>1, <2>2 DEF Fail, server
<1>13. ASSUME NEW u \in Users, Restart(u) PROVE TypeOK'
  <2>1. task' \in [Users -> Task] /\ \A v \in Users : Sound(task'[v])
    BY <1>13, TaskFacts, Becomes DEF Restart, Sound
  <2>2. held' \in [Users -> 0 .. keys]
    BY <1>13, <1>t DEF Restart
  <2>3. QED
    BY <1>13, <2>1, <2>2 DEF TypeOK, Task, Sound, Restart, Failure, server
<1> QED
  BY <1>1, <1>2, <1>3, <1>4, <1>5, <1>6, <1>7, <1>8, <1>9, <1>10, <1>11, <1>12,
     <1>13 DEF Next, Step

\* The type invariant of GroupKeys.
THEOREM TypeCorrect == Spec => []TypeOK
  BY TypeInit, TypeStep, PTL DEF Spec

-----------------------------------------------------------------------------
\* A client that wraps a key for a pair that is no longer published has been
\* overtaken.
Late == \A u, v \in Users :
          task[v].wraps[u] # 0 /\ task[v].wraps[u] # pub[u] => u \in overtaken

SInv == StaleOnlyIfOvertaken /\ Late

LEMMA StaleInit == Init => SInv
  BY DEF Init, SInv, StaleOnlyIfOvertaken, Late, NoTask, NewTask

\* New tasks have wrapped nothing.
LEMMA NewTasksAreBlank ==
  ASSUME NEW u \in Users
  PROVE  /\ NoTask.wraps[u] = 0 /\ Created.wraps[u] = 0
         /\ \A k : Listing(k).wraps[u] = 0
         /\ \A k, who : Wrapping(k, who).wraps[u] = 0
  BY DEF NoTask, Created, Listing, Wrapping, NewTask

\* Every step keeps the two together.
LEMMA StaleStep == TypeOK /\ SInv /\ [Next]_vars => SInv'
<1> SUFFICES ASSUME TypeOK, SInv, [Next]_vars PROVE SInv'
  OBVIOUS
<1>t. /\ task \in [Users -> Task] /\ pub \in [Users -> 0 .. MaxPairs]
      /\ row \in [Users -> Row \cup {NoRow}]
      /\ \A u, v \in Users : task[v].wraps[u] \in 0 .. MaxPairs
  BY TaskTypes DEF Task
<1>s. /\ \A u \in Users : row[u] # NoRow /\ row[u].pair # pub[u] => u \in overtaken
      /\ \A u, v \in Users :
           task[v].wraps[u] # 0 /\ task[v].wraps[u] # pub[u] => u \in overtaken
  BY DEF SInv, StaleOnlyIfOvertaken, Late
\* The steps that wrap and upload nothing.
<1>b. ASSUME UNCHANGED <<pub, row, overtaken>>,
             \A u, v \in Users : task'[v].wraps[u] \in {0, task[v].wraps[u]}
      PROVE  SInv'
  BY <1>b, <1>s DEF SInv, StaleOnlyIfOvertaken, Late
<1>m. ASSUME NEW v \in Users, NEW t, \A u \in Users : t.wraps[u] = 0, Become(v, t),
             UNCHANGED <<pub, row, overtaken>>
      PROVE  SInv'
  BY <1>b, <1>m, <1>t DEF Become
<1>1. CASE UNCHANGED vars
  BY <1>1, <1>b DEF vars, server, client
<1>2. ASSUME NEW u \in Users, Publish(u) PROVE SInv'
  BY <1>2, <1>s, <1>t DEF SInv, StaleOnlyIfOvertaken, Late, Publish, client, Row
<1>3. ASSUME NEW u \in Users, Rotate(u) PROVE SInv'
  <2>1. \A x, v \in Users :
          task[v].wraps[x] # 0 /\ task[v].wraps[x] # pub'[x] => x \in overtaken'
    BY <1>3, <1>s, <1>t DEF Rotate, AboutToUpload
  <2>2. \A x \in Users : row'[x] # NoRow /\ row'[x].pair # pub'[x] => x \in overtaken'
    BY <1>3, <1>s, <1>t DEF Rotate
  <2>3. QED
    BY <1>3, <2>1, <2>2 DEF SInv, StaleOnlyIfOvertaken, Late, Rotate, client
<1>4. ASSUME NEW u \in Users, Start(u) PROVE SInv'
  <2>1. UNCHANGED <<pub, row, overtaken>> /\ (Become(u, Created) \/ UNCHANGED task)
    BY <1>4 DEF Start
  <2>2. QED
    BY <1>b, <1>m, <2>1, NewTasksAreBlank
<1>5. ASSUME NEW u \in Users, Generate(u) PROVE SInv'
  BY <1>5, <1>m, NewTasksAreBlank DEF Generate, server
<1>6. ASSUME NEW u \in Users, Resolve(u) PROVE SInv'
  BY <1>6, <1>b DEF Resolve, server
<1>7. ASSUME NEW u \in Users, Open(u) PROVE SInv'
  BY <1>7, <1>m, NewTasksAreBlank DEF Open, server
<1>8. ASSUME NEW u \in Users, NEW x \in Users, AddMember(u, x) PROVE SInv'
  <2>1. UNCHANGED <<pub, row, overtaken>> /\ (Become(u, Listing(held[u])) \/ UNCHANGED task)
    BY <1>8 DEF AddMember
  <2>2. CASE Become(u, Listing(held[u]))
    BY <1>m, <2>1, <2>2, NewTasksAreBlank
  <2>3. CASE UNCHANGED task
    BY <1>b, <2>1, <2>3
  <2>4. QED
    BY <2>1, <2>2, <2>3
<1>9. ASSUME NEW u \in Users, Listed(u) PROVE SInv'
  <2>1. UNCHANGED <<pub, row, overtaken>>
    BY <1>9 DEF Listed, server
  <2>2. Become(u, NoTask) \/ Become(u, Wrapping(task[u].key, Missing))
    BY <1>9 DEF Listed
  <2>3. QED
    BY <1>m, <2>1, <2>2, NewTasksAreBlank
<1>10. ASSUME NEW u \in Users, NEW x \in Users, Wrap(u, x) PROVE SInv'
  <2> DEFINE s == task[u].todo \ {x}
             w == [task[u].wraps EXCEPT ![x] = pub[x]]
  <2>1. task[u] \in Task /\ Sound(task[u])
    BY TaskTypes
  <2>2. s \in SUBSET Users /\ w \in [Users -> 0 .. MaxPairs]
    BY <2>1, <1>t DEF Task
  <2>3. Become(u, [task[u] EXCEPT !.todo = s, !.wraps = w])
    BY <1>10 DEF Wrap
  <2>4. PICK t : t.wraps = w /\ Become(u, t)
    <3>1. [task[u] EXCEPT !.todo = s, !.wraps = w].wraps = w
      BY <2>1 DEF Task
    <3> HIDE DEF s, w
    <3>2. QED
      BY <2>3, <3>1, Zenon
  <2>5. \A y, v \in Users :
          task'[v].wraps[y] = IF v = u /\ y = x THEN pub[x] ELSE task[v].wraps[y]
    <3>1. \A y \in Users : w[y] = IF y = x THEN pub[x] ELSE task[u].wraps[y]
      BY <2>1 DEF Task
    <3>2. task'[u] = t /\ \A v \in Users \ {u} : task'[v] = task[v]
      BY <2>4, <1>t DEF Become
    <3>3. QED
      BY <2>4, <3>1, <3>2
  <2>6. UNCHANGED <<pub, row, overtaken>>
    BY <1>10 DEF Wrap, server
  <2>7. QED
    BY <2>5, <2>6, <1>s DEF SInv, StaleOnlyIfOvertaken, Late
<1>11. ASSUME NEW u \in Users, NEW x \in Users, WrapFails(u, x) PROVE SInv'
  <2>1. UNCHANGED <<pub, row, overtaken>>
    BY <1>11 DEF WrapFails, server
  <2>2. [task[u] EXCEPT !.todo = @ \ {x}].wraps = task[u].wraps
    BY <1>t DEF Task
  <2>3. Become(u, [task[u] EXCEPT !.todo = @ \ {x}])
    BY <1>11 DEF WrapFails
  <2>4. PICK t : t.wraps = task[u].wraps /\ Become(u, t)
    BY <2>2, <2>3
  <2>5. QED
    BY <2>1, <2>4, <1>b, <1>t DEF Become
<1>12. ASSUME NEW u \in Users, Upload(u) PROVE SInv'
  <2>1. UNCHANGED <<pub, overtaken>> /\ Become(u, NoTask)
    BY <1>12 DEF Upload
  <2>2. \A x, v \in Users : task'[v].wraps[x] \in {0, task[v].wraps[x]}
    BY <2>1, <1>t, NewTasksAreBlank DEF Become
  <2>3. \A x \in Users : row'[x] # NoRow /\ row'[x].pair # pub[x] => x \in overtaken
    BY <1>12, <1>s, <1>t DEF Upload, Insert
  <2>4. QED
    BY <2>1, <2>2, <2>3, <1>s DEF SInv, StaleOnlyIfOvertaken, Late
<1>13. ASSUME NEW u \in Users, Fail(u) PROVE SInv'
  BY <1>13, <1>m, NewTasksAreBlank DEF Fail, server
<1>14. ASSUME NEW u \in Users, Restart(u) PROVE SInv'
  BY <1>14, <1>m, NewTasksAreBlank DEF Restart, server
<1> QED
  BY <1>1, <1>2, <1>3, <1>4, <1>5, <1>6, <1>7, <1>8, <1>9, <1>10, <1>11, <1>12,
     <1>13, <1>14 DEF Next, Step

\* A member's row is wrapped for a pair that is not the published one only if
\* the member rotated while a client was about to upload.
THEOREM StaleOnlyIfOvertakenHolds == Spec => []StaleOnlyIfOvertaken
  BY TypeCorrect, StaleInit, StaleStep, PTL DEF Spec, SInv
=============================================================================
