------------------------- MODULE MessageCacheProofs -------------------------
(***************************************************************************)
(* Proofs about MessageCache for any users, any number of messages and any *)
(* sizes of the cache and of a page: the types, no message twice in an     *)
(* entry, what was dropped alone is gone, and an entry that was cleared    *)
(* comes back only with its user.                                          *)
(***************************************************************************)
EXTENDS MessageCache, SequenceTheorems, WellFoundedInduction, TLAPS

------------------------------------------------------------------------------
(* The lists of messages.                                                  *)

\* The least number, for the arguments that go through a list item by item.
LEMMA LeastNatural ==
  ASSUME NEW T \in SUBSET Nat, T # {} PROVE \E n \in T : \A k \in T : n <= k
<1> DEFINE R == {ss \in Nat \X Nat : ss[1] < ss[2]}
<1>1. IsWellFoundedOn(R, Nat)
  BY NatLessThanWellFounded DEF OpToRel
<1>2. \A k, n \in Nat : <<k, n>> \in R <=> k < n
  OBVIOUS
<1> HIDE DEF R
<1>3. PICK n \in T : \A k \in T : <<k, n>> \notin R
  BY <1>1, WFMin
<1>4. \A k \in T : ~(k < n)
  BY <1>2, <1>3
<1> QED BY <1>4

\* Only is computed step by step: there is a function of the first items.
LEMMA OnlyIsDefined ==
  ASSUME NEW items, NEW ms, Len(items) \in Nat
  PROVE  \E f : f = [n \in 0 .. Len(items) |->
                       IF n = 0 THEN <<>>
                       ELSE IF items[n] \in ms THEN Append(f[n - 1], items[n]) ELSE f[n - 1]]
<1> DEFINE Step(f, n) == IF n = 0 THEN <<>>
                         ELSE IF items[n] \in ms THEN Append(f[n - 1], items[n]) ELSE f[n - 1]
           Bad == {k \in Nat : ~ \E f : f = [n \in 0 .. k |-> Step(f, n)]}
<1>1. SUFFICES ASSUME Bad # {} PROVE FALSE
  BY DEF Bad
<1>2. PICK k \in Bad : \A j \in Bad : k <= j
  <2>1. Bad \in SUBSET Nat
    OBVIOUS
  <2> HIDE DEF Bad
  <2> QED BY <1>1, <2>1, LeastNatural
<1>3. CASE k = 0
  <2> DEFINE g == [n \in 0 .. 0 |-> <<>>]
  <2>1. g = [n \in 0 .. 0 |-> Step(g, n)]
    BY DEF Step
  <2> QED BY <1>2, <1>3, <2>1
<1>4. CASE k # 0
  <2>1. k - 1 \in Nat /\ k \in Nat /\ k - 1 \notin Bad
    <3>1. k \in Nat
      OBVIOUS
    <3>2. k - 1 \in Nat /\ ~(k <= k - 1)
      BY <1>4, <3>1
    <3> HIDE DEF Bad
    <3> QED BY <1>2, <3>1, <3>2
  <2>2. PICK f : f = [n \in 0 .. k - 1 |-> Step(f, n)]
    BY <2>1
  <2> DEFINE last == IF items[k] \in ms THEN Append(f[k - 1], items[k]) ELSE f[k - 1]
             g == [n \in 0 .. k |-> IF n = k THEN last ELSE f[n]]
  <2>3. ASSUME NEW n \in 0 .. k PROVE g[n] = Step(g, n)
    <3>1. CASE n = 0
      BY <1>4, <2>1, <2>2, <3>1
    <3>2. CASE n = k
      BY <1>4, <2>1, <3>2
    <3>3. CASE n # 0 /\ n # k
      <4>1. n \in 0 .. k - 1 /\ n - 1 \in 0 .. k /\ n - 1 # k
        BY <2>1, <3>3
      <4>2. g[n] = f[n] /\ g[n - 1] = f[n - 1]
        BY <3>3, <4>1
      <4>3. f[n] = Step(f, n)
        BY <2>2, <4>1
      <4> QED BY <3>3, <4>2, <4>3
    <3> QED BY <3>1, <3>2, <3>3
  <2>4. g = [n \in 0 .. k |-> Step(g, n)]
    BY <2>3
  <2> QED BY <1>2, <2>4
<1> QED BY <1>3, <1>4

\* What it keeps: some of the items, those in ms alone, each at most as often.
LEMMA OnlyKeeps ==
  ASSUME NEW S, NEW items \in Seq(S), NEW ms
  PROVE  /\ Only(items, ms) \in Seq(S)
         /\ ToSet(Only(items, ms)) \subseteq ToSet(items) \cap ms
         /\ IsInjective(items) => IsInjective(Only(items, ms))
<1> DEFINE Computes(f) ==
             f = [n \in 0 .. Len(items) |->
                    IF n = 0 THEN <<>>
                    ELSE IF items[n] \in ms THEN Append(f[n - 1], items[n]) ELSE f[n - 1]]
           f == CHOOSE f : Computes(f)
<1>1. Only(items, ms) = f[Len(items)]
  BY DEF Only
<1>2. Len(items) \in Nat /\ \A n \in 1 .. Len(items) : items[n] \in S
  OBVIOUS
<1>3. f = [n \in 0 .. Len(items) |->
             IF n = 0 THEN <<>>
             ELSE IF items[n] \in ms THEN Append(f[n - 1], items[n]) ELSE f[n - 1]]
  <2>1. \E g : Computes(g)
    BY <1>2, OnlyIsDefined
  <2> HIDE DEF Computes
  <2>2. Computes(f)
    BY <2>1, Zenon
  <2> QED BY <2>2 DEF Computes
<1> HIDE DEF f, Computes
<1> DEFINE Fine(n) ==
             /\ f[n] \in Seq(S)
             /\ \A i \in 1 .. Len(f[n]) :
                  \E k \in 1 .. n : items[k] \in ms /\ f[n][i] = items[k]
             /\ IsInjective(items) =>
                  \A i, j \in 1 .. Len(f[n]) : f[n][i] = f[n][j] => i = j
           Bad == {n \in 0 .. Len(items) : ~ Fine(n)}
<1>4. Bad = {}
  <2>1. SUFFICES ASSUME Bad # {} PROVE FALSE
    OBVIOUS
  <2>2. PICK n \in Bad : \A j \in Bad : n <= j
    <3>1. Bad \in SUBSET Nat
      BY <1>2
    <3> HIDE DEF Bad
    <3> QED BY <2>1, <3>1, LeastNatural
  <2>3. n # 0
    <3>1. f[0] = <<>>
      BY <1>2, <1>3
    <3>2. <<>> \in Seq(S) /\ Len(<<>>) = 0
      BY EmptySeq
    <3>3. Fine(0)
      BY <3>1, <3>2
    <3> QED BY <3>3
  <2>4. n \in 1 .. Len(items) /\ n - 1 \in 0 .. Len(items) /\ n - 1 \notin Bad
    BY <1>2, <2>2, <2>3
  <2>5. Fine(n - 1)
    BY <2>4
  <2>6. f[n] = IF items[n] \in ms THEN Append(f[n - 1], items[n]) ELSE f[n - 1]
    <3>1. n \in 0 .. Len(items) /\ n # 0
      BY <1>2, <2>4
    <3> QED BY <1>3, <3>1
  <2>7. CASE items[n] \notin ms
    <3>1. f[n] = f[n - 1] /\ 1 .. n - 1 \subseteq 1 .. n
      BY <2>4, <2>6, <2>7
    <3>2. Fine(n)
      BY <2>5, <3>1
    <3> QED BY <3>2
  <2>8. CASE items[n] \in ms
    <3> DEFINE p == f[n - 1]
               e == items[n]
    <3>1. p \in Seq(S) /\ e \in S /\ f[n] = Append(p, e)
      BY <1>2, <2>4, <2>5, <2>6, <2>8
    <3>2. /\ f[n] \in Seq(S) /\ Len(f[n]) = Len(p) + 1 /\ Len(p) \in Nat
          /\ \A i \in 1 .. Len(p) : f[n][i] = p[i]
          /\ f[n][Len(p) + 1] = e
      BY <3>1
    <3>3. ASSUME NEW i \in 1 .. Len(f[n])
          PROVE  \E k \in 1 .. n : items[k] \in ms /\ f[n][i] = items[k]
      <4>1. CASE i \in 1 .. Len(p)
        <5>1. PICK k \in 1 .. n - 1 : items[k] \in ms /\ p[i] = items[k]
          BY <2>5, <4>1
        <5>2. k \in 1 .. n
          BY <2>4
        <5> QED BY <3>2, <4>1, <5>1, <5>2
      <4>2. CASE i = Len(p) + 1
        BY <2>4, <2>8, <3>2, <4>2
      <4>3. i \in 1 .. Len(p) \/ i = Len(p) + 1
        BY <3>2
      <4> QED BY <4>1, <4>2, <4>3
    <3>4. ASSUME IsInjective(items), NEW i \in 1 .. Len(f[n]), NEW j \in 1 .. Len(f[n]),
                 f[n][i] = f[n][j]
          PROVE  i = j
      <4>1. ASSUME NEW a \in 1 .. Len(p) PROVE p[a] # e
        <5>1. PICK k \in 1 .. n - 1 : p[a] = items[k]
          BY <2>5
        <5>2. k \in DOMAIN items /\ n \in DOMAIN items /\ k # n
          BY <1>2, <2>4
        <5> QED BY <3>4, <5>1, <5>2 DEF IsInjective
      <4>2. CASE i \in 1 .. Len(p) /\ j \in 1 .. Len(p)
        BY <2>5, <3>2, <3>4, <4>2
      <4>3. CASE i = Len(p) + 1 /\ j \in 1 .. Len(p)
        BY <3>2, <3>4, <4>1, <4>3
      <4>4. CASE i \in 1 .. Len(p) /\ j = Len(p) + 1
        BY <3>2, <3>4, <4>1, <4>4
      <4>5. /\ i \in 1 .. Len(p) \/ i = Len(p) + 1
            /\ j \in 1 .. Len(p) \/ j = Len(p) + 1
        BY <3>2
      <4> QED BY <4>2, <4>3, <4>4, <4>5
    <3>5. Fine(n)
      BY <3>2, <3>3, <3>4
    <3> QED BY <3>5
  <2> QED BY <2>7, <2>8
<1>5. Fine(Len(items))
  <2>1. Len(items) \in 0 .. Len(items)
    BY <1>2
  <2> QED BY <1>4, <2>1
<1>6. DOMAIN f[Len(items)] = 1 .. Len(f[Len(items)])
  BY <1>5
<1>7. ToSet(f[Len(items)]) \subseteq ToSet(items) \cap ms
  <2>1. DOMAIN items = 1 .. Len(items)
    BY <1>2
  <2>2. \A i \in DOMAIN f[Len(items)] :
          \E k \in DOMAIN items : items[k] \in ms /\ f[Len(items)][i] = items[k]
    BY <1>5, <1>6, <2>1
  <2> HIDE DEF Fine
  <2> QED BY <2>2, Zenon DEF ToSet
<1>8. IsInjective(items) => IsInjective(f[Len(items)])
  BY <1>5, <1>6 DEF IsInjective
<1> QED BY <1>1, <1>5, <1>7, <1>8

------------------------------------------------------------------------------
(* The shapes of the tasks.                                                *)

\* The records of the tasks, whatever is in them.
LoadShape(l) == l \in [at : {l.at}, user : {l.user}, items : {l.items}]
DropShape(d) == d \in [msg : {d.msg}, at : {d.at}, todo : {d.todo}, user : {d.user},
                       items : {d.items}]

Shapes ==
  /\ me \in Users \cup {NoOne} /\ (session => me # NoOne)
  /\ handlers \subseteq Msgs
  /\ queue \in Seq([user : Users, msg : Msgs])
  /\ \A l \in loads : LoadShape(l)
  /\ \A d \in drops : DropShape(d)

\* The drops after a step of one: the others, and what has become of it.
LEMMA BecomeShape ==
  ASSUME Shapes, NEW d, NEW x, Become(d, {x}), DropShape(x)
  PROVE  /\ \A c \in drops' : c = x \/ c \in drops
         /\ \A c \in drops' : DropShape(c)
<1>1. \A c \in drops' : c = x \/ c \in drops
  BY DEF Become
<1> QED BY <1>1 DEF Shapes

\* A step of a drop: for whom it will write.
DropGoes(d, x) ==
  /\ \A c \in drops' : c = x \/ c \in drops
  /\ \A c \in drops' : DropShape(c)
  /\ UNCHANGED <<me, session, handlers, queue, job, loads>>

\* What the steps of a drop do to the entries and to the drop.
LEMMA DropSteps ==
  ASSUME Shapes, NEW d \in drops
  PROVE  /\ DropKeys(d) => store' = store /\ \E x : DropGoes(d, x) /\ x.at = "read"
         /\ \A u \in Users : DropRead(d, u) =>
              /\ store' = store
              /\ \E x : /\ DropGoes(d, x)
                        /\ x.at = "write" => x.user = u /\ d.msg \in ToSet(Items(u))
         /\ DropWrite(d) => /\ d.at = "write"
                            /\ Write(d.user, Only(d.items, Msgs \ {d.msg}))
                            /\ \E x : DropGoes(d, x) /\ x.at = "read"
<1>0. DropShape(d)
  BY DEF Shapes
<1>1. ASSUME DropKeys(d) PROVE store' = store /\ \E x : DropGoes(d, x) /\ x.at = "read"
  <2> DEFINE x == [d EXCEPT !.at = "read", !.todo = {u \in Users : store[u] # Absent}]
  <2>1. /\ Become(d, {x}) /\ store' = store
        /\ UNCHANGED <<me, session, handlers, queue, job, loads>>
    BY <1>1 DEF DropKeys, account
  <2>2. DropShape(x) /\ x.at = "read"
    <3>1. x \in [msg : {d.msg}, at : {"read"}, todo : {{u \in Users : store[u] # Absent}},
                 user : {d.user}, items : {d.items}]
      BY <1>0 DEF DropShape
    <3> HIDE DEF x
    <3>2. /\ x.msg = d.msg /\ x.at = "read" /\ x.todo = {u \in Users : store[u] # Absent}
          /\ x.user = d.user /\ x.items = d.items
      BY <3>1
    <3> QED BY <3>1, <3>2 DEF DropShape
  <2> HIDE DEF x
  <2>3. DropGoes(d, x)
    BY <2>1, <2>2, BecomeShape DEF DropGoes
  <2> QED BY <2>1, <2>2, <2>3
<1>2. ASSUME NEW u \in Users, DropRead(d, u)
      PROVE  /\ store' = store
             /\ \E x : /\ DropGoes(d, x)
                       /\ x.at = "write" => x.user = u /\ d.msg \in ToSet(Items(u))
  <2>0. d.at = "read" /\ store' = store /\ UNCHANGED <<me, session, handlers, queue, job, loads>>
    BY <1>2 DEF DropRead, account
  <2>1. CASE d.msg \in ToSet(Items(u))
    <3> DEFINE x == [d EXCEPT !.at = "write", !.todo = @ \ {u}, !.user = u, !.items = Items(u)]
    <3>1. Become(d, {x})
      BY <1>2, <2>1 DEF DropRead
    <3>2. DropShape(x) /\ x.user = u
      <4>1. x \in [msg : {d.msg}, at : {"write"}, todo : {d.todo \ {u}},
                   user : {u}, items : {Items(u)}]
        BY <1>0 DEF DropShape
      <4> HIDE DEF x
      <4>2. /\ x.msg = d.msg /\ x.at = "write" /\ x.todo = d.todo \ {u}
            /\ x.user = u /\ x.items = Items(u)
        BY <4>1
      <4> QED BY <4>1, <4>2 DEF DropShape
    <3> HIDE DEF x
    <3>3. DropGoes(d, x)
      BY <2>0, <3>1, <3>2, BecomeShape DEF DropGoes
    <3> QED BY <2>0, <2>1, <3>2, <3>3
  <2>2. CASE d.msg \notin ToSet(Items(u))
    <3> DEFINE x == [d EXCEPT !.todo = @ \ {u}]
    <3>1. Become(d, {x})
      BY <1>2, <2>2 DEF DropRead
    <3>2. DropShape(x) /\ x.at = "read"
      <4>1. x \in [msg : {d.msg}, at : {"read"}, todo : {d.todo \ {u}},
                   user : {d.user}, items : {d.items}]
        BY <1>0, <2>0 DEF DropShape
      <4> HIDE DEF x
      <4>2. /\ x.msg = d.msg /\ x.at = "read" /\ x.todo = d.todo \ {u}
            /\ x.user = d.user /\ x.items = d.items
        BY <4>1
      <4> QED BY <4>1, <4>2 DEF DropShape
    <3> HIDE DEF x
    <3>3. DropGoes(d, x)
      BY <2>0, <3>1, <3>2, BecomeShape DEF DropGoes
    <3> QED BY <2>0, <3>2, <3>3
  <2> QED BY <2>1, <2>2
<1>3. ASSUME DropWrite(d)
      PROVE  /\ d.at = "write" /\ Write(d.user, Only(d.items, Msgs \ {d.msg}))
             /\ \E x : DropGoes(d, x) /\ x.at = "read"
  <2> DEFINE x == [d EXCEPT !.at = "read", !.items = <<>>]
  <2>1. /\ Become(d, {x}) /\ d.at = "write"
        /\ Write(d.user, Only(d.items, Msgs \ {d.msg}))
        /\ UNCHANGED <<me, session, handlers, queue, job, loads>>
    BY <1>3 DEF DropWrite, account
  <2>2. DropShape(x) /\ x.at = "read"
    <3>1. x \in [msg : {d.msg}, at : {"read"}, todo : {d.todo},
                 user : {d.user}, items : {<<>>}]
      BY <1>0 DEF DropShape
    <3> HIDE DEF x
    <3>2. /\ x.msg = d.msg /\ x.at = "read" /\ x.todo = d.todo
          /\ x.user = d.user /\ x.items = <<>>
      BY <3>1
    <3> QED BY <3>1, <3>2 DEF DropShape
  <2> HIDE DEF x
  <2>3. DropGoes(d, x)
    BY <2>1, <2>2, BecomeShape DEF DropGoes
  <2> QED BY <2>1, <2>2, <2>3
<1> QED BY <1>1, <1>2, <1>3

\* An append waits behind those that were there.
LEMMA QueueSets ==
  ASSUME NEW S, NEW q \in Seq(S)
  PROVE  /\ \A e \in S : Append(q, e) \in Seq(S) /\ ToSet(Append(q, e)) \subseteq ToSet(q) \cup {e}
         /\ q # <<>> => /\ Tail(q) \in Seq(S) /\ ToSet(Tail(q)) \subseteq ToSet(q)
                        /\ Head(q) \in ToSet(q)
  BY DEF ToSet

\* The answer to a request for the history is for whom it was asked.
LEMMA AnswerShape ==
  ASSUME NEW l, LoadShape(l), NEW i
  PROVE  LoadShape([l EXCEPT !.at = "answered", !.items = i])
         /\ [l EXCEPT !.at = "answered", !.items = i].user = l.user
<1> DEFINE x == [l EXCEPT !.at = "answered", !.items = i]
<1>1. x \in [at : {"answered"}, user : {l.user}, items : {i}]
  BY DEF LoadShape
<1> HIDE DEF x
<1>2. x.at = "answered" /\ x.user = l.user /\ x.items = i
  BY <1>1
<1>3. LoadShape(x)
  BY <1>1, <1>2 DEF LoadShape
<1> QED BY <1>2, <1>3 DEF x

\* The tasks keep their shapes.
LEMMA ShapesHold == ASSUME Shapes, [Next]_vars PROVE Shapes'
<1>1. ASSUME NEW m \in Msgs, Post(m) \/ Delete(m) PROVE Shapes'
  BY <1>1 DEF Post, Delete, account, tasks, Shapes
<1>2. ASSUME NEW e \in Event, Miss(e) PROVE Shapes'
  BY <1>2 DEF Miss, account, tasks, Shapes
<1>3. CASE OpenChat
  <2>1. LoadShape([at |-> "asked", user |-> me, items |-> <<>>])
    BY DEF LoadShape
  <2> QED BY <1>3, <2>1 DEF OpenChat, account, Shapes
<1>4. ASSUME NEW l \in loads, HistoryAnswered(l) PROVE Shapes'
  <2>1. LoadShape([l EXCEPT !.at = "answered", !.items = History])
    BY AnswerShape DEF Shapes
  <2> QED BY <1>4, <2>1 DEF HistoryAnswered, account, Shapes
<1>5. ASSUME NEW l \in loads, HistoryFailed(l) \/ HistoryWrite(l) PROVE Shapes'
  BY <1>5 DEF HistoryFailed, HistoryWrite, account, Shapes
<1>6. ASSUME NEW e \in Event, Deliver(e) PROVE Shapes'
  <2>1. e[2] \in Msgs
    BY DEF Event
  <2>2. DropShape([NewDrop EXCEPT !.msg = e[2]])
    <3>1. NewDrop \in [msg : {1}, at : {"keys"}, todo : {{}}, user : {NoOne}, items : {<<>>}]
      BY DEF NewDrop
    <3> DEFINE x == [NewDrop EXCEPT !.msg = e[2]]
    <3>2. x \in [msg : {e[2]}, at : {"keys"}, todo : {{}}, user : {NoOne}, items : {<<>>}]
      BY <3>1
    <3> HIDE DEF x
    <3>3. x.msg = e[2] /\ x.at = "keys" /\ x.todo = {} /\ x.user = NoOne /\ x.items = <<>>
      BY <3>2
    <3>4. DropShape(x)
      BY <3>2, <3>3 DEF DropShape
    <3> QED BY <3>4 DEF x
  <2> QED BY <1>6, <2>1, <2>2 DEF Deliver, account, Shapes
<1>7. ASSUME NEW m \in Msgs, Decrypted(m) PROVE Shapes'
  <2>1. me # NoOne => [user |-> me, msg |-> m] \in [user : Users, msg : Msgs]
    BY DEF Shapes
  <2>2. queue' \in Seq([user : Users, msg : Msgs])
    <3> DEFINE S == [user : Users, msg : Msgs]
               e == [user |-> me, msg |-> m]
    <3>1. queue \in Seq(S) /\ queue' = IF me = NoOne THEN queue ELSE Append(queue, e)
      BY <1>7 DEF Decrypted, Shapes
    <3> HIDE DEF S, e
    <3>2. (me # NoOne => e \in S) => queue' \in Seq(S)
      BY <3>1, QueueSets
    <3> QED BY <2>1, <3>2 DEF S, e
  <2> QED BY <1>7, <2>2 DEF Decrypted, account, Shapes
<1>8. CASE Logout \/ Expired \/ Rendered \/ Clear \/ ClearFails
  BY <1>8 DEF Logout, Expired, Rendered, Clear, ClearFails, tasks, Shapes
<1>9. ASSUME NEW u \in Users, Login(u) PROVE Shapes'
  BY <1>9, NobodyAssumption DEF Login, tasks, Shapes
<1>10. CASE Restart
  BY <1>10 DEF Restart, Shapes
<1>11. CASE AppendRead
  BY <1>11, QueueSets DEF AppendRead, account, Shapes
<1>12. CASE AppendWrite
  BY <1>12 DEF AppendWrite, account, Shapes
<1>13. ASSUME NEW d \in drops, DropKeys(d) \/ (\E u \in Users : DropRead(d, u)) \/ DropWrite(d)
       PROVE  Shapes'
  <2>1. \E x : DropGoes(d, x)
    BY <1>13, DropSteps
  <2> QED BY <2>1 DEF DropGoes, Shapes
<1>14. CASE UNCHANGED vars
  BY <1>14 DEF vars, account, tasks, Shapes
<1> QED BY <1>1, <1>2, <1>3, <1>4, <1>5, <1>6, <1>7, <1>8, <1>9, <1>10, <1>11, <1>12, <1>13, <1>14
        DEF Next, Server, App, Cache

\* Nothing runs at the start.
LEMMA InitShapes == Init => Shapes
  BY NobodyAssumption DEF Init, Shapes

------------------------------------------------------------------------------
(* The theorem.                                                            *)

\* A step after which u is not the one logged in starts nothing that could write
\* an entry for u.
LEMMA QuietStays ==
  ASSUME Shapes, [Next]_vars, NEW u \in Users, Quiet(u), ~(session' /\ me' = u)
  PROVE  Quiet(u)'
<1>1. ASSUME NEW m \in Msgs, Post(m) \/ Delete(m) PROVE Quiet(u)'
  BY <1>1 DEF Post, Delete, account, tasks, Quiet
<1>2. ASSUME NEW e \in Event, Miss(e) PROVE Quiet(u)'
  BY <1>2 DEF Miss, account, tasks, Quiet
<1>3. CASE OpenChat
  BY <1>3 DEF OpenChat, account, Quiet
<1>4. ASSUME NEW l \in loads, HistoryAnswered(l) PROVE Quiet(u)'
  <2>1. [l EXCEPT !.at = "answered", !.items = History].user = l.user
    BY AnswerShape DEF Shapes
  <2> QED BY <1>4, <2>1 DEF HistoryAnswered, account, Quiet
<1>5. ASSUME NEW l \in loads, HistoryFailed(l) PROVE Quiet(u)'
  BY <1>5 DEF HistoryFailed, account, Quiet
<1>6. ASSUME NEW l \in loads, HistoryWrite(l) PROVE Quiet(u)'
  BY <1>6 DEF HistoryWrite, Write, account, Quiet
<1>7. ASSUME NEW e \in Event, Deliver(e) PROVE Quiet(u)'
  <2>1. [NewDrop EXCEPT !.msg = e[2]].at = "keys"
    BY DEF NewDrop
  <2> QED BY <1>7, <2>1 DEF Deliver, account, Quiet
<1>8. ASSUME NEW m \in Msgs, Decrypted(m) PROVE Quiet(u)'
  <2>1. me # u
    BY <1>8 DEF Decrypted, Quiet
  <2>2. \A q \in ToSet(queue') : q.user # u
    <3>1. CASE me = NoOne
      BY <1>8, <3>1 DEF Decrypted, Quiet
    <3>2. CASE me # NoOne
      <4> DEFINE e == [user |-> me, msg |-> m]
                 S == [user : Users, msg : Msgs]
      <4>1. queue' = Append(queue, e) /\ e.user = me
        BY <1>8, <3>2 DEF Decrypted
      <4>2. queue \in Seq(S) /\ e \in S
        BY <3>2 DEF Shapes
      <4> HIDE DEF e, S
      <4>3. ToSet(queue') \subseteq ToSet(queue) \cup {e}
        BY <4>1, <4>2, QueueSets
      <4> QED BY <2>1, <4>1, <4>3 DEF Quiet
    <3> QED BY <3>1, <3>2
  <2> QED BY <1>8, <2>1, <2>2 DEF Decrypted, account, Quiet
<1>9. CASE Logout \/ Expired \/ Rendered
  BY <1>9, NobodyAssumption DEF Logout, Expired, Rendered, tasks, Quiet
<1>10. CASE Clear \/ ClearFails
  BY <1>10 DEF Clear, ClearFails, tasks, Quiet
<1>11. ASSUME NEW v \in Users, Login(v) PROVE Quiet(u)'
  BY <1>11 DEF Login, tasks, Quiet
<1>12. CASE Restart
  <2>1. handlers' = {} /\ queue' = <<>> /\ job' = NoJob /\ drops' = {} /\ loads' = {}
        /\ UNCHANGED <<session, store>> /\ (session => me' = me)
    BY <1>12 DEF Restart
  <2>2. ToSet(queue') = {} /\ ~job'.busy
    BY <2>1 DEF ToSet, NoJob
  <2> QED BY <2>1, <2>2 DEF Quiet
<1>13. CASE AppendRead
  <2>1. /\ Head(queue) \in ToSet(queue) /\ ToSet(queue') \subseteq ToSet(queue)
        /\ job'.busy => job'.user = Head(queue).user
        /\ UNCHANGED <<me, session, store, handlers, loads, drops>>
    BY <1>13, QueueSets DEF AppendRead, account, Shapes, NoJob
  <2> QED BY <2>1 DEF Quiet
<1>14. CASE AppendWrite
  BY <1>14 DEF AppendWrite, Write, account, Quiet, NoJob
<1>15. ASSUME NEW d \in drops, DropKeys(d) \/ (\E v \in Users : DropRead(d, v)) \/ DropWrite(d)
       PROVE  Quiet(u)'
  <2>1. CASE DropKeys(d)
    BY <2>1, DropSteps DEF DropGoes, Quiet
  <2>2. ASSUME NEW v \in Users, DropRead(d, v) PROVE Quiet(u)'
    <3>1. ToSet(Items(u)) = {}
      BY DEF Quiet, Items, ToSet
    <3>2. PICK x : /\ DropGoes(d, x) /\ store' = store
                   /\ x.at = "write" => x.user = v /\ d.msg \in ToSet(Items(v))
      BY <2>2, DropSteps
    <3> QED BY <3>1, <3>2 DEF DropGoes, Quiet
  <2>3. CASE DropWrite(d)
    <3>1. d.user # u /\ Write(d.user, Only(d.items, Msgs \ {d.msg}))
      BY <2>3, DropSteps DEF Quiet
    <3>2. store'[u] = Absent
      BY <3>1 DEF Write, Quiet
    <3> QED BY <2>3, <3>2, DropSteps DEF DropGoes, Quiet
  <2> QED BY <1>15, <2>1, <2>2, <2>3
<1>16. CASE UNCHANGED vars
  BY <1>16 DEF vars, account, tasks, Quiet
<1> QED BY <1>1, <1>2, <1>3, <1>4, <1>5, <1>6, <1>7, <1>8, <1>9, <1>10, <1>11, <1>12, <1>13,
           <1>14, <1>15, <1>16
        DEF Next, Server, App, Cache

\* messageCache.ts under the log-outs of App.tsx: once nothing works for a user
\* any more, no task of the app, whoever is logged in, brings the entry back.
THEOREM ClearedStays == Spec => ClearedStaysClear
<1>1. Shapes /\ [Next]_vars => Shapes'
  BY ShapesHold
<1>2. Shapes /\ [Next]_vars
        => [\A u \in Users : Quiet(u) /\ ~(session' /\ me' = u) => Quiet(u)']_vars
  BY QuietStays
<1> QED BY <1>1, <1>2, InitShapes, PTL DEF Spec, ClearedStaysClear

------------------------------------------------------------------------------
(* What is in the entries.                                                 *)

LoadTypes == [at : {"asked", "answered"}, user : Users, items : Seq(Msgs)]
DropTypes == [msg : Msgs, at : {"keys", "read", "write"}, todo : SUBSET Users,
              user : Users \cup {NoOne}, items : Seq(Msgs)]

Typed == TypeOK /\ DOMAIN store = Users

\* The tail of a list.
LEMMA LastKeeps ==
  ASSUME NEW S, NEW items \in Seq(S), NEW n \in Nat \ {0}
  PROVE  /\ LastOf(items, n) \in Seq(S) /\ Len(LastOf(items, n)) <= n
         /\ ToSet(LastOf(items, n)) \subseteq ToSet(items)
         /\ IsInjective(items) => IsInjective(LastOf(items, n))
<1> DEFINE a == IF Len(items) > n THEN Len(items) - n + 1 ELSE 1
           b == Len(items)
           t == LastOf(items, n)
<1>1. a \in Int /\ b \in Int /\ 1 <= a /\ b - a + 1 <= n /\ \A i \in a .. b : items[i] \in S
  OBVIOUS
<1>2. t = SubSeq(items, a, b)
  BY DEF LastOf
<1> HIDE DEF a, t
<1>3. t \in Seq(S) /\ Len(t) = IF a <= b THEN b - a + 1 ELSE 0
  <2> HIDE DEF b
  <2>1. SubSeq(items, a, b) \in Seq(S)
    BY <1>1, SubSeqProperties, Zenon
  <2>2. Len(SubSeq(items, a, b)) = IF a <= b THEN b - a + 1 ELSE 0
    BY <1>1, SubSeqProperties
  <2> QED BY <1>2, <2>1, <2>2
<1>4. \A i \in 1 .. b - a + 1 : t[i] = items[a + i - 1]
  <2> HIDE DEF b
  <2> QED BY <1>1, <1>2, SubSeqProperties
<1>5. \A i \in 1 .. Len(t) : a + i - 1 \in 1 .. b /\ t[i] = items[a + i - 1]
  BY <1>1, <1>3, <1>4
<1>6. DOMAIN t = 1 .. Len(t) /\ DOMAIN items = 1 .. b
  BY <1>3
<1>7. Len(t) <= n
  BY <1>1, <1>3
<1>8. ToSet(t) \subseteq ToSet(items)
  BY <1>5, <1>6 DEF ToSet
<1>9. ASSUME IsInjective(items), NEW i \in 1 .. Len(t), NEW j \in 1 .. Len(t), t[i] = t[j]
      PROVE  i = j
  <2>1. a + i - 1 = a + j - 1
    BY <1>5, <1>6, <1>9 DEF IsInjective
  <2> QED BY <1>1, <2>1
<1> QED BY <1>3, <1>6, <1>7, <1>8, <1>9 DEF t, IsInjective

\* The page of the history: messages that are there, none twice.
LEMMA HistoryIsAPage ==
  ASSUME BoundsAssumption
  PROVE  /\ History \in Seq(Msgs) /\ IsInjective(History)
         /\ \A m \in ToSet(History) : row[m] = "there"
<1> DEFINE all == [m \in Msgs |-> m]
           ms == {m \in Msgs : row[m] = "there"}
<1>1. PageSize \in Nat \ {0} /\ MaxMsgs \in Nat
  BY DEF BoundsAssumption
<1>2. all \in Seq(Msgs) /\ IsInjective(all)
  BY <1>1 DEF Msgs, IsInjective
<1>3. /\ Only(all, ms) \in Seq(Msgs) /\ ToSet(Only(all, ms)) \subseteq ms
      /\ IsInjective(Only(all, ms))
  BY <1>2, OnlyKeeps
<1>4. History = LastOf(Only(all, ms), PageSize)
  BY DEF History
<1> HIDE DEF all, ms
<1>5. History \in Seq(Msgs) /\ IsInjective(History) /\ ToSet(History) \subseteq ms
  BY <1>1, <1>3, <1>4, LastKeeps
<1> QED BY <1>5 DEF ms

\* What a list is after an append, and what the first and the rest of a queue are.
LEMMA AppendKeeps ==
  ASSUME NEW S, NEW s \in Seq(S), NEW e \in S
  PROVE  /\ Append(s, e) \in Seq(S) /\ ToSet(Append(s, e)) \subseteq ToSet(s) \cup {e}
         /\ IsInjective(s) /\ e \notin ToSet(s) => IsInjective(Append(s, e))
<1>1. /\ Append(s, e) \in Seq(S) /\ Len(Append(s, e)) = Len(s) + 1 /\ Len(s) \in Nat
      /\ \A i \in 1 .. Len(s) : Append(s, e)[i] = s[i]
      /\ Append(s, e)[Len(s) + 1] = e
      /\ DOMAIN s = 1 .. Len(s) /\ DOMAIN Append(s, e) = 1 .. Len(s) + 1
  OBVIOUS
<1>2. ASSUME IsInjective(s), e \notin ToSet(s),
             NEW i \in 1 .. Len(s) + 1, NEW j \in 1 .. Len(s) + 1,
             Append(s, e)[i] = Append(s, e)[j]
      PROVE  i = j
  <2>1. \A a \in 1 .. Len(s) : s[a] # e
    BY <1>1, <1>2 DEF ToSet
  <2>2. CASE i \in 1 .. Len(s) /\ j \in 1 .. Len(s)
    BY <1>1, <1>2, <2>2 DEF IsInjective
  <2>3. CASE i \in 1 .. Len(s) /\ j = Len(s) + 1
    BY <1>1, <1>2, <2>1, <2>3
  <2>4. CASE i = Len(s) + 1 /\ j \in 1 .. Len(s)
    BY <1>1, <1>2, <2>1, <2>4
  <2>5. /\ i \in 1 .. Len(s) \/ i = Len(s) + 1
        /\ j \in 1 .. Len(s) \/ j = Len(s) + 1
    BY <1>1
  <2> QED BY <2>2, <2>3, <2>4, <2>5
<1>3. ToSet(Append(s, e)) \subseteq ToSet(s) \cup {e}
  BY <1>1 DEF ToSet
<1> QED BY <1>1, <1>2, <1>3 DEF IsInjective

\* An empty list.
LEMMA EmptyList == ToSet(<<>>) = {} /\ IsInjective(<<>>) /\ \A S : <<>> \in Seq(S)
  BY DEF ToSet, IsInjective

\* An entry after a write: the tail of what was written, or as it was.
LEMMA Writes ==
  ASSUME BoundsAssumption, Typed, NEW u, NEW s \in Seq(Msgs), Write(u, s)
  PROVE  /\ DOMAIN store' = Users
         /\ \A v \in Users : /\ store'[v] = Absent \/ store'[v] \in Seq(Msgs)
                             /\ store'[v] # Absent => Len(store'[v]) <= MaxPerChat
         /\ \A v \in Users : v # u => Items(v)' = Items(v)
         /\ \A v \in Users : v = u => ToSet(Items(v)') \subseteq ToSet(s)
         /\ \A v \in Users : v = u /\ IsInjective(s) => IsInjective(Items(v)')
<1> DEFINE t == LastOf(s, MaxPerChat)
<1>1. /\ t \in Seq(Msgs) /\ Len(t) <= MaxPerChat /\ ToSet(t) \subseteq ToSet(s)
      /\ IsInjective(s) => IsInjective(t)
  BY LastKeeps DEF BoundsAssumption
<1>2. store' = [store EXCEPT ![u] = t]
  BY DEF Write
<1> HIDE DEF t
<1>3. DOMAIN store' = Users /\ \A v \in Users : store'[v] = IF v = u THEN t ELSE store[v]
  BY <1>2 DEF Typed
<1>4. \A v \in Users : /\ store'[v] = Absent \/ store'[v] \in Seq(Msgs)
                       /\ store'[v] # Absent => Len(store'[v]) <= MaxPerChat
  BY <1>1, <1>3 DEF Typed, TypeOK
<1>5. \A v \in Users : v # u => Items(v)' = Items(v)
  BY <1>3 DEF Items
<1>6. \A v \in Users : v = u => Items(v)' = t \/ Items(v)' = <<>>
  BY <1>3 DEF Items
<1> QED BY <1>1, <1>3, <1>4, <1>5, <1>6, EmptyList

\* What is read of an entry.
LEMMA ItemsAreLists == ASSUME Typed, NEW u \in Users PROVE Items(u) \in Seq(Msgs)
  BY EmptyList DEF Typed, TypeOK, Items

\* A step of a drop: what becomes of it is among the drops, unless it is over.
Turns(d, x) ==
  /\ x \in DropTypes /\ x.msg = d.msg
  /\ \A c \in drops' : c = x \/ c \in drops
  /\ \A c \in drops : c = d \/ c \in drops'
  /\ x \in drops' \/ (x.at = "read" /\ x.todo = {})

LEMMA BecomeTurns ==
  ASSUME NEW d, NEW x \in DropTypes, x.msg = d.msg, Become(d, {x}) PROVE Turns(d, x)
  BY DEF Become, Turns

LEMMA KeysTurn ==
  ASSUME Typed, NEW d \in drops, DropKeys(d)
  PROVE  \E x : /\ Turns(d, x) /\ x.at = "read" /\ x.items = d.items
                /\ \A u \in Users : store[u] # Absent => u \in x.todo
<1> DEFINE T == {u \in Users : store[u] # Absent}
           x == [d EXCEPT !.at = "read", !.todo = T]
<1>1. d \in DropTypes /\ T \in SUBSET Users
  BY DEF Typed, TypeOK, DropTypes
<1>2. Become(d, {x})
  BY DEF DropKeys
<1> HIDE DEF T
<1>3. x \in DropTypes /\ x.msg = d.msg /\ x.at = "read" /\ x.items = d.items /\ x.todo = T
  BY <1>1 DEF DropTypes
<1> HIDE DEF x
<1> QED BY <1>2, <1>3, BecomeTurns DEF T

LEMMA ReadTurns ==
  ASSUME Typed, NEW d \in drops, NEW u \in Users, DropRead(d, u)
  PROVE  \E x : /\ Turns(d, x) /\ x.todo = d.todo \ {u}
                /\ \/ /\ d.msg \in ToSet(Items(u)) /\ x.at = "write" /\ x.user = u
                      /\ x.items = Items(u)
                   \/ d.msg \notin ToSet(Items(u)) /\ x.at = "read" /\ x.items = d.items
<1>1. d \in DropTypes /\ d.at = "read" /\ Items(u) \in Seq(Msgs)
  BY ItemsAreLists DEF Typed, TypeOK, DropTypes, DropRead
<1>2. CASE d.msg \in ToSet(Items(u))
  <2> DEFINE s == Items(u)
             x == [d EXCEPT !.at = "write", !.todo = d.todo \ {u}, !.user = u, !.items = s]
  <2>1. Become(d, {x})
    BY <1>2 DEF DropRead
  <2> HIDE DEF s
  <2>2. x \in DropTypes /\ x.msg = d.msg /\ x.at = "write" /\ x.user = u /\ x.items = s
        /\ x.todo = d.todo \ {u}
    <3>1. s \in Seq(Msgs)
      BY <1>1 DEF s
    <3> QED BY <1>1, <3>1 DEF DropTypes
  <2> HIDE DEF x
  <2> QED BY <1>2, <2>1, <2>2, BecomeTurns DEF s
<1>3. CASE d.msg \notin ToSet(Items(u))
  <2> DEFINE x == [d EXCEPT !.todo = d.todo \ {u}]
  <2>1. Become(d, {x})
    BY <1>3 DEF DropRead
  <2>2. x \in DropTypes /\ x.msg = d.msg /\ x.at = "read" /\ x.items = d.items
        /\ x.todo = d.todo \ {u}
    BY <1>1 DEF DropTypes
  <2> HIDE DEF x
  <2> QED BY <1>3, <2>1, <2>2, BecomeTurns
<1> QED BY <1>2, <1>3

LEMMA WriteTurns ==
  ASSUME Typed, NEW d \in drops, DropWrite(d)
  PROVE  \E x : Turns(d, x) /\ x.at = "read" /\ x.items = <<>> /\ x.todo = d.todo
<1> DEFINE x == [d EXCEPT !.at = "read", !.items = <<>>]
<1>1. d \in DropTypes /\ <<>> \in Seq(Msgs)
  BY EmptyList DEF Typed, TypeOK, DropTypes
<1>2. Become(d, {x})
  BY DEF DropWrite
<1>3. x \in DropTypes /\ x.msg = d.msg /\ x.at = "read" /\ x.items = <<>> /\ x.todo = d.todo
  BY <1>1 DEF DropTypes
<1> HIDE DEF x
<1> QED BY <1>2, <1>3, BecomeTurns

\* The first of the queue and the others.
LEMMA FirstOfQueue ==
  ASSUME Typed, queue # <<>>
  PROVE  /\ Head(queue) \in [user : Users, msg : Msgs] /\ Head(queue) \in ToSet(queue)
         /\ Tail(queue) \in Seq([user : Users, msg : Msgs])
         /\ ToSet(Tail(queue)) \subseteq ToSet(queue)
<1> DEFINE S == [user : Users, msg : Msgs]
<1>1. queue \in Seq(S)
  BY DEF Typed, TypeOK
<1> HIDE DEF S
<1>2. Head(queue) \in S
  BY <1>1
<1> QED BY <1>1, <1>2, QueueSets DEF S

\* The request for the history with its answer.
LEMMA Answers ==
  ASSUME BoundsAssumption, Typed, NEW l \in loads
  PROVE  LET x == [l EXCEPT !.at = "answered", !.items = History] IN
           x \in LoadTypes /\ x.user = l.user /\ x.items = History
<1>1. l \in LoadTypes /\ History \in Seq(Msgs)
  BY HistoryIsAPage DEF Typed, TypeOK, LoadTypes
<1> QED BY <1>1 DEF LoadTypes

\* The drop of a deletion that has come in.
LEMMA NewDrops ==
  ASSUME BoundsAssumption, NEW m \in Msgs
  PROVE  LET x == [NewDrop EXCEPT !.msg = m] IN
           x \in DropTypes /\ x.msg = m /\ x.at = "keys" /\ x.items = <<>>
<1>1. 1 \in Msgs /\ <<>> \in Seq(Msgs)
  BY EmptyList DEF BoundsAssumption, Msgs
<1>2. NewDrop \in DropTypes /\ NewDrop.at = "keys" /\ NewDrop.items = <<>>
  BY <1>1 DEF NewDrop, DropTypes
<1> QED BY <1>2 DEF DropTypes

\* The server keeps the types, and so do the steps of the app.
LEMMA AppTypes ==
  ASSUME BoundsAssumption, Typed, Server \/ App
  PROVE  Typed'
<1>0. TypeOK /\ DOMAIN store = Users
  BY DEF Typed
<1>1. ASSUME NEW m \in Msgs, Post(m) \/ Delete(m) PROVE Typed'
  <2>1. row \in [Msgs -> {"none", "there", "gone"}] /\ owed \subseteq Event
    BY <1>0 DEF TypeOK
  <2>2. /\ row' \in [Msgs -> {"none", "there", "gone"}] /\ owed' \subseteq Event
        /\ UNCHANGED <<account, tasks, store, fate>>
    BY <1>1, <2>1 DEF Post, Delete, Event
  <2> QED BY <1>0, <2>2 DEF Typed, TypeOK, account, tasks
<1>2. ASSUME NEW e \in Event, Miss(e) PROVE Typed'
  BY <1>0, <1>2 DEF Miss, account, tasks, Typed, TypeOK
<1>3. CASE OpenChat
  <2>1. [at |-> "asked", user |-> me, items |-> <<>>] \in LoadTypes
    <3>1. me \in Users
      BY <1>0, <1>3 DEF TypeOK, OpenChat
    <3> QED BY <3>1, EmptyList DEF LoadTypes
  <2>2. \A l \in loads' : l \in LoadTypes
    BY <1>0, <1>3, <2>1 DEF OpenChat, TypeOK, LoadTypes
  <2>3. loaded' = TRUE /\ UNCHANGED <<server, account, handlers, queue, job, drops, store, fate>>
    BY <1>3 DEF OpenChat
  <2> QED BY <1>0, <2>2, <2>3 DEF server, account, Typed, TypeOK, LoadTypes
<1>4. ASSUME NEW l \in loads, HistoryAnswered(l) \/ HistoryFailed(l) PROVE Typed'
  <2>1. \A c \in loads' : c \in LoadTypes
    <3> DEFINE x == [l EXCEPT !.at = "answered", !.items = History]
    <3>1. x \in LoadTypes
      BY Answers
    <3>2. loads' \subseteq loads \cup {x}
      BY <1>4 DEF HistoryAnswered, HistoryFailed
    <3>3. \A c \in loads : c \in LoadTypes
      BY <1>0 DEF TypeOK, LoadTypes
    <3> HIDE DEF x
    <3> QED BY <3>1, <3>2, <3>3
  <2>2. UNCHANGED <<server, account, loaded, handlers, queue, job, drops, store, fate>>
    BY <1>4 DEF HistoryAnswered, HistoryFailed
  <2> QED BY <1>0, <2>1, <2>2 DEF server, account, Typed, TypeOK, LoadTypes
<1>5. ASSUME NEW e \in Event, Deliver(e) PROVE Typed'
  <2>1. e[2] \in Msgs
    BY DEF Event
  <2>2. handlers' \subseteq Msgs
    BY <1>0, <1>5, <2>1 DEF Deliver, TypeOK
  <2>3. \A d \in drops' : d \in DropTypes
    BY <1>0, <1>5, <2>1, NewDrops DEF Deliver, TypeOK, DropTypes
  <2>4. owed' \subseteq Event /\ UNCHANGED <<row, account, loaded, loads, queue, job, store, fate>>
    BY <1>0, <1>5 DEF Deliver, TypeOK
  <2> QED BY <1>0, <2>2, <2>3, <2>4 DEF account, Typed, TypeOK, DropTypes
<1>6. ASSUME NEW m \in Msgs, Decrypted(m) PROVE Typed'
  <2>1. queue' \in Seq([user : Users, msg : Msgs])
    <3>1. me # NoOne => [user |-> me, msg |-> m] \in [user : Users, msg : Msgs]
      BY <1>0 DEF TypeOK
    <3> DEFINE S == [user : Users, msg : Msgs]
               e == [user |-> me, msg |-> m]
    <3>2. queue \in Seq(S) /\ queue' = IF me = NoOne THEN queue ELSE Append(queue, e)
      BY <1>0, <1>6 DEF Decrypted, TypeOK
    <3> HIDE DEF S, e
    <3>3. (me # NoOne => e \in S) => queue' \in Seq(S)
      BY <3>2, AppendKeeps
    <3> QED BY <3>1, <3>3 DEF S, e
  <2>2. /\ handlers' \subseteq Msgs
        /\ UNCHANGED <<server, account, loaded, loads, job, drops, store, fate>>
    BY <1>0, <1>6 DEF Decrypted, TypeOK
  <2> QED BY <1>0, <2>1, <2>2 DEF server, account, Typed, TypeOK
<1>7. CASE Logout \/ Expired \/ Rendered
  <2>1. CASE Logout
    BY <1>0, <2>1 DEF Logout, server, Typed, TypeOK
  <2>2. CASE Expired
    BY <1>0, <2>2 DEF Expired, server, Typed, TypeOK
  <2>3. CASE Rendered
    BY <1>0, <2>3 DEF Rendered, server, tasks, Typed, TypeOK
  <2> QED BY <1>7, <2>1, <2>2, <2>3
<1>8. ASSUME NEW u \in Users, Login(u) PROVE Typed'
  <2>1. starts' \in 0 .. MaxStarts
    BY <1>0, <1>8 DEF Login, TypeOK, BoundsAssumption
  <2> QED BY <1>0, <1>8, <2>1, NobodyAssumption DEF Login, server, tasks, Typed, TypeOK
<1>9. CASE Restart
  <2>1. starts' \in 0 .. MaxStarts
    BY <1>0, <1>9 DEF Restart, TypeOK, BoundsAssumption
  <2>2. job' \in [busy : BOOLEAN, user : Users \cup {NoOne}, msg : Msgs, items : Seq(Msgs)]
    BY <1>9, EmptyList DEF Restart, NoJob, BoundsAssumption, Msgs
  <2>3. fate' \in [Msgs -> {"none", "alone", "raced"}]
    BY <1>0, <1>9 DEF Restart, TypeOK
  <2>4. /\ clearing' = FALSE /\ loaded' = FALSE /\ loads' = {} /\ handlers' = {} /\ drops' = {}
        /\ queue' \in Seq([user : Users, msg : Msgs])
        /\ UNCHANGED <<server, session, store>> /\ me' = IF session THEN me ELSE NoOne
    BY <1>9, EmptyList DEF Restart
  <2> QED BY <1>0, <2>1, <2>2, <2>3, <2>4 DEF server, Typed, TypeOK
<1> QED BY <1>1, <1>2, <1>3, <1>4, <1>5, <1>6, <1>7, <1>8, <1>9 DEF Server, App

\* Some messages' drops are no longer alone.
LEMMA RacedTypes ==
  ASSUME Typed, NEW ms, Raced(ms)
  PROVE  /\ fate' \in [Msgs -> {"none", "alone", "raced"}]
         /\ \A m \in Msgs : fate'[m] = "alone" => fate[m] = "alone" /\ m \notin ms
  BY DEF Raced, Typed, TypeOK

\* The appends, the writes of the history, the drops and the clearing keep the types.
LEMMA CacheTypes ==
  ASSUME BoundsAssumption, Typed, Cache
  PROVE  Typed'
<1> DEFINE JobTypes == [busy : BOOLEAN, user : Users \cup {NoOne}, msg : Msgs, items : Seq(Msgs)]
<1>0. TypeOK /\ DOMAIN store = Users
  BY DEF Typed
<1>1. NoJob \in JobTypes
  BY EmptyList DEF NoJob, BoundsAssumption, Msgs
<1>2. CASE AppendRead
  <2> DEFINE q == Head(queue)
             s == Items(q.user)
  <2>1. q \in [user : Users, msg : Msgs] /\ queue' \in Seq([user : Users, msg : Msgs])
    BY <1>2, FirstOfQueue DEF AppendRead
  <2>2. s \in Seq(Msgs)
    BY <2>1, ItemsAreLists
  <2>3. job' \in {NoJob, [busy |-> TRUE, user |-> q.user, msg |-> q.msg, items |-> s]}
    BY <1>2 DEF AppendRead
  <2> HIDE DEF q, s
  <2>4. job' \in JobTypes
    <3>1. q.user \in Users \cup {NoOne} /\ q.msg \in Msgs
      BY <2>1
    <3>2. [busy |-> TRUE, user |-> q.user, msg |-> q.msg, items |-> s] \in JobTypes
      BY <2>2, <3>1
    <3> HIDE DEF JobTypes
    <3> QED BY <1>1, <2>3, <3>2
  <2>5. fate' \in [Msgs -> {"none", "alone", "raced"}]
    BY <1>2, RacedTypes DEF AppendRead
  <2>6. UNCHANGED <<server, account, loaded, loads, handlers, drops, store>>
    BY <1>2 DEF AppendRead
  <2> QED BY <1>0, <2>1, <2>4, <2>5, <2>6 DEF server, account, Typed, TypeOK
<1>3. CASE AppendWrite
  <2>1. Append(job.items, job.msg) \in Seq(Msgs)
    BY <1>0, AppendKeeps DEF TypeOK
  <2>2. /\ Write(job.user, Append(job.items, job.msg)) /\ job' = NoJob
        /\ UNCHANGED <<server, account, loaded, loads, handlers, queue, drops, fate>>
    BY <1>3 DEF AppendWrite
  <2>3. /\ DOMAIN store' = Users
        /\ \A v \in Users : /\ store'[v] = Absent \/ store'[v] \in Seq(Msgs)
                            /\ store'[v] # Absent => Len(store'[v]) <= MaxPerChat
    BY <2>1, <2>2, Writes
  <2> QED BY <1>0, <1>1, <2>2, <2>3 DEF server, account, Typed, TypeOK
<1>4. ASSUME NEW l \in loads, HistoryWrite(l) PROVE Typed'
  <2>1. /\ Write(l.user, l.items) /\ loads' \subseteq loads /\ l.items \in Seq(Msgs)
        /\ UNCHANGED <<server, account, loaded, handlers, queue, job, drops, fate>>
    BY <1>0, <1>4 DEF HistoryWrite, TypeOK
  <2>2. /\ DOMAIN store' = Users
        /\ \A v \in Users : /\ store'[v] = Absent \/ store'[v] \in Seq(Msgs)
                            /\ store'[v] # Absent => Len(store'[v]) <= MaxPerChat
    BY <2>1, Writes
  <2> QED BY <1>0, <2>1, <2>2 DEF server, account, Typed, TypeOK
<1>5. ASSUME NEW d \in drops, DropKeys(d) PROVE Typed'
  <2>1. \A c \in drops' : c \in DropTypes
    BY <1>0, <1>5, KeysTurn DEF Turns, TypeOK, DropTypes
  <2>2. fate' \in [Msgs -> {"none", "alone", "raced"}]
    BY <1>0, <1>5 DEF DropKeys, TypeOK
  <2>3. UNCHANGED <<server, account, loaded, loads, handlers, queue, job, store>>
    BY <1>5 DEF DropKeys
  <2> QED BY <1>0, <2>1, <2>2, <2>3 DEF server, account, Typed, TypeOK, DropTypes
<1>6. ASSUME NEW d \in drops, NEW u \in Users, DropRead(d, u) PROVE Typed'
  <2>1. \A c \in drops' : c \in DropTypes
    BY <1>0, <1>6, ReadTurns DEF Turns, TypeOK, DropTypes
  <2>2. fate' \in [Msgs -> {"none", "alone", "raced"}]
    <3>1. fate' = fate \/ Raced(ToSet(Items(u)) \ {d.msg})
      BY <1>6 DEF DropRead
    <3> QED BY <1>0, <3>1, RacedTypes DEF TypeOK
  <2>3. UNCHANGED <<server, account, loaded, loads, handlers, queue, job, store>>
    BY <1>6 DEF DropRead
  <2> QED BY <1>0, <2>1, <2>2, <2>3 DEF server, account, Typed, TypeOK, DropTypes
<1>7. ASSUME NEW d \in drops, DropWrite(d) PROVE Typed'
  <2>1. \A c \in drops' : c \in DropTypes
    BY <1>0, <1>7, WriteTurns DEF Turns, TypeOK, DropTypes
  <2>2. /\ Write(d.user, Only(d.items, Msgs \ {d.msg}))
        /\ UNCHANGED <<server, account, loaded, loads, handlers, queue, job, fate>>
    BY <1>7 DEF DropWrite
  <2>3. Only(d.items, Msgs \ {d.msg}) \in Seq(Msgs)
    BY <1>0, OnlyKeeps DEF TypeOK
  <2>4. /\ DOMAIN store' = Users
        /\ \A v \in Users : /\ store'[v] = Absent \/ store'[v] \in Seq(Msgs)
                            /\ store'[v] # Absent => Len(store'[v]) <= MaxPerChat
    BY <2>2, <2>3, Writes
  <2> QED BY <1>0, <2>1, <2>2, <2>4 DEF server, account, Typed, TypeOK, DropTypes
<1>8. CASE Clear
  <2>1. /\ clearing' = FALSE /\ store' = [u \in Users |-> Absent]
        /\ UNCHANGED <<server, me, session, starts, tasks, fate>>
    BY <1>8 DEF Clear
  <2> QED BY <1>0, <2>1 DEF server, tasks, Typed, TypeOK
<1>9. CASE ClearFails
  BY <1>0, <1>9 DEF ClearFails, server, tasks, Typed, TypeOK
<1> QED BY <1>2, <1>3, <1>4, <1>5, <1>6, <1>7, <1>8, <1>9 DEF Cache

LEMMA TypesHold == ASSUME BoundsAssumption, Typed, [Next]_vars PROVE Typed'
<1>1. CASE UNCHANGED vars
  BY <1>1 DEF vars, server, account, tasks, Typed, TypeOK
<1> QED BY <1>1, AppTypes, CacheTypes DEF Next

LEMMA InitTyped == ASSUME BoundsAssumption, Init PROVE Typed
<1>1. 1 \in Msgs /\ 0 \in 0 .. MaxStarts
  BY DEF BoundsAssumption, Msgs
<1>2. job \in [busy : BOOLEAN, user : Users \cup {NoOne}, msg : Msgs, items : Seq(Msgs)]
  BY <1>1, EmptyList DEF Init, NoJob
<1>3. queue \in Seq([user : Users, msg : Msgs])
  BY EmptyList DEF Init
<1>4. session => me # NoOne
  BY NobodyAssumption DEF Init
<1> QED BY <1>1, <1>2, <1>3, <1>4 DEF Init, Typed, TypeOK

\* The entries are lists of messages within MAX_PER_CHAT, and every task works on
\* such lists, whatever is logged in, written or dropped.
THEOREM TypeCorrect == Spec => []TypeOK
<1>1. Init => Typed
  BY InitTyped, BoundsAssumption
<1>2. Typed /\ [Next]_vars => Typed'
  BY TypesHold, BoundsAssumption
<1>3. Typed => TypeOK
  BY DEF Typed
<1> QED BY <1>1, <1>2, <1>3, PTL DEF Spec

------------------------------------------------------------------------------
(* No message twice.                                                       *)

\* Neither an entry nor what a task read or will write has a message twice; and
\* the append at work adds one that was not in what it read.
NoTwice ==
  /\ NoDuplicates
  /\ IsInjective(job.items)
  /\ job.busy => job.msg \notin ToSet(job.items)
  /\ \A l \in loads : IsInjective(l.items)
  /\ \A d \in drops : IsInjective(d.items)

LEMMA NoTwiceHolds ==
  ASSUME BoundsAssumption, Typed, NoTwice, [Next]_vars
  PROVE  NoTwice'
<1>0. IsInjective(NoJob.items) /\ ~NoJob.busy
  BY EmptyList DEF NoJob
<1>1. ASSUME UNCHANGED <<loads, job, drops, store>> PROVE NoTwice'
  BY <1>1 DEF NoTwice, NoDuplicates, Items
<1>2. ASSUME NEW m \in Msgs, Post(m) \/ Delete(m) \/ Decrypted(m) PROVE NoTwice'
  BY <1>1, <1>2 DEF Post, Delete, Decrypted, tasks
<1>3. ASSUME NEW e \in Event, Miss(e) PROVE NoTwice'
  BY <1>1, <1>3 DEF Miss, tasks
<1>4. CASE OpenChat
  <2>1. [at |-> "asked", user |-> me, items |-> <<>>].items = <<>>
    OBVIOUS
  <2>2. \A l \in loads' : IsInjective(l.items)
    BY <1>4, <2>1, EmptyList DEF OpenChat, NoTwice
  <2> QED BY <1>4, <2>2 DEF OpenChat, NoTwice, NoDuplicates, Items
<1>5. ASSUME NEW l \in loads, HistoryAnswered(l) \/ HistoryFailed(l) PROVE NoTwice'
  <2> DEFINE x == [l EXCEPT !.at = "answered", !.items = History]
  <2>1. IsInjective(x.items)
    BY Answers, HistoryIsAPage
  <2>2. loads' \subseteq loads \cup {x} /\ UNCHANGED <<job, drops, store>>
    BY <1>5 DEF HistoryAnswered, HistoryFailed
  <2> HIDE DEF x
  <2>3. \A c \in loads' : IsInjective(c.items)
    BY <2>1, <2>2 DEF NoTwice
  <2> QED BY <2>2, <2>3 DEF NoTwice, NoDuplicates, Items
<1>6. ASSUME NEW e \in Event, Deliver(e) PROVE NoTwice'
  <2> DEFINE x == [NewDrop EXCEPT !.msg = e[2]]
  <2>1. x.items = <<>>
    <3>1. e[2] \in Msgs
      BY DEF Event
    <3> QED BY <3>1, NewDrops
  <2>2. drops' \subseteq drops \cup {x} /\ UNCHANGED <<loads, job, store>>
    BY <1>6 DEF Deliver
  <2> HIDE DEF x
  <2>3. \A c \in drops' : IsInjective(c.items)
    BY <2>1, <2>2, EmptyList DEF NoTwice
  <2> QED BY <2>2, <2>3 DEF NoTwice, NoDuplicates, Items
<1>7. ASSUME \/ Logout \/ Expired \/ Rendered \/ ClearFails \/ UNCHANGED vars
             \/ \E u \in Users : Login(u)
      PROVE  NoTwice'
  <2>1. CASE Logout \/ Expired \/ Rendered \/ ClearFails
    BY <1>1, <2>1 DEF Logout, Expired, Rendered, ClearFails, tasks
  <2>2. CASE UNCHANGED vars
    BY <1>1, <2>2 DEF vars, tasks
  <2>3. ASSUME NEW u \in Users, Login(u) PROVE NoTwice'
    BY <1>1, <2>3 DEF Login, tasks
  <2> QED BY <1>7, <2>1, <2>2, <2>3
<1>8. CASE Restart
  <2>1. loads' = {} /\ drops' = {} /\ job' = NoJob /\ store' = store
    BY <1>8 DEF Restart
  <2> QED BY <1>0, <2>1 DEF NoTwice, NoDuplicates, Items
<1>9. CASE AppendRead
  <2> DEFINE q == Head(queue)
             s == Items(q.user)
  <2>1. q \in [user : Users, msg : Msgs]
    BY <1>9, FirstOfQueue DEF AppendRead
  <2>2. IsInjective(s)
    BY <2>1 DEF NoTwice, NoDuplicates
  <2>3. job' = IF q.msg \in ToSet(s) THEN NoJob
               ELSE [busy |-> TRUE, user |-> q.user, msg |-> q.msg, items |-> s]
    BY <1>9 DEF AppendRead
  <2> HIDE DEF q, s
  <2>4. IsInjective(job'.items) /\ (job'.busy => job'.msg \notin ToSet(job'.items))
    BY <1>0, <2>2, <2>3
  <2>5. UNCHANGED <<loads, drops, store>>
    BY <1>9 DEF AppendRead
  <2> QED BY <2>4, <2>5 DEF NoTwice, NoDuplicates, Items
<1>10. CASE AppendWrite
  <2>1. /\ Append(job.items, job.msg) \in Seq(Msgs)
        /\ IsInjective(Append(job.items, job.msg))
    BY <1>10, AppendKeeps DEF AppendWrite, NoTwice, Typed, TypeOK
  <2>2. /\ Write(job.user, Append(job.items, job.msg)) /\ job' = NoJob
        /\ UNCHANGED <<loads, drops>>
    BY <1>10 DEF AppendWrite
  <2>3. \A v \in Users : IsInjective(Items(v)')
    BY <2>1, <2>2, Writes DEF NoTwice, NoDuplicates
  <2> QED BY <1>0, <2>2, <2>3 DEF NoTwice, NoDuplicates
<1>11. ASSUME NEW l \in loads, HistoryWrite(l) PROVE NoTwice'
  <2>1. /\ Write(l.user, l.items) /\ loads' \subseteq loads /\ l.items \in Seq(Msgs)
        /\ IsInjective(l.items) /\ UNCHANGED <<job, drops>>
    BY <1>11 DEF HistoryWrite, NoTwice, Typed, TypeOK
  <2>2. \A v \in Users : IsInjective(Items(v)')
    BY <2>1, Writes DEF NoTwice, NoDuplicates
  <2> QED BY <2>1, <2>2 DEF NoTwice, NoDuplicates
<1>12. ASSUME NEW d \in drops, DropKeys(d) PROVE NoTwice'
  <2>1. \A c \in drops' : IsInjective(c.items)
    BY <1>12, KeysTurn DEF Turns, NoTwice
  <2> QED BY <1>12, <2>1 DEF DropKeys, NoTwice, NoDuplicates, Items
<1>13. ASSUME NEW d \in drops, NEW u \in Users, DropRead(d, u) PROVE NoTwice'
  <2>1. \A c \in drops' : IsInjective(c.items)
    BY <1>13, ReadTurns DEF Turns, NoTwice, NoDuplicates
  <2> QED BY <1>13, <2>1 DEF DropRead, NoTwice, NoDuplicates, Items
<1>14. ASSUME NEW d \in drops, DropWrite(d) PROVE NoTwice'
  <2>1. \A c \in drops' : IsInjective(c.items)
    BY <1>14, WriteTurns, EmptyList DEF Turns, NoTwice
  <2>2. /\ Write(d.user, Only(d.items, Msgs \ {d.msg})) /\ UNCHANGED <<loads, job>>
    BY <1>14 DEF DropWrite
  <2>3. /\ Only(d.items, Msgs \ {d.msg}) \in Seq(Msgs)
        /\ IsInjective(Only(d.items, Msgs \ {d.msg}))
    BY OnlyKeeps DEF NoTwice, Typed, TypeOK
  <2>4. \A v \in Users : IsInjective(Items(v)')
    BY <2>2, <2>3, Writes DEF NoTwice, NoDuplicates
  <2> QED BY <2>1, <2>2, <2>4 DEF NoTwice, NoDuplicates
<1>15. CASE Clear
  <2>1. UNCHANGED <<loads, job, drops>> /\ \A v \in Users : store'[v] = Absent
    BY <1>15 DEF Clear, tasks
  <2>2. \A v \in Users : Items(v)' = <<>>
    BY <2>1 DEF Items
  <2> QED BY <2>1, <2>2, EmptyList DEF NoTwice, NoDuplicates
<1> QED BY <1>2, <1>3, <1>4, <1>5, <1>6, <1>7, <1>8, <1>9, <1>10, <1>11, <1>12, <1>13, <1>14,
           <1>15 DEF Next, Server, App, Cache

\* messageCache.ts: for any users, messages and sizes, no entry has a message twice,
\* though the history and the socket bring the same ones and the history does not
\* wait for the queue.
THEOREM NoMessageTwice == Spec => []NoDuplicates
<1>1. Init => Typed /\ NoTwice
  <2> SUFFICES ASSUME Init PROVE Typed /\ NoTwice
    OBVIOUS
  <2>1. loads = {} /\ drops = {} /\ job = NoJob /\ \A u \in Users : Items(u) = <<>>
    BY DEF Init, Items
  <2>2. IsInjective(NoJob.items) /\ ~NoJob.busy
    BY EmptyList DEF NoJob
  <2> QED BY <2>1, <2>2, InitTyped, BoundsAssumption, EmptyList DEF NoTwice, NoDuplicates
<1>2. Typed /\ NoTwice /\ [Next]_vars => Typed' /\ NoTwice'
  BY TypesHold, NoTwiceHolds, BoundsAssumption
<1>3. NoTwice => NoDuplicates
  BY DEF NoTwice
<1> QED BY <1>1, <1>2, <1>3, PTL DEF Spec

------------------------------------------------------------------------------
(* What was dropped.                                                       *)

\* The drop d will still take its message out of the entry of u.
WillDrop(d, u) == u \in d.todo \/ (d.at = "write" /\ d.user = u)

\* A deleted message in no task that could write it, and in no entry but those a
\* drop of it is still to come to.
Leaves(m) ==
  /\ row[m] = "gone" /\ ~InFlight(m)
  /\ \A u \in Users : m \in ToSet(Items(u)) => \E d \in drops : d.msg = m /\ WillDrop(d, u)

\* What is dropped was deleted, and leaves for good if its drop met no other task.
Dropping ==
  /\ \A d \in drops : row[d.msg] = "gone"
  /\ \A m \in Msgs : <<"delete", m>> \in owed => row[m] = "gone"
  /\ \A m \in Msgs : fate[m] = "alone" => Leaves(m)

\* A drop that is over left no entry to come to.
LEMMA TurnsLeave ==
  ASSUME NEW d \in drops, NEW x, Turns(d, x), NEW m \in Msgs, NEW u, NEW c \in drops,
         c.msg = m, WillDrop(c, u), c = d => WillDrop(x, u)
  PROVE  \E e \in drops' : e.msg = m /\ WillDrop(e, u)
  BY DEF Turns, WillDrop

\* The steps of the server and of the app.
LEMMA AppDrops ==
  ASSUME BoundsAssumption, Typed, Dropping, Server \/ App
  PROVE  Dropping'
<1>0. /\ row \in [Msgs -> {"none", "there", "gone"}]
      /\ fate \in [Msgs -> {"none", "alone", "raced"}]
      /\ \A d \in drops : d.msg \in Msgs
  BY DEF Typed, TypeOK
<1>1. ASSUME UNCHANGED <<row, fate, drops, store>>,
             \A m \in Msgs : <<"delete", m>> \in owed' => <<"delete", m>> \in owed,
             \A m \in Msgs : fate[m] = "alone" => ~InFlight(m)'
      PROVE  Dropping'
  BY <1>1 DEF Dropping, Leaves, WillDrop, Items
<1>2. ASSUME NEW m \in Msgs, Post(m) PROVE Dropping'
  <2>1. /\ row[m] = "none" /\ row' = [row EXCEPT ![m] = "there"]
        /\ owed' = owed \cup {<<"message", m>>}
        /\ UNCHANGED <<handlers, queue, job, loads, drops, store, fate>>
    BY <1>2 DEF Post, tasks
  <2>2. \A k \in Msgs : row[k] = "gone" => row'[k] = "gone" /\ k # m
    BY <1>0, <2>1
  <2>3. \A k \in Msgs : <<"delete", k>> \in owed' => <<"delete", k>> \in owed
    BY <2>1
  <2>4. \A k \in Msgs : k # m /\ ~InFlight(k) => ~InFlight(k)'
    BY <2>1 DEF InFlight
  <2> QED BY <1>0, <2>1, <2>2, <2>3, <2>4 DEF Dropping, Leaves, WillDrop, Items
<1>3. ASSUME NEW m \in Msgs, Delete(m) PROVE Dropping'
  <2>1. /\ row' = [row EXCEPT ![m] = "gone"] /\ owed' = owed \cup {<<"delete", m>>}
        /\ UNCHANGED <<handlers, queue, job, loads, drops, store, fate>>
    BY <1>3 DEF Delete, tasks
  <2>2. row'[m] = "gone" /\ \A k \in Msgs : row[k] = "gone" => row'[k] = "gone"
    BY <1>0, <2>1
  <2>3. \A k \in Msgs : <<"delete", k>> \in owed' => <<"delete", k>> \in owed \/ k = m
    BY <2>1
  <2>4. \A k \in Msgs : ~InFlight(k) => ~InFlight(k)'
    BY <2>1 DEF InFlight
  <2> QED BY <1>0, <2>1, <2>2, <2>3, <2>4 DEF Dropping, Leaves, WillDrop, Items
<1>4. ASSUME NEW e \in Event, Miss(e) PROVE Dropping'
  <2>1. \A m \in Msgs : ~InFlight(m) => ~InFlight(m)'
    BY <1>4 DEF Miss, tasks, InFlight
  <2> QED BY <1>1, <1>4, <2>1 DEF Miss, tasks, Dropping, Leaves
<1>5. CASE OpenChat
  <2>1. [at |-> "asked", user |-> me, items |-> <<>>].items = <<>>
    OBVIOUS
  <2>2. \A l \in loads' : l \in loads \/ l.items = <<>>
    BY <1>5, <2>1 DEF OpenChat
  <2>3. UNCHANGED <<row, owed, handlers, queue, job, drops, store, fate>>
    BY <1>5 DEF OpenChat, server
  <2>4. \A m \in Msgs : ~InFlight(m) => ~InFlight(m)'
    BY <2>2, <2>3, EmptyList DEF InFlight
  <2> QED BY <1>1, <2>3, <2>4 DEF Dropping, Leaves
<1>6. ASSUME NEW l \in loads, HistoryAnswered(l) \/ HistoryFailed(l) PROVE Dropping'
  <2> DEFINE x == [l EXCEPT !.at = "answered", !.items = History]
  <2>1. x.items = History
    BY Answers
  <2>2. loads' \subseteq loads \cup {x}
        /\ UNCHANGED <<row, owed, handlers, queue, job, drops, store, fate>>
    BY <1>6 DEF HistoryAnswered, HistoryFailed, server
  <2> HIDE DEF x
  <2>3. \A m \in Msgs : row[m] = "gone" => m \notin ToSet(History)
    BY HistoryIsAPage
  <2>4. \A m \in Msgs : row[m] = "gone" /\ ~InFlight(m) => ~InFlight(m)'
    BY <2>1, <2>2, <2>3 DEF InFlight
  <2> QED BY <1>1, <2>2, <2>4 DEF Dropping, Leaves
<1>7. ASSUME NEW e \in Event, Deliver(e) PROVE Dropping'
  <2> DEFINE x == [NewDrop EXCEPT !.msg = e[2]]
  <2>1. x.msg = e[2] /\ x.items = <<>>
    <3>1. e[2] \in Msgs
      BY DEF Event
    <3> QED BY <3>1, NewDrops
  <2>2. /\ e \in owed /\ owed' = owed \ {e} /\ UNCHANGED <<row, queue, job, loads, store, fate>>
        /\ IF e[1] = "message" THEN handlers' = handlers \cup {e[2]} /\ drops' = drops
           ELSE drops' = drops \cup {x} /\ handlers' = handlers
    BY <1>7 DEF Deliver
  <2> HIDE DEF x
  <2>3. e = <<e[1], e[2]>> /\ e[2] \in Msgs /\ (e[1] = "message" \/ e[1] = "delete")
    BY DEF Event
  <2>4. \A m \in Msgs : ~InFlight(m) => ~InFlight(m)'
    BY <2>1, <2>2, <2>3, EmptyList DEF InFlight
  <2>5. \A d \in drops' : row'[d.msg] = "gone"
    BY <2>1, <2>2, <2>3 DEF Dropping
  <2>6. drops \subseteq drops'
    BY <2>2
  <2> QED BY <2>2, <2>4, <2>5, <2>6 DEF Dropping, Leaves, WillDrop, Items
<1>8. ASSUME NEW m \in Msgs, Decrypted(m) PROVE Dropping'
  <2> DEFINE e == [user |-> me, msg |-> m]
             S == [user : Users, msg : Msgs]
  <2>1. e.msg = m /\ (me # NoOne => e \in S) /\ queue \in Seq(S)
    BY DEF Typed, TypeOK
  <2>2. /\ m \in handlers /\ handlers' = handlers \ {m}
        /\ queue' = IF me = NoOne THEN queue ELSE Append(queue, e)
        /\ UNCHANGED <<row, owed, job, loads, drops, store, fate>>
    BY <1>8 DEF Decrypted, server
  <2> HIDE DEF e, S
  <2>3. ToSet(queue') \subseteq ToSet(queue) \cup {e}
    <3>1. CASE me = NoOne
      BY <2>2, <3>1
    <3>2. CASE me # NoOne
      BY <2>1, <2>2, <3>2, AppendKeeps
    <3> QED BY <3>1, <3>2
  <2>4. \A k \in Msgs : ~InFlight(k) => ~InFlight(k)'
    BY <2>1, <2>2, <2>3 DEF InFlight
  <2> QED BY <1>1, <2>2, <2>4 DEF Dropping, Leaves
<1>9. CASE Logout \/ Expired \/ Rendered
  <2>1. UNCHANGED <<row, owed, handlers, queue, job, loads, drops, store, fate>>
    BY <1>9 DEF Logout, Expired, Rendered, server, tasks
  <2> QED BY <1>1, <2>1 DEF Dropping, Leaves, InFlight
<1>10. ASSUME NEW u \in Users, Login(u) PROVE Dropping'
  <2>1. UNCHANGED <<row, owed, handlers, queue, job, loads, drops, store, fate>>
    BY <1>10 DEF Login, server, tasks
  <2> QED BY <1>1, <2>1 DEF Dropping, Leaves, InFlight
<1>11. CASE Restart
  <2>1. /\ loads' = {} /\ handlers' = {} /\ queue' = <<>> /\ job' = NoJob /\ drops' = {}
        /\ UNCHANGED <<row, owed, store>>
    BY <1>11 DEF Restart, server
  <2>2. \A m \in Msgs : fate'[m] = "alone" => fate[m] = "alone" /\ \A d \in drops : d.msg # m
    BY <1>11 DEF Restart
  <2>3. \A m \in Msgs : ~InFlight(m) => ~InFlight(m)'
    BY <2>1, EmptyList DEF InFlight, NoJob
  <2>4. ASSUME NEW m \in Msgs, fate'[m] = "alone" PROVE Leaves(m)'
    <3>1. row[m] = "gone" /\ ~InFlight(m) /\ \A u \in Users : m \notin ToSet(Items(u))
      BY <2>2, <2>4 DEF Dropping, Leaves
    <3> QED BY <2>1, <2>3, <3>1 DEF Leaves, Items
  <2> QED BY <2>1, <2>4 DEF Dropping
<1> QED BY <1>2, <1>3, <1>4, <1>5, <1>6, <1>7, <1>8, <1>9, <1>10, <1>11 DEF Server, App

\* Messages that are written into an entry: none of those that leave.
LEMMA WritesLeave ==
  ASSUME BoundsAssumption, Typed, NEW m \in Msgs, Leaves(m), NEW u, NEW s \in Seq(Msgs),
         Write(u, s), m \notin ToSet(s), ~InFlight(m)', row' = row,
         \A v \in Users, d \in drops : v # u /\ d.msg = m /\ WillDrop(d, v)
            => \E e \in drops' : e.msg = m /\ WillDrop(e, v)
  PROVE  Leaves(m)'
<1>1. \A v \in Users : m \in ToSet(Items(v)') => v # u /\ m \in ToSet(Items(v))
  BY Writes
<1>2. \A v \in Users : m \in ToSet(Items(v)') => \E e \in drops' : e.msg = m /\ WillDrop(e, v)
  BY <1>1 DEF Leaves
<1> QED BY <1>2 DEF Leaves, WillDrop

\* The steps of the cache.
LEMMA CacheDrops ==
  ASSUME BoundsAssumption, Typed, Dropping, Cache
  PROVE  Dropping'
<1>0. /\ fate \in [Msgs -> {"none", "alone", "raced"}] /\ \A d \in drops : d.msg \in Msgs
      /\ \A m \in Msgs : fate[m] = "alone" => Leaves(m)
      /\ ~NoJob.busy
  BY DEF Typed, TypeOK, Dropping, NoJob
<1>1. ASSUME UNCHANGED <<row, owed, fate, drops>>, \A m \in Msgs : Leaves(m) => Leaves(m)'
      PROVE  Dropping'
  BY <1>1 DEF Dropping
<1>2. CASE AppendRead
  <2> DEFINE q == Head(queue)
             s == Items(q.user)
  <2>1. q \in ToSet(queue) /\ ToSet(queue') \subseteq ToSet(queue)
    BY <1>2, FirstOfQueue DEF AppendRead
  <2>2. /\ job' = NoJob \/ job' = [busy |-> TRUE, user |-> q.user, msg |-> q.msg, items |-> s]
        /\ Raced(ToSet(job'.items))
        /\ UNCHANGED <<row, owed, loads, handlers, drops, store>>
    BY <1>2 DEF AppendRead, server
  <2> HIDE DEF q, s
  <2>3. job'.busy => job'.msg = q.msg
    BY <1>0, <2>2
  <2>4. \A m \in Msgs : fate'[m] = "alone" => fate[m] = "alone" /\ m \notin ToSet(job'.items)
    BY <2>2, RacedTypes
  <2>5. \A m \in Msgs : fate'[m] = "alone" => ~InFlight(m)'
    BY <1>0, <2>1, <2>2, <2>3, <2>4 DEF InFlight, Leaves
  <2>6. \A m \in Msgs : fate'[m] = "alone" => Leaves(m)'
    BY <1>0, <2>2, <2>4, <2>5 DEF Leaves, WillDrop, Items
  <2> QED BY <2>2, <2>6 DEF Dropping
<1>3. CASE AppendWrite
  <2>1. /\ Write(job.user, Append(job.items, job.msg)) /\ job' = NoJob /\ job.busy
        /\ UNCHANGED <<row, owed, loads, handlers, queue, drops, fate>>
    BY <1>3 DEF AppendWrite, server
  <2>2. /\ Append(job.items, job.msg) \in Seq(Msgs)
        /\ ToSet(Append(job.items, job.msg)) \subseteq ToSet(job.items) \cup {job.msg}
    BY AppendKeeps DEF Typed, TypeOK
  <2>3. \A m \in Msgs : ~InFlight(m) => ~InFlight(m)' /\ m \notin ToSet(job.items) \cup {job.msg}
    BY <1>0, <2>1 DEF InFlight
  <2>4. ASSUME NEW m \in Msgs, Leaves(m) PROVE Leaves(m)'
    <3>1. ~InFlight(m)' /\ m \notin ToSet(Append(job.items, job.msg))
      BY <2>2, <2>3, <2>4 DEF Leaves
    <3> QED BY <2>1, <2>2, <2>4, <3>1, WritesLeave
  <2> QED BY <1>1, <2>1, <2>4
<1>4. ASSUME NEW l \in loads, HistoryWrite(l) PROVE Dropping'
  <2>1. /\ Write(l.user, l.items) /\ loads' \subseteq loads /\ l.items \in Seq(Msgs)
        /\ UNCHANGED <<row, owed, handlers, queue, job, drops, fate>>
    BY <1>4 DEF HistoryWrite, server, Typed, TypeOK
  <2>2. \A m \in Msgs : ~InFlight(m) => ~InFlight(m)' /\ m \notin ToSet(l.items)
    BY <2>1 DEF InFlight
  <2>3. ASSUME NEW m \in Msgs, Leaves(m) PROVE Leaves(m)'
    <3>1. ~InFlight(m)' /\ m \notin ToSet(l.items)
      BY <2>2, <2>3 DEF Leaves
    <3> QED BY <2>1, <2>3, <3>1, WritesLeave
  <2> QED BY <1>1, <2>1, <2>3
<1>5. ASSUME NEW d \in drops, DropKeys(d) PROVE Dropping'
  <2>1. PICK x : /\ Turns(d, x) /\ x.at = "read" /\ x.items = d.items
                 /\ \A u \in Users : store[u] # Absent => u \in x.todo
    BY <1>5, KeysTurn
  <2>2. /\ fate' = [fate EXCEPT ![d.msg] = IF InFlight(d.msg) THEN "raced" ELSE "alone"]
        /\ UNCHANGED <<row, owed, loads, handlers, queue, job, store>>
    BY <1>5 DEF DropKeys, server
  <2>3. \A m \in Msgs : ~InFlight(m) => ~InFlight(m)'
    BY <2>1, <2>2 DEF InFlight, Turns
  <2>4. \A m \in Msgs : fate'[m] = "alone" => (m = d.msg /\ ~InFlight(m)) \/ Leaves(m)
    BY <1>0, <2>2
  <2>5. \A e \in drops' : row'[e.msg] = "gone"
    BY <2>1, <2>2 DEF Dropping, Turns
  <2>6. \A m \in Msgs, u \in Users : m \in ToSet(Items(u)) => WillDrop(x, u)
    BY <2>1, EmptyList DEF WillDrop, Items
  <2>7. ASSUME NEW m \in Msgs, fate'[m] = "alone" PROVE Leaves(m)'
    <3>1. row[m] = "gone" /\ ~InFlight(m)'
      BY <2>3, <2>4, <2>7 DEF Dropping, Leaves
    <3>2. ASSUME NEW u \in Users, m \in ToSet(Items(u))
          PROVE  \E e \in drops' : e.msg = m /\ WillDrop(e, u)
      <4>1. WillDrop(x, u)
        BY <2>6, <3>2
      <4>2. CASE m = d.msg
        BY <2>1, <4>1, <4>2 DEF Turns, WillDrop
      <4>3. CASE m # d.msg
        <5>1. PICK c \in drops : c.msg = m /\ WillDrop(c, u)
          BY <2>4, <2>7, <3>2, <4>3 DEF Leaves
        <5> QED BY <2>1, <4>1, <5>1, TurnsLeave
      <4> QED BY <4>2, <4>3
    <3> QED BY <2>2, <3>1, <3>2 DEF Leaves, Items, WillDrop
  <2> QED BY <2>2, <2>5, <2>7 DEF Dropping
<1>6. ASSUME NEW d \in drops, NEW u \in Users, DropRead(d, u) PROVE Dropping'
  <2>1. PICK x : /\ Turns(d, x) /\ x.todo = d.todo \ {u}
                 /\ \/ /\ d.msg \in ToSet(Items(u)) /\ x.at = "write" /\ x.user = u
                       /\ x.items = Items(u)
                    \/ d.msg \notin ToSet(Items(u)) /\ x.at = "read" /\ x.items = d.items
    BY <1>6, ReadTurns
  <2>2. /\ UNCHANGED <<row, owed, loads, handlers, queue, job, store>>
        /\ IF d.msg \in ToSet(Items(u)) THEN Raced(ToSet(Items(u)) \ {d.msg}) ELSE fate' = fate
        /\ d.at = "read"
    BY <1>6 DEF DropRead, server
  <2>3. \A m \in Msgs : fate'[m] = "alone" =>
          /\ fate[m] = "alone"
          /\ d.msg \in ToSet(Items(u)) /\ m # d.msg => m \notin ToSet(Items(u))
    BY <2>2, RacedTypes
  <2>4. ASSUME NEW m \in Msgs, fate'[m] = "alone" PROVE ~InFlight(m)'
    <3>1. ~InFlight(m)
      BY <1>0, <2>3, <2>4 DEF Leaves
    <3>2. \A c \in drops' : c.msg # m => m \notin ToSet(c.items)
      BY <2>1, <2>3, <2>4, <3>1 DEF InFlight, Turns
    <3> QED BY <2>2, <3>1, <3>2 DEF InFlight
  <2>5. \A e \in drops' : row'[e.msg] = "gone"
    BY <2>1, <2>2 DEF Dropping, Turns
  <2>6. ASSUME NEW m \in Msgs, fate'[m] = "alone" PROVE Leaves(m)'
    <3>1. row[m] = "gone" /\ ~InFlight(m)' /\ Leaves(m)
      BY <1>0, <2>3, <2>4, <2>6 DEF Leaves
    <3>2. ASSUME NEW v \in Users, m \in ToSet(Items(v))
          PROVE  \E e \in drops' : e.msg = m /\ WillDrop(e, v)
      <4>1. PICK c \in drops : c.msg = m /\ WillDrop(c, v)
        BY <3>1, <3>2 DEF Leaves
      <4>2. c = d => WillDrop(x, v)
        BY <2>1, <2>2, <3>2, <4>1 DEF WillDrop
      <4> QED BY <2>1, <4>1, <4>2, TurnsLeave
    <3> QED BY <2>2, <3>1, <3>2 DEF Leaves, Items, WillDrop
  <2> QED BY <2>2, <2>5, <2>6 DEF Dropping
<1>7. ASSUME NEW d \in drops, DropWrite(d) PROVE Dropping'
  <2> DEFINE s == Only(d.items, Msgs \ {d.msg})
  <2>1. PICK x : Turns(d, x) /\ x.at = "read" /\ x.items = <<>> /\ x.todo = d.todo
    BY <1>7, WriteTurns
  <2>2. /\ Write(d.user, s) /\ d.at = "write"
        /\ UNCHANGED <<row, owed, loads, handlers, queue, job, fate>>
    BY <1>7 DEF DropWrite, server
  <2>3. s \in Seq(Msgs) /\ ToSet(s) \subseteq ToSet(d.items) \cap (Msgs \ {d.msg})
    BY OnlyKeeps DEF Typed, TypeOK
  <2> HIDE DEF s
  <2>4. \A m \in Msgs : ~InFlight(m) => ~InFlight(m)' /\ m \notin ToSet(s)
    BY <2>1, <2>2, <2>3, EmptyList DEF InFlight, Turns
  <2>5. \A e \in drops' : row'[e.msg] = "gone"
    BY <2>1, <2>2 DEF Dropping, Turns
  <2>6. ASSUME NEW m \in Msgs, Leaves(m) PROVE Leaves(m)'
    <3>1. ~InFlight(m)' /\ m \notin ToSet(s)
      BY <2>4, <2>6 DEF Leaves
    <3>2. ASSUME NEW v \in Users, NEW c \in drops, v # d.user, c.msg = m, WillDrop(c, v)
          PROVE  \E e \in drops' : e.msg = m /\ WillDrop(e, v)
      <4>1. c = d => WillDrop(x, v)
        BY <2>1, <2>2, <3>2 DEF WillDrop
      <4> QED BY <2>1, <3>2, <4>1, TurnsLeave
    <3> QED BY <2>2, <2>3, <2>6, <3>1, <3>2, WritesLeave
  <2> QED BY <1>0, <2>2, <2>5, <2>6 DEF Dropping
<1>8. CASE Clear
  <2>1. /\ UNCHANGED <<row, owed, loads, handlers, queue, job, drops, fate>>
        /\ \A v \in Users : store'[v] = Absent
    BY <1>8 DEF Clear, server, tasks
  <2>2. \A v \in Users : ToSet(Items(v)') = {}
    BY <2>1, EmptyList DEF Items
  <2>3. \A m \in Msgs : ~InFlight(m) => ~InFlight(m)'
    BY <2>1 DEF InFlight
  <2>4. \A m \in Msgs : Leaves(m) => Leaves(m)'
    BY <2>1, <2>2, <2>3 DEF Leaves
  <2> QED BY <1>1, <2>1, <2>4
<1>9. CASE ClearFails
  <2>1. UNCHANGED <<row, owed, loads, handlers, queue, job, drops, store, fate>>
    BY <1>9 DEF ClearFails, server, tasks
  <2> QED BY <2>1 DEF Dropping, Leaves, WillDrop, InFlight, Items
<1> QED BY <1>2, <1>3, <1>4, <1>5, <1>6, <1>7, <1>8, <1>9 DEF Cache

\* messageCache.ts: for any users, messages and sizes, what was deleted and whose
\* drop met no other task is in no entry once the drop is over, and in no task that
\* could write it there.
THEOREM DroppedIsGone == Spec => []DroppedAloneIsGone
<1> DEFINE Inv == Typed /\ Dropping
<1>1. Init => Inv
  <2>1. Init => Dropping
    BY DEF Init, Dropping
  <2> QED BY <2>1, InitTyped, BoundsAssumption
<1>2. Inv /\ [Next]_vars => Inv'
  <2> SUFFICES ASSUME Typed, Dropping, [Next]_vars PROVE Dropping'
    BY TypesHold, BoundsAssumption
  <2>1. CASE UNCHANGED vars
    BY <2>1 DEF vars, server, tasks, Dropping, Leaves, WillDrop, InFlight, Items
  <2> QED BY <2>1, AppDrops, CacheDrops, BoundsAssumption DEF Next
<1>3. Inv => DroppedAloneIsGone
  BY DEF Dropping, Leaves, DroppedAloneIsGone
<1> QED BY <1>1, <1>2, <1>3, PTL DEF Spec

==============================================================================
