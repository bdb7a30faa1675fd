---------------------------- MODULE ClientProofs ----------------------------
(***************************************************************************)
(* Proofs about the parts of the client as MCClient puts them side by      *)
(* side, for any sets and bounds, each unless one of the excuses its       *)
(* module names has happened.  The devices work with one pair; threads and *)
(* marks end as the server has them, in whatever order the answers come; a *)
(* list shows the newest that arrived, the feed its posts in order, the    *)
(* grid its album; the index of the media cache accounts for the files;    *)
(* quote, menu and microphone are of the chat on the screen; and, by       *)
(* ConversationProofs, a conversation ends whole.                          *)
(***************************************************************************)
EXTENDS MCClient, Integers, FiniteSetTheorems, SequenceTheorems, TLAPS

\* The bounds are numbers, and there is a first day and a full page.
LEMMA BoundsAreNumbers ==
  /\ DataDays \in Nat \ {0} /\ MediaDays \in Nat \ {0}
  /\ Cap \in Nat /\ PostsPage \in Nat \ {0}
  /\ MaxVersion \in Nat /\ MaxPresses \in Nat /\ MaxPosts \in Nat
  BY PartsAssumption, Zenon DEF Data!BoundsAssumption, Media!BoundsAssumption,
     Field!ComposerAssumption, Posts!BoundsAssumption

------------------------------------------------------------------------------
(* The pairs: types.                                                       *)

\* The halves of a pair are stored by number.
LEMMA PairHalfTypes ==
  ASSUME Pairs!MaxPairsAssumption
  PROVE  /\ 0 \in Pairs!Half /\ Pairs!Pair \subseteq Pairs!Half
              /\ Pairs!NoPair \in Pairs!Halves
         /\ \A n \in Pairs!Half : Pairs!Both(n) \in Pairs!Halves
         /\ \A d \in X : Pairs!Idle(d) \in Pairs!Task
  BY DEF Pairs!MaxPairsAssumption, Pairs!Half, Pairs!Pair, Pairs!NoPair, Pairs!Halves,
     Pairs!Both, Pairs!Idle, Pairs!Task, Pairs!Pc

\* Nothing is stored anywhere at the start.
LEMMA PairInitType == ASSUME Pairs!MaxPairsAssumption, Pairs!Init PROVE Pairs!TypeOK
  BY PairHalfTypes DEF Pairs!Init, Pairs!TypeOK

\* A task that goes on is a task.
LEMMA PairGotoType ==
  ASSUME Pairs!TypeOK, NEW t \in Y, NEW pc \in Pairs!Pc, Pairs!Goto(t, pc)
  PROVE  v6' \in [Y -> Pairs!Task]
  BY DEF Pairs!TypeOK, Pairs!Goto, Pairs!Task

\* A task that goes on with a pair is a task.
LEMMA PairWithType ==
  ASSUME Pairs!TypeOK, NEW t \in Y, NEW pc \in Pairs!Pc, NEW kp \in Pairs!Halves,
         Pairs!With(t, pc, kp)
  PROVE  v6' \in [Y -> Pairs!Task]
  BY DEF Pairs!TypeOK, Pairs!With, Pairs!Task

\* A task that is over is idle on its device.
LEMMA PairOverType ==
  ASSUME Pairs!MaxPairsAssumption, Pairs!TypeOK, NEW t \in Y, Pairs!Over(t)
  PROVE  v6' \in [Y -> Pairs!Task]
<1>1. v6[t].dev \in X
  BY DEF Pairs!TypeOK, Pairs!Task
<1> QED BY <1>1, PairHalfTypes DEF Pairs!TypeOK, Pairs!Over

\* A new pair is one of the pairs.
LEMMA PairGenerateType ==
  ASSUME Pairs!MaxPairsAssumption, Pairs!TypeOK, NEW t \in Y, Pairs!Generate(t)
  PROVE  v6' \in [Y -> Pairs!Task] /\ v7' \in Pairs!Half
<1>1. v7 + 1 \in Pairs!Half /\ Pairs!Both(v7 + 1) \in Pairs!Halves /\ v7' = v7 + 1
  BY PairHalfTypes DEF Pairs!Generate
<1>2. Pairs!With(t, "store", Pairs!Both(v7 + 1))
  BY DEF Pairs!Generate
<1> QED BY <1>1, <1>2, PairWithType DEF Pairs!Pc

\* The steps of a set-up, the failing ones included, keep the types.
LEMMA PairStepType ==
  ASSUME Pairs!MaxPairsAssumption, Pairs!TypeOK, NEW t \in Y,
         Pairs!Step(t) \/ Pairs!Fails(t)
  PROVE  Pairs!TypeOK'
<1>0. /\ v6[t].dev \in X /\ v6[t].kp \in Pairs!Halves
      /\ v6[t].kp.priv \in Pairs!Half /\ v6[t].kp.publ \in Pairs!Half
      /\ v3[v6[t].dev] \in Pairs!Half /\ v4[v6[t].dev] \in Pairs!Half /\ 0 \in Pairs!Half
      /\ "loaded" \in Pairs!Pc /\ "fetch" \in Pairs!Pc /\ "restore" \in Pairs!Pc
           /\ "restored" \in Pairs!Pc
      /\ "stored" \in Pairs!Pc /\ "publish" \in Pairs!Pc /\ "save" \in Pairs!Pc
  BY PairHalfTypes DEF Pairs!TypeOK, Pairs!Task, Pairs!Halves, Pairs!Pc
<1>1. CASE Pairs!LoadPrivate(t)
  <2>1. [priv |-> v3[v6[t].dev], publ |-> 0] \in Pairs!Halves
    BY <1>0 DEF Pairs!Halves
  <2> QED BY <1>0, <1>1, <2>1, PairWithType DEF Pairs!LoadPrivate, Pairs!TypeOK
<1>2. CASE Pairs!LoadPublic(t)
  <2> DEFINE kp == [v6[t].kp EXCEPT !.publ = v4[v6[t].dev]]
  <2>1. kp \in Pairs!Halves
    BY <1>0 DEF Pairs!Halves
  <2>2. UNCHANGED <<v1, v2, v3, v4, v7, v8>>
    BY <1>2 DEF Pairs!LoadPublic
  <2>3. CASE Pairs!Complete(kp)
    <3>1. v5' = [v5 EXCEPT ![v6[t].dev] = kp] /\ Pairs!Over(t)
      BY <1>2, <2>3 DEF Pairs!LoadPublic
    <3> HIDE DEF kp
    <3> QED BY <1>0, <2>1, <2>2, <3>1, PairOverType DEF Pairs!TypeOK
  <2>4. CASE ~Pairs!Complete(kp)
    <3>1. v5' = v5 /\ (Pairs!With(t, "fetch", Pairs!NoPair) \/ Pairs!Over(t))
      BY <1>2, <2>4 DEF Pairs!LoadPublic
    <3> QED BY <1>0, <2>2, <3>1, PairOverType, PairWithType, PairHalfTypes DEF Pairs!TypeOK
  <2> QED BY <2>3, <2>4
<1>3. CASE Pairs!FetchBackup(t)
  <2>1. UNCHANGED <<v1, v2, v3, v4, v5, v8>>
    BY <1>3 DEF Pairs!FetchBackup
  <2>2. v6' \in [Y -> Pairs!Task] /\ v7' \in Pairs!Half
    <3>1. CASE Pairs!With(t, "restore", Pairs!Both(v2)) /\ UNCHANGED v7
      BY <1>0, <3>1, PairWithType, PairHalfTypes DEF Pairs!TypeOK
    <3>2. CASE Pairs!Generate(t)
      BY <3>2, PairGenerateType
    <3> QED BY <1>3, <3>1, <3>2 DEF Pairs!FetchBackup
  <2> QED BY <2>1, <2>2 DEF Pairs!TypeOK
<1>4. CASE Pairs!StorePrivate(t)
  <2>1. v6' \in [Y -> Pairs!Task]
    <3>1. Pairs!Goto(t, "restored") \/ Pairs!Goto(t, "stored")
      BY <1>4 DEF Pairs!StorePrivate
    <3> QED BY <1>0, <3>1, PairGotoType
  <2> QED BY <1>0, <1>4, <2>1 DEF Pairs!StorePrivate, Pairs!TypeOK
<1>5. CASE Pairs!StorePublic(t)
  <2>1. v6' \in [Y -> Pairs!Task]
    <3>1. Pairs!Over(t) \/ Pairs!Goto(t, "publish")
      BY <1>5 DEF Pairs!StorePublic
    <3> QED BY <1>0, <3>1, PairGotoType, PairOverType
  <2> QED BY <1>0, <1>5, <2>1 DEF Pairs!StorePublic, Pairs!TypeOK
<1>6. CASE Pairs!Publish(t) \/ Pairs!PublishFails(t)
  BY <1>0, <1>6, PairGotoType DEF Pairs!Publish, Pairs!PublishFails, Pairs!TypeOK
<1>7. CASE Pairs!SaveBackup(t) \/ Pairs!SaveFails(t)
  BY <1>0, <1>7, PairOverType DEF Pairs!SaveBackup, Pairs!SaveFails, Pairs!TypeOK
<1>8. CASE Pairs!FetchFails(t)
  BY <1>8, PairGenerateType DEF Pairs!FetchFails, Pairs!TypeOK
<1>9. CASE Pairs!StoreFails(t)
  BY <1>9, PairOverType DEF Pairs!StoreFails, Pairs!TypeOK
<1> QED BY <1>1, <1>2, <1>3, <1>4, <1>5, <1>6, <1>7, <1>8, <1>9 DEF Pairs!Step, Pairs!Fails

\* The beginning of a set-up keeps the types.
LEMMA PairBeginType ==
  ASSUME Pairs!MaxPairsAssumption, Pairs!TypeOK, NEW t \in Y, NEW d \in X,
         NEW p \in BOOLEAN, NEW n \in BOOLEAN, Pairs!Begin(t, d, p, n)
  PROVE  Pairs!TypeOK'
<1>1. v7' \in Pairs!Half /\ UNCHANGED <<v1, v2, v3, v4, v5>> /\ v8' \in BOOLEAN
  BY DEF Pairs!Begin, Pairs!TypeOK
<1>2. (IF n THEN Pairs!Both(1) ELSE Pairs!NoPair) \in Pairs!Halves
  BY <1>1, PairHalfTypes DEF Pairs!Begin
<1> DEFINE x == [pc |-> IF n THEN "store" ELSE "load", dev |-> d, password |-> p,
                 kp |-> IF n THEN Pairs!Both(1) ELSE Pairs!NoPair]
<1>3. x \in Pairs!Task
  BY <1>2 DEF Pairs!Task, Pairs!Pc
<1>4. v6' = [v6 EXCEPT ![t] = x]
  BY DEF Pairs!Begin
<1> HIDE DEF x
<1> QED BY <1>1, <1>3, <1>4 DEF Pairs!TypeOK

\* A restart of the app keeps the types.
LEMMA PairRestartType ==
  ASSUME Pairs!MaxPairsAssumption, Pairs!TypeOK, NEW d \in X, Pairs!Restart(d)
  PROVE  Pairs!TypeOK'
  BY PairHalfTypes DEF Pairs!Restart, Pairs!TypeOK

\* Every step keeps the types.
LEMMA PairNextType == Pairs!MaxPairsAssumption /\ Pairs!TypeOK
     /\ [Pairs!Next]_(Pairs!vars) => Pairs!TypeOK'
<1> SUFFICES ASSUME Pairs!MaxPairsAssumption, Pairs!TypeOK, [Pairs!Next]_(Pairs!vars)
             PROVE  Pairs!TypeOK'
  OBVIOUS
<1>1. CASE UNCHANGED Pairs!vars
  BY <1>1 DEF Pairs!vars, Pairs!TypeOK
<1> QED BY <1>1, PairBeginType, PairStepType, PairRestartType DEF Pairs!Next

------------------------------------------------------------------------------
(* The pairs: the inductive invariant.                                     *)

Active(t) == v6[t].pc # "idle"

\* A device no set-up works on has the server's pair or none.
Clean(d) == /\ v3[d] = v4[d] /\ v3[d] \in {0, v1}
            /\ v5[d] \in {Pairs!NoPair, Pairs!Both(v1)}

\* Between two set-ups the server has all of one pair, or there is none.
Calm == v2 = v1 /\ (v1 = 0 <=> v7 = 0)

\* How far a set-up has come: the device and the server it finds or leaves.
Finds(pc, d, kp) ==
  /\ pc \in {"load", "loaded", "fetch", "restore", "restored"} => Calm
  /\ pc \in {"load", "loaded", "fetch", "restore", "store"} => Clean(d)
  /\ pc = "loaded" => kp.priv = v3[d]
  /\ pc \in {"restore", "restored"} => kp = Pairs!Both(v1) /\ v1 # 0
  /\ pc = "restored" => /\ v3[d] = v1 /\ v4[d] \in {0, v1}
                        /\ v5[d] \in {Pairs!NoPair, Pairs!Both(v1)}

Leaves(pc, d, kp) ==
  /\ pc \in {"store", "stored", "publish"} =>
       v1 = 0 /\ v2 = 0 /\ v7 # 0 /\ kp.priv # 0 /\ kp = Pairs!Both(kp.priv)
  /\ pc = "stored" => v3[d] = kp.priv /\ v4[d] = 0 /\ v5[d] = Pairs!NoPair
  /\ pc = "publish" => v3[d] = kp.priv /\ v4[d] = kp.publ /\ v5[d] = kp
  /\ pc = "save" => /\ v1 # 0 /\ v7 # 0 /\ kp = Pairs!Both(v1) /\ v2 = 0
                    /\ v3[d] = v1 /\ v4[d] = v1 /\ v5[d] = kp
                    /\ \A e \in X \ {d} : v5[e] = Pairs!NoPair

At(t) == /\ Finds(v6[t].pc, v6[t].dev, v6[t].kp)
         /\ Leaves(v6[t].pc, v6[t].dev, v6[t].kp)

Untripped ==
  ~v8 =>
    /\ \A t, u \in Y : Active(t) /\ Active(u) => t = u
    /\ \A d \in X : Pairs!Running(d) = {} => Clean(d)
    /\ (\A t \in Y : ~Active(t)) => Calm
    /\ \A t \in Y : At(t)

PairsHold == Pairs!TypeOK /\ Untripped

\* A set-up that does not run asks nothing of its device.
LEMMA PairIdleFinds == \A d \in X : \A kp : Finds("idle", d, kp) /\ Leaves("idle", d, kp)
  BY DEF Finds, Leaves

\* A step of the one set-up that runs: it is over and everything is calm, or it
\* has come to its next place, and the other devices are as they were.
LEMMA PairAloneKeeps ==
  ASSUME PairsHold, ~v8, NEW t \in Y, Active(t), v8' = v8,
         NEW x \in Pairs!Task, v6' = [v6 EXCEPT ![t] = x], x.dev = v6[t].dev,
         \A e \in X : e # x.dev /\ Clean(e) => Clean(e)',
         x.pc = "idle" => Clean(x.dev)' /\ Calm',
         x.pc # "idle" => Finds(x.pc, x.dev, x.kp)' /\ Leaves(x.pc, x.dev, x.kp)'
  PROVE  Untripped'
<1>1. \A u \in Y \ {t} : v6[u].pc = "idle" /\ v6'[u] = v6[u]
  BY DEF PairsHold, Untripped, Active, Pairs!TypeOK
<1>2. v6'[t] = x /\ x.dev \in X
  BY DEF PairsHold, Pairs!TypeOK, Pairs!Task
<1>3. \A u, w \in Y : Active(u)' /\ Active(w)' => u = w
  BY <1>1, <1>2 DEF Active
<1>4. ASSUME NEW e \in X, Pairs!Running(e)' = {} PROVE Clean(e)'
  <2>1. CASE e = x.dev
    <3>1. x.pc = "idle"
      BY <1>2, <1>4, <2>1 DEF Pairs!Running
    <3> QED BY <2>1, <3>1
  <2>2. CASE e # x.dev
    <3>1. Pairs!Running(e) = {}
      BY <1>1, <2>2 DEF Pairs!Running
    <3> QED BY <2>2, <3>1 DEF PairsHold, Untripped
  <2> QED BY <2>1, <2>2
<1>5. (\A u \in Y : ~Active(u)') => Calm'
  BY <1>2 DEF Active
<1>6. ASSUME NEW u \in Y PROVE At(u)'
  <2>1. CASE u = t /\ x.pc # "idle"
    BY <1>2, <2>1 DEF At, Finds, Leaves, Calm, Clean
  <2>2. CASE u # t \/ x.pc = "idle"
    BY <1>1, <1>2, <2>2 DEF At, Finds, Leaves
  <2> QED BY <2>1, <2>2
<1> QED BY <1>3, <1>4, <1>5, <1>6 DEF Untripped, Pairs!Running

\* The steps of the one set-up that runs, while nothing fails.
LEMMA PairStepKeeps ==
  ASSUME Pairs!MaxPairsAssumption, PairsHold, ~v8, NEW t \in Y, Pairs!Step(t)
  PROVE  Untripped'
<1>a. PICK c \in Pairs!Task : v6[t] = c
  BY DEF PairsHold, Pairs!TypeOK
<1> DEFINE d == c.dev
           kp == c.kp
           Next1(pc, k) == [c EXCEPT !.pc = pc, !.kp = k]
<1>0. /\ d \in X /\ kp \in Pairs!Halves /\ Pairs!TypeOK
      /\ v3[d] \in Pairs!Half /\ v4[d] \in Pairs!Half /\ v1 \in Pairs!Half
           /\ v2 \in Pairs!Half /\ v7 \in Pairs!Half
      /\ v3 \in [X -> Pairs!Half] /\ v4 \in [X -> Pairs!Half] /\ v5 \in [X -> Pairs!Halves]
      /\ Finds(c.pc, d, kp) /\ Leaves(c.pc, d, kp)
  BY <1>a DEF PairsHold, Pairs!TypeOK, Pairs!Task, Untripped, At
<1>1. Active(t) /\ v8' = v8
  BY DEF Pairs!Step, Pairs!LoadPrivate, Pairs!LoadPublic, Pairs!FetchBackup,
     Pairs!StorePrivate, Pairs!StorePublic, Pairs!Publish,
         Pairs!SaveBackup, Active
<1>2. \A pc \in Pairs!Pc, k \in Pairs!Halves :
        /\ Next1(pc, k) \in Pairs!Task /\ Next1(pc, k).pc = pc /\ Next1(pc, k).dev = d
        /\ Next1(pc, k).kp = k
  BY DEF Pairs!Task
<1>3. Pairs!Idle(d) \in Pairs!Task /\ Pairs!Idle(d).pc = "idle" /\ Pairs!Idle(d).dev = d
  BY <1>0, PairHalfTypes DEF Pairs!Idle
<1>4. /\ {"loaded", "fetch", "restore", "restored"} \subseteq Pairs!Pc
      /\ {"store", "stored", "publish", "save"} \subseteq Pairs!Pc
      /\ \A n \in Pairs!Half : Pairs!Both(n) \in Pairs!Halves /\ Pairs!Both(n).priv = n
           /\ Pairs!Both(n).publ = n
      /\ Pairs!NoPair \in Pairs!Halves /\ Pairs!NoPair = Pairs!Both(0) /\ 0 \in Pairs!Half
      /\ \A k \in Pairs!Halves : k.priv \in Pairs!Half /\ k.publ \in Pairs!Half
      /\ \A k \in Pairs!Halves : k = [priv |-> k.priv, publ |-> k.publ]
  BY PairHalfTypes DEF Pairs!Pc, Pairs!Both, Pairs!NoPair, Pairs!Halves
<1>5. \A pc \in Pairs!Pc : Pairs!Goto(t, pc) => v6' = [v6 EXCEPT ![t] = Next1(pc, kp)]
  BY <1>a DEF Pairs!Goto, Pairs!Task, PairsHold, Pairs!TypeOK
<1>6. \A pc \in Pairs!Pc, k \in Pairs!Halves : Pairs!With(t, pc, k)
     => v6' = [v6 EXCEPT ![t] = Next1(pc, k)]
  BY <1>a DEF Pairs!With, Pairs!Task, PairsHold, Pairs!TypeOK
<1>7. Pairs!Over(t) => v6' = [v6 EXCEPT ![t] = Pairs!Idle(d)]
  BY <1>a DEF Pairs!Over
<1> HIDE DEF Next1
\* Where the set-up has come to, and where it is over.
<1>8. ASSUME NEW pc \in Pairs!Pc \ {"idle"}, NEW k \in Pairs!Halves,
             v6' = [v6 EXCEPT ![t] = Next1(pc, k)],
             \A e \in X : e # d /\ Clean(e) => Clean(e)',
             Finds(pc, d, k)', Leaves(pc, d, k)'
      PROVE  Untripped'
  <2> DEFINE x == Next1(pc, k)
  <2>1. x \in Pairs!Task /\ x.dev = d /\ x.kp = k /\ x.pc = pc /\ x.dev = v6[t].dev
    BY <1>2, <1>a
  <2>2. v6' = [v6 EXCEPT ![t] = x]
    BY <1>8
  <2> HIDE DEF x
  <2>3. \A e \in X : e # x.dev /\ Clean(e) => Clean(e)'
    BY <1>8, <2>1
  <2>4. Finds(x.pc, x.dev, x.kp)' /\ Leaves(x.pc, x.dev, x.kp)'
    BY <1>8, <2>1
  <2> QED BY <1>1, <2>1, <2>2, <2>3, <2>4, PairAloneKeeps
<1>9. ASSUME Pairs!Over(t), \A e \in X : e # d /\ Clean(e) => Clean(e)', Clean(d)', Calm'
      PROVE  Untripped'
  <2> DEFINE x == Pairs!Idle(d)
  <2>1. x \in Pairs!Task /\ x.dev = d /\ x.pc = "idle" /\ x.dev = v6[t].dev
    BY <1>3, <1>a
  <2>2. v6' = [v6 EXCEPT ![t] = x]
    BY <1>7, <1>9
  <2> HIDE DEF x
  <2>3. Clean(x.dev)' /\ \A e \in X : e # x.dev /\ Clean(e) => Clean(e)'
    BY <1>9, <2>1
  <2> QED BY <1>1, <1>9, <2>1, <2>2, <2>3, PairAloneKeeps
<1>l. CASE Pairs!LoadPrivate(t)
  <2>1. PICK v \in Pairs!Half : v3[d] = v
    BY <1>0
  <2> DEFINE k == [priv |-> v, publ |-> 0]
  <2>2. c.pc = "load" /\ Pairs!With(t, "loaded", k) /\ UNCHANGED <<v1, v2, v3, v4, v5, v7>>
    BY <1>a, <1>l, <2>1 DEF Pairs!LoadPrivate
  <2>3. k \in Pairs!Halves /\ k.priv = v3[d]
    BY <1>4, <2>1 DEF Pairs!Halves
  <2> HIDE DEF k
  <2>4. Finds("loaded", d, k)' /\ Leaves("loaded", d, k)'
    BY <1>0, <2>2, <2>3 DEF Finds, Leaves, Calm, Clean
  <2>5. \A e \in X : e # d /\ Clean(e) => Clean(e)'
    BY <2>2 DEF Clean
  <2> QED BY <1>4, <1>6, <1>8, <2>2, <2>3, <2>4, <2>5
<1>m. CASE Pairs!LoadPublic(t)
  <2>1. PICK v \in Pairs!Half : v4[d] = v
    BY <1>0
  <2> DEFINE k == [kp EXCEPT !.publ = v]
  <2>2. /\ c.pc = "loaded" /\ UNCHANGED <<v1, v2, v3, v4, v7>>
        /\ IF Pairs!Complete(k)
             THEN v5' = [v5 EXCEPT ![d] = k] /\ Pairs!Over(t)
             ELSE /\ UNCHANGED v5
                  /\ IF c.password THEN Pairs!With(t, "fetch", Pairs!NoPair) ELSE Pairs!Over(t)
    BY <1>a, <1>m, <2>1 DEF Pairs!LoadPublic
  <2>3. k \in Pairs!Halves /\ k.publ = v4[d] /\ k.priv = kp.priv
    BY <1>0, <2>1 DEF Pairs!Halves
  <2>4. Calm' /\ v3[d] = v4[d] /\ v4[d] \in {0, v1} /\ k.priv = v3[d] /\ Clean(d)
    BY <1>0, <2>2, <2>3 DEF Finds, Calm, Clean
  <2> HIDE DEF k
  <2>5. CASE Pairs!Complete(k)
    <3>1. k = Pairs!Both(v1)
      BY <1>4, <2>3, <2>4, <2>5 DEF Pairs!Complete, Pairs!Both
    <3>2. v5' = [v5 EXCEPT ![d] = k] /\ Pairs!Over(t)
      BY <2>2, <2>5
    <3>3. Clean(d)'
      BY <1>0, <2>2, <2>4, <3>1, <3>2 DEF Clean
    <3>4. \A e \in X : e # d /\ Clean(e) => Clean(e)'
      BY <1>0, <2>2, <3>2 DEF Clean
    <3> QED BY <1>9, <2>4, <3>2, <3>3, <3>4
  <2>6. CASE ~Pairs!Complete(k)
    <3>1. UNCHANGED <<v1, v2, v3, v4, v7, v5>>
         /\ (Pairs!With(t, "fetch", Pairs!NoPair) \/ Pairs!Over(t))
      BY <2>2, <2>6
    <3>2. \A e \in X : Clean(e) => Clean(e)'
      BY <3>1 DEF Clean
    <3>3. Finds("fetch", d, Pairs!NoPair)' /\ Leaves("fetch", d, Pairs!NoPair)'
      BY <1>0, <2>4, <3>2 DEF Finds, Leaves
    <3> QED BY <1>0, <1>4, <1>6, <1>8, <1>9, <2>4, <3>1, <3>2, <3>3
  <2> QED BY <2>5, <2>6
<1>f. CASE Pairs!FetchBackup(t)
  <2>1. c.pc = "fetch" /\ UNCHANGED <<v1, v2, v3, v4, v5>>
    BY <1>a, <1>f DEF Pairs!FetchBackup
  <2>2. /\ \A e \in X : Clean(e) => Clean(e)'
        /\ Calm /\ Clean(d)
    BY <1>0, <2>1 DEF Clean, Finds
  <2>3. PICK b \in Pairs!Half : b = v2
    BY <1>0
  <2>4. CASE b # 0
    <3>1. Pairs!With(t, "restore", Pairs!Both(b)) /\ UNCHANGED v7
      BY <1>f, <2>3, <2>4 DEF Pairs!FetchBackup
    <3>2. Finds("restore", d, Pairs!Both(b))' /\ Leaves("restore", d, Pairs!Both(b))'
      BY <1>0, <2>1, <2>2, <2>3, <2>4, <3>1 DEF Finds, Leaves, Calm
    <3> QED BY <1>4, <1>6, <1>8, <2>2, <3>1, <3>2
  <2>5. CASE b = 0
    <3>1. PICK n \in Pairs!Pair : n = v7 + 1 /\ v7' = n
         /\ Pairs!With(t, "store", Pairs!Both(n))
      BY <1>f, <2>3, <2>5 DEF Pairs!FetchBackup, Pairs!Generate
    <3>2. n # 0 /\ n \in Pairs!Half /\ v1 = 0 /\ v2 = 0
      BY <2>2, <2>3, <2>5, <3>1, PairHalfTypes DEF Pairs!Pair, Calm
    <3>3. Finds("store", d, Pairs!Both(n))' /\ Leaves("store", d, Pairs!Both(n))'
      BY <1>0, <1>4, <2>1, <2>2, <3>1, <3>2 DEF Finds, Leaves
    <3> QED BY <1>4, <1>6, <1>8, <2>2, <3>1, <3>2, <3>3
  <2> QED BY <2>4, <2>5
<1>s. CASE Pairs!StorePrivate(t)
  <2>1. PICK pc \in {"restored", "stored"} :
          /\ Pairs!Goto(t, pc) /\ (pc = "restored" => c.pc = "restore")
               /\ (pc = "stored" => c.pc = "store")
    BY <1>a, <1>s DEF Pairs!StorePrivate
  <2>2. v3' = [v3 EXCEPT ![d] = kp.priv] /\ UNCHANGED <<v1, v2, v4, v5, v7>>
    BY <1>a, <1>s DEF Pairs!StorePrivate
  <2>3. \A e \in X : e # d /\ Clean(e) => Clean(e)'
    BY <1>0, <2>2 DEF Clean
  <2>4. Clean(d) /\ v3'[d] = kp.priv
    BY <1>0, <2>1, <2>2 DEF Finds
  <2>5. CASE pc = "restored"
    <3>1. kp = Pairs!Both(v1) /\ v1 # 0 /\ kp.priv = v1 /\ Calm
      BY <1>0, <1>4, <2>1, <2>5 DEF Finds
    <3>2. Finds("restored", d, kp)' /\ Leaves("restored", d, kp)'
      BY <2>2, <2>4, <3>1 DEF Finds, Leaves, Calm, Clean
    <3> QED BY <1>0, <1>4, <1>5, <1>8, <2>1, <2>3, <2>5, <3>2
  <2>6. CASE pc = "stored"
    <3>1. v1 = 0 /\ v2 = 0 /\ v7 # 0 /\ kp.priv # 0 /\ kp = Pairs!Both(kp.priv)
      BY <1>0, <2>1, <2>6 DEF Leaves
    <3>2. v4[d] = 0 /\ v5[d] = Pairs!NoPair
      BY <1>4, <2>4, <3>1 DEF Clean
    <3>3. Finds("stored", d, kp)' /\ Leaves("stored", d, kp)'
      BY <2>2, <2>4, <3>1, <3>2 DEF Finds, Leaves
    <3> QED BY <1>0, <1>4, <1>5, <1>8, <2>1, <2>3, <2>6, <3>3
  <2> QED BY <2>1, <2>5, <2>6
<1>t. CASE Pairs!StorePublic(t)
  <2>1. /\ v4' = [v4 EXCEPT ![d] = kp.publ] /\ v5' = [v5 EXCEPT ![d] = kp]
        /\ UNCHANGED <<v1, v2, v3, v7>>
        /\ \/ c.pc = "restored" /\ Pairs!Over(t)
           \/ c.pc = "stored" /\ Pairs!Goto(t, "publish")
    BY <1>a, <1>t DEF Pairs!StorePublic
  <2>2. \A e \in X : e # d /\ Clean(e) => Clean(e)'
    BY <1>0, <2>1 DEF Clean
  <2>3. v4'[d] = kp.publ /\ v5'[d] = kp
    BY <1>0, <2>1
  <2>4. CASE c.pc = "restored" /\ Pairs!Over(t)
    <3>1. kp = Pairs!Both(v1) /\ kp.publ = v1 /\ v3[d] = v1 /\ Calm
      BY <1>0, <1>4, <2>4 DEF Finds
    <3>2. Clean(d)' /\ Calm'
      BY <2>1, <2>3, <3>1 DEF Clean, Calm
    <3> QED BY <1>9, <2>2, <2>4, <3>2
  <2>5. CASE c.pc = "stored" /\ Pairs!Goto(t, "publish")
    <3>1. Finds("publish", d, kp)' /\ Leaves("publish", d, kp)'
      BY <1>0, <2>1, <2>3, <2>5 DEF Finds, Leaves
    <3> QED BY <1>0, <1>4, <1>5, <1>8, <2>2, <2>5, <3>1
  <2> QED BY <2>1, <2>4, <2>5
<1>p. CASE Pairs!Publish(t)
  <2>1. /\ c.pc = "publish" /\ Pairs!Goto(t, "save") /\ UNCHANGED <<v2, v3, v4, v5, v7>>
        /\ v1' = IF v1 = 0 THEN kp.publ ELSE v1
    BY <1>a, <1>p DEF Pairs!Publish
  <2>2. /\ v1 = 0 /\ v7 # 0 /\ v2 = 0 /\ kp.priv # 0 /\ kp = Pairs!Both(kp.priv)
        /\ v3[d] = kp.priv /\ v4[d] = kp.publ /\ v5[d] = kp
    BY <1>0, <2>1 DEF Leaves
  <2>3. v1' = kp.priv /\ kp.publ = kp.priv
    BY <1>0, <1>4, <2>1, <2>2
  <2>a. ASSUME NEW e \in X \ {d} PROVE v5[e] = Pairs!NoPair
    <3>1. Pairs!Running(e) = {}
      BY <1>1, <1>a DEF PairsHold, Untripped, Pairs!Running, Active
    <3> QED BY <1>4, <2>2, <3>1 DEF PairsHold, Untripped, Clean
  <2>4. Finds("save", d, kp)' /\ Leaves("save", d, kp)'
    BY <2>1, <2>2, <2>3, <2>a DEF Finds, Leaves
  <2>5. \A e \in X : Clean(e) => Clean(e)'
    BY <1>4, <2>1, <2>2 DEF Clean
  <2> QED BY <1>0, <1>4, <1>5, <1>8, <2>1, <2>4, <2>5
<1>b. CASE Pairs!SaveBackup(t)
  <2>1. /\ c.pc = "save" /\ Pairs!Over(t) /\ UNCHANGED <<v1, v3, v4, v5, v7>>
        /\ v2' = IF v2 = 0 THEN kp.priv ELSE v2
    BY <1>a, <1>b DEF Pairs!SaveBackup
  <2>2. v1 # 0 /\ v7 # 0 /\ kp.priv = v1 /\ v2 = 0 /\ v3[d] = v1 /\ v4[d] = v1
       /\ v5[d] = Pairs!Both(v1)
    BY <1>0, <1>4, <2>1 DEF Leaves
  <2>3. Clean(d)' /\ Calm' /\ \A e \in X : Clean(e) => Clean(e)'
    BY <2>1, <2>2 DEF Clean, Calm
  <2> QED BY <1>9, <2>1, <2>3
<1> QED BY <1>l, <1>m, <1>f, <1>s, <1>t, <1>p, <1>b DEF Pairs!Step

\* A set-up begins while no other runs.
LEMMA PairBeginKeeps ==
  ASSUME Pairs!MaxPairsAssumption, PairsHold, ~v8', NEW t \in Y, NEW d \in X,
         NEW p \in BOOLEAN, NEW n \in BOOLEAN, Pairs!Begin(t, d, p, n)
  PROVE  Untripped'
<1> DEFINE x == [pc |-> IF n THEN "store" ELSE "load", dev |-> d, password |-> p,
                 kp |-> IF n THEN Pairs!Both(1) ELSE Pairs!NoPair]
<1>1. /\ v6' = [v6 EXCEPT ![t] = x] /\ UNCHANGED <<v1, v2, v3, v4, v5>>
      /\ v7' = (IF n THEN 1 ELSE v7) /\ (n => v7 = 0)
      /\ ~v8 /\ ~Pairs!SomeoneRuns /\ Pairs!TypeOK
  BY DEF Pairs!Begin, PairsHold, Pairs!TypeOK
<1>2. x.pc = (IF n THEN "store" ELSE "load") /\ x.dev = d
     /\ x.kp = IF n THEN Pairs!Both(1) ELSE Pairs!NoPair
  OBVIOUS
<1> HIDE DEF x
<1>3. \A u \in Y : ~Active(u)
  BY <1>1 DEF Pairs!SomeoneRuns, Active
<1>4. Calm /\ \A e \in X : Clean(e)
  BY <1>1, <1>3 DEF PairsHold, Untripped, Pairs!Running, Active
<1>5. \A e \in X : Clean(e)'
  BY <1>1, <1>4 DEF Clean
<1>6. v6'[t] = x /\ \A u \in Y \ {t} : v6'[u].pc = "idle"
  BY <1>1, <1>3 DEF Pairs!TypeOK, Active
<1>7. Finds(x.pc, d, x.kp)' /\ Leaves(x.pc, d, x.kp)'
  <2>1. CASE n
    <3>1. v1 = 0 /\ v2 = 0 /\ v7' = 1 /\ x.pc = "store" /\ x.kp = Pairs!Both(1)
      BY <1>1, <1>2, <1>4, <2>1 DEF Calm
    <3> QED BY <1>1, <1>5, <3>1 DEF Finds, Leaves, Pairs!Both
  <2>2. CASE ~n
    <3>1. x.pc = "load" /\ Calm'
      BY <1>1, <1>2, <1>4, <2>2 DEF Calm
    <3> QED BY <1>5, <3>1 DEF Finds, Leaves
  <2> QED BY <2>1, <2>2
<1>8. \A u \in Y : At(u)'
  <2>1. At(t)'
    BY <1>2, <1>6, <1>7 DEF At
  <2>2. \A u \in Y \ {t} : At(u)'
    BY <1>6 DEF At, Finds, Leaves
  <2> QED BY <2>1, <2>2
<1>9. \A u, w \in Y : Active(u)' /\ Active(w)' => u = w
  BY <1>6 DEF Active
<1>10. (\A u \in Y : ~Active(u)') => Calm'
  BY <1>2, <1>6 DEF Active
<1> QED BY <1>5, <1>8, <1>9, <1>10 DEF Untripped

\* The app of a device where no set-up runs dies.
LEMMA PairRestartKeeps ==
  ASSUME Pairs!MaxPairsAssumption, PairsHold, ~v8', NEW d \in X, Pairs!Restart(d)
  PROVE  Untripped'
<1>1. /\ ~v8 /\ Pairs!Running(d) = {} /\ Pairs!TypeOK
      /\ v5' = [v5 EXCEPT ![d] = Pairs!NoPair] /\ UNCHANGED <<v1, v2, v3, v4, v7>>
      /\ v6' = [t \in Y |-> IF t \in Pairs!Running(d) THEN Pairs!Idle(d) ELSE v6[t]]
  BY DEF Pairs!Restart, PairsHold, Pairs!TypeOK
<1>2. v6' = v6
  BY <1>1 DEF Pairs!TypeOK
<1>3. \A e \in X : Clean(e) => Clean(e)'
  BY <1>1 DEF Clean, Pairs!TypeOK
<1>4. \A t \in Y : Active(t) => v6[t].dev \in X /\ v6[t].dev # d
  BY <1>1 DEF Pairs!Running, Active, Pairs!TypeOK, Pairs!Task
<1>5. ASSUME NEW t \in Y PROVE At(t)'
  <2>1. At(t)
    BY <1>1 DEF PairsHold, Untripped
  <2>2. CASE Active(t)
    <3>1. PICK c \in Pairs!Task : c = v6[t]
      BY <1>1 DEF Pairs!TypeOK
    <3>2. c.dev \in X /\ c.dev # d /\ v5'[c.dev] = v5[c.dev]
      BY <1>1, <1>4, <2>2, <3>1 DEF Pairs!TypeOK
    <3>3. Finds(c.pc, c.dev, c.kp)'
      BY <1>1, <1>3, <2>1, <3>1, <3>2 DEF At, Finds, Calm
    <3>4. Leaves(c.pc, c.dev, c.kp)'
      BY <1>1, <2>1, <3>1, <3>2 DEF At, Leaves
    <3> QED BY <1>2, <3>1, <3>3, <3>4 DEF At
  <2>3. CASE ~Active(t)
    BY <1>2, <2>3 DEF Active, At, Finds, Leaves
  <2> QED BY <2>2, <2>3
<1>6. (\A t \in Y : ~Active(t)') => Calm'
  BY <1>1, <1>2 DEF PairsHold, Untripped, Active, Calm
<1>7. \A e \in X : Pairs!Running(e)' = {} => Clean(e)'
  BY <1>1, <1>2, <1>3 DEF PairsHold, Untripped, Pairs!Running
<1> QED BY <1>1, <1>2, <1>5, <1>6, <1>7 DEF PairsHold, Untripped, Active

\* The invariant holds at the start.
LEMMA PairsStart == ASSUME Pairs!MaxPairsAssumption, Pairs!Init PROVE PairsHold
<1>1. /\ Pairs!TypeOK /\ v1 = 0 /\ v2 = 0 /\ v7 = 0
      /\ \A d \in X : v3[d] = 0 /\ v4[d] = 0 /\ v5[d] = Pairs!NoPair
      /\ \A t \in Y : v6[t].pc = "idle"
  <2>1. \A d \in X : Pairs!Idle(d).pc = "idle"
    BY DEF Pairs!Idle
  <2>2. ASSUME NEW t \in Y PROVE v6[t].pc = "idle"
    BY <2>1 DEF Pairs!Init
  <2> QED BY <2>2, PairInitType DEF Pairs!Init
<1>2. Calm /\ \A d \in X : Clean(d)
  BY <1>1 DEF Calm, Clean
<1>3. \A t \in Y : At(t) /\ ~Active(t)
  BY <1>1 DEF At, Finds, Leaves, Active
<1> QED BY <1>1, <1>2, <1>3 DEF PairsHold, Untripped

\* Every step keeps the invariant.
LEMMA PairsStayHeld ==
  ASSUME Pairs!MaxPairsAssumption, PairsHold, [Pairs!Next]_(Pairs!vars)
  PROVE  PairsHold'
<1>1. Pairs!TypeOK'
  BY PairNextType DEF PairsHold
<1>2. CASE UNCHANGED Pairs!vars
  <2>1. Untripped'
    BY <1>2 DEF Pairs!vars, PairsHold, Untripped, Active, Pairs!Running, Clean, Calm, At,
       Finds, Leaves
  <2> QED BY <1>1, <2>1 DEF PairsHold
<1>3. CASE Pairs!Next /\ ~v8'
  <2>1. ASSUME NEW t \in Y, NEW d \in X, NEW p \in BOOLEAN, NEW n \in BOOLEAN,
               Pairs!Begin(t, d, p, n)
        PROVE  Untripped'
    BY <1>3, <2>1, PairBeginKeeps
  <2>2. ASSUME NEW t \in Y, Pairs!Step(t) PROVE Untripped'
    <3>1. ~v8
      BY <1>3, <2>2 DEF Pairs!Step, Pairs!LoadPrivate, Pairs!LoadPublic, Pairs!FetchBackup,
         Pairs!StorePrivate,
         Pairs!StorePublic, Pairs!Publish, Pairs!SaveBackup
    <3> QED BY <2>2, <3>1, PairStepKeeps
  <2>3. ASSUME NEW t \in Y, Pairs!Fails(t) PROVE FALSE
    BY <1>3, <2>3 DEF Pairs!Fails, Pairs!FetchFails, Pairs!StoreFails, Pairs!PublishFails,
       Pairs!SaveFails
  <2>4. ASSUME NEW d \in X, Pairs!Restart(d) PROVE Untripped'
    BY <1>3, <2>4, PairRestartKeeps
  <2> QED BY <1>1, <1>3, <2>1, <2>2, <2>3, <2>4 DEF Pairs!Next, PairsHold
<1>4. CASE v8'
  BY <1>1, <1>4 DEF PairsHold, Untripped
<1> QED BY <1>2, <1>3, <1>4

\* The invariant says what was promised.
LEMMA PairsAreOne == ASSUME PairsHold PROVE Pairs!OnePairUnlessTripped
<1> SUFFICES ASSUME ~v8, NEW d \in X
             PROVE  /\ v5[d] # Pairs!NoPair
                         /\ Pairs!Running(d) = {} => v5[d] = Pairs!Both(v1) /\ v2 = v1
                    /\ Pairs!Complete([priv |-> v3[d], publ |-> v4[d]]) => v3[d] = v4[d]
  BY DEF Pairs!OnePairUnlessTripped
<1>1. CASE Pairs!Running(d) = {}
  <2>1. Clean(d)
    BY <1>1 DEF PairsHold, Untripped
  <2>2. ASSUME v5[d] # Pairs!NoPair PROVE v2 = v1
    <3>1. v1 # 0
      BY <2>1, <2>2 DEF Clean, Pairs!Both, Pairs!NoPair
    <3>2. CASE \A t \in Y : ~Active(t)
      BY <3>2 DEF PairsHold, Untripped, Calm
    <3>3. ASSUME NEW t \in Y, Active(t) PROVE v2 = v1
      <4>1. At(t) /\ v6[t].pc \in Pairs!Pc /\ v6[t].pc # "idle"
        BY <3>3 DEF PairsHold, Untripped, Pairs!TypeOK, Pairs!Task, Active
      <4>2. v6[t].pc # "save"
        BY <1>1, <2>2, <3>3, <4>1 DEF At, Leaves, Pairs!Running, Active
      <4> QED BY <3>1, <4>1, <4>2 DEF At, Finds, Leaves, Calm, Pairs!Pc
    <3> QED BY <3>2, <3>3
  <2> QED BY <2>1, <2>2 DEF Clean
<1>2. ASSUME NEW t \in Pairs!Running(d)
      PROVE  v3[d] = v4[d] \/ v4[d] = 0
  <2>1. At(t) /\ v6[t].pc \in Pairs!Pc /\ v6[t].pc # "idle" /\ v6[t].dev = d
    BY DEF PairsHold, Untripped, Pairs!TypeOK, Pairs!Task, Pairs!Running
  <2>2. v6[t].kp = Pairs!Both(v1) \/ v6[t].kp = Pairs!Both(v6[t].kp.priv)
          => v6[t].kp.priv = v6[t].kp.publ
    BY DEF Pairs!Both
  <2> QED BY <2>1, <2>2 DEF At, Finds, Leaves, Clean, Pairs!Pc
<1>3. Pairs!Running(d) # {} => \E t : t \in Pairs!Running(d)
  OBVIOUS
<1> QED BY <1>1, <1>2, <1>3 DEF Pairs!Complete

PairsInv == part = "pairs" => PairsHold

\* The parts before and after a step: the part stays, and it is its own step.
LEMMA PairsStep ==
  ASSUME [Next]_vars, part = "pairs"
  PROVE  part' = "pairs" /\ [Pairs!Next]_(Pairs!vars)
<1>1. CASE Next
  BY <1>1 DEF Next, Step
<1>2. CASE UNCHANGED vars
  BY <1>2 DEF vars, Pairs!vars
<1> QED BY <1>1, <1>2

\* setupCrypto: as long as every set-up ran alone and to its end, all devices work
\* with the pair the server has.
THEOREM OnePairOfTheClient == Spec => []OnePairUnlessTripped
<1>0. Pairs!MaxPairsAssumption
  BY PartsAssumption DEF PartsAssumption
<1>1. Init => PairsInv
  <2> SUFFICES ASSUME Init, part = "pairs" PROVE PairsHold
    BY DEF PairsInv
  <2>1. Pairs!Init
    BY DEF Init
  <2> QED BY <1>0, <2>1, PairsStart
<1>2. PairsInv /\ [Next]_vars => PairsInv'
  <2> SUFFICES ASSUME PairsInv, [Next]_vars, part' = "pairs" PROVE PairsHold'
    BY DEF PairsInv
  <2>1. part = "pairs"
    BY DEF Next, vars
  <2>2. PairsHold /\ [Pairs!Next]_(Pairs!vars)
    BY <2>1, PairsStep DEF PairsInv
  <2> QED BY <1>0, <2>2, PairsStayHeld
<1>3. PairsInv => OnePairUnlessTripped
  BY PairsAreOne DEF PairsInv, OnePairUnlessTripped
<1> QED BY <1>1, <1>2, <1>3, PTL DEF Spec

------------------------------------------------------------------------------
(* Threads and posts.                                                      *)

\* One submission at a time, and a post without its files is the one whose files
\* are being sent.
Published ==
  /\ v2 \in [pc : {"idle", "create", "upload", "over"}, modal : {v2.modal}, media : BOOLEAN]
  /\ v3 \in [1 .. 2 -> Int]
  /\ ~v4 => v3[1] = IF v2.pc = "upload" THEN 1 ELSE 0

\* A thread starts with no text typed.
LEMMA ThreadStartsTyped ==
  ASSUME Thread!PostThreadAssumption, Thread!Init PROVE Thread!TypeOK
<1>1. /\ v1 = TRUE /\ v2 = {} /\ v3 = {} /\ v4 = {} /\ v5 = {} /\ v6 = "closed" /\ v7 = {}
      /\ v8 = {} /\ v9 = 0 /\ v10 = 0 /\ v11 = 0 /\ v12 = 0 /\ v13 = {} /\ v14 = FALSE
  BY DEF Thread!Init
<1>2. 0 \in 0 .. MaxTexts /\ 0 \in 0 .. 0
  BY DEF Thread!PostThreadAssumption
<1>3. {} \subseteq 1 .. 0
  OBVIOUS
<1> QED BY <1>1, <1>2, <1>3 DEF Thread!TypeOK

\* The numbers of texts are those that were typed.
LEMMA ThreadTypes ==
  ASSUME Thread!PostThreadAssumption, Thread!TypeOK, [Thread!Next]_(Thread!vars)
  PROVE  Thread!TypeOK'
<1> DEFINE T == 1 .. v10
           T0 == 0 .. v10
<1>0. /\ v2 \subseteq T /\ v3 \subseteq T /\ v4 \subseteq T /\ v5 \subseteq T
      /\ v7 \subseteq T /\ v8 \subseteq T /\ v13 \subseteq T
      /\ v9 \in T0 /\ v11 \in T0 /\ v12 \in T0 /\ v10 \in 0 .. MaxTexts
      /\ v1 \in BOOLEAN /\ v14 \in BOOLEAN /\ MaxTexts \in Nat
      /\ v6 \in {"closed", "loading", "served", "open", "deleting"}
      /\ v10 \in Nat /\ 0 \in T0 /\ T \subseteq T0
  BY DEF Thread!TypeOK, Thread!PostThreadAssumption
<1>a. ASSUME /\ v2' \subseteq 1 .. v10' /\ v3' \subseteq 1 .. v10' /\ v4' \subseteq 1 .. v10'
             /\ v5' \subseteq 1 .. v10' /\ v7' \subseteq 1 .. v10' /\ v8' \subseteq 1 .. v10'
             /\ v13' \subseteq 1 .. v10'
             /\ v9' \in 0 .. v10' /\ v11' \in 0 .. v10' /\ v12' \in 0 .. v10'
             /\ v10' \in 0 .. MaxTexts /\ v1' \in BOOLEAN /\ v14' \in BOOLEAN
             /\ v6' \in {"closed", "loading", "served", "open", "deleting"}
      PROVE  Thread!TypeOK'
  BY <1>a DEF Thread!TypeOK
<1>1. CASE \/ Thread!OpenThread \/ Thread!Leave \/ Thread!Shown
           \/ Thread!RemovePost \/ Thread!PostStays \/ UNCHANGED Thread!vars
  <2>1. CASE Thread!OpenThread
    BY <1>0, <2>1, <1>a DEF Thread!OpenThread, Thread!server
  <2>2. CASE Thread!Leave \/ Thread!Shown
    BY <1>0, <2>2, <1>a DEF Thread!Leave, Thread!Shown, Thread!server, Thread!field
  <2>3. CASE Thread!RemovePost \/ Thread!PostStays
    BY <1>0, <2>3, <1>a DEF Thread!RemovePost, Thread!PostStays, Thread!server, Thread!field
  <2>4. CASE UNCHANGED Thread!vars
    BY <1>0, <2>4, <1>a DEF Thread!vars, Thread!server, Thread!field
  <2> QED BY <1>1, <2>1, <2>2, <2>3, <2>4
<1>2. CASE Thread!Served \/ Thread!LoadFails
  <2>1. Thread!FirstPage \subseteq v2
    BY DEF Thread!FirstPage
  <2> QED BY <1>0, <1>2, <1>a, <2>1 DEF Thread!Served, Thread!LoadFails, Thread!server, Thread!field
<1>3. CASE Thread!Type \/ Thread!OthersWrite
  <2>1. v10' = v10 + 1 /\ v10' \in 0 .. MaxTexts /\ T \subseteq 1 .. v10' /\ T0 \subseteq 0 .. v10'
        /\ v10 + 1 \in 1 .. v10' /\ v10 + 1 \in 0 .. v10'
    BY <1>0, <1>3 DEF Thread!Type, Thread!OthersWrite
  <2>2. /\ v2' \subseteq v2 \cup {v10 + 1} /\ v9' \in {v9, v10 + 1}
        /\ v1' = v1 /\ v3' = v3 /\ v4' = v4 /\ v5' = v5 /\ v6' = v6 /\ v7' = v7 /\ v8' = v8
        /\ v11' = v11 /\ v12' = v12 /\ v13' = v13 /\ v14' = v14
    BY <1>3 DEF Thread!Type, Thread!OthersWrite, Thread!server
  <2> HIDE DEF T, T0
  <2>3. /\ v2' \subseteq 1 .. v10' /\ v3' \subseteq 1 .. v10' /\ v4' \subseteq 1 .. v10'
        /\ v5' \subseteq 1 .. v10' /\ v7' \subseteq 1 .. v10' /\ v8' \subseteq 1 .. v10'
        /\ v13' \subseteq 1 .. v10'
    BY <1>0, <2>1, <2>2
  <2>4. v9' \in 0 .. v10' /\ v11' \in 0 .. v10' /\ v12' \in 0 .. v10'
    BY <1>0, <2>1, <2>2
  <2> QED BY <1>0, <1>a, <2>1, <2>2, <2>3, <2>4
<1>4. CASE Thread!Send
  BY <1>0, <1>4, <1>a DEF Thread!Send, Thread!field
<1>5. CASE Thread!Sent \/ Thread!SendFails \/ Thread!PostGoes
  <2>1. CASE Thread!Sent
    <3>1. v12 \in T
      BY <1>0, <2>1 DEF Thread!Sent
    <3> QED BY <1>0, <2>1, <3>1, <1>a DEF Thread!Sent, Thread!server
  <2>2. CASE Thread!SendFails \/ Thread!PostGoes
    BY <1>0, <2>2, <1>a DEF Thread!SendFails, Thread!PostGoes, Thread!server, Thread!field
  <2> QED BY <1>5, <2>1, <2>2
<1>6. ASSUME NEW c \in Thread!Text,
             \/ Thread!PostTaken(c) \/ Thread!RemoveTaken(c) \/ Thread!Lost(c)
             \/ Thread!OthersRemove(c)
      PROVE  Thread!TypeOK'
  BY <1>0, <1>6, <1>a DEF Thread!PostTaken, Thread!RemoveTaken, Thread!Lost,
     Thread!OthersRemove, Thread!field
<1>7. ASSUME NEW c \in Thread!Text, Thread!Remove(c) \/ Thread!Removed(c) \/ Thread!RemoveFails(c)
      PROVE  Thread!TypeOK'
  BY <1>0, <1>7, <1>a DEF Thread!Remove, Thread!Removed, Thread!RemoveFails,
     Thread!server, Thread!field
<1>8. ASSUME NEW c \in {0} \cup Thread!Text, Thread!Quote(c) PROVE Thread!TypeOK'
  BY <1>0, <1>8, <1>a DEF Thread!Quote, Thread!server
<1> QED BY <1>1, <1>2, <1>3, <1>4, <1>5, <1>6, <1>7, <1>8 DEF Thread!Next

\* Nothing is awaited by a thread that is not open yet; and while nothing excuses it,
\* an open one waits for every request there is, what is shown and removed is there,
\* and what is being sent, or may be next, is on neither side before it is taken.
Awaited ==
  /\ v6 \in {"closed", "loading", "served"} => v12 = 0 /\ v13 = {}
  /\ v6 \in {"loading", "served"} => v9 = 0
  /\ ~v14 =>
     /\ v6 # "closed" => v4 \subseteq {v12} /\ v5 \subseteq v13
     /\ v6 = "served" /\ v1 => v7 \cap v3 = v2 \cap v3
     /\ Thread!Ready =>
          /\ v12 # 0 => v12 \in v3 /\ v12 \notin v8 /\ (v12 \in v4 => v12 \notin v2)
          /\ v13 \subseteq v8 \cap v3
          /\ v9 # 0 => v9 \notin v8 /\ (v9 # v12 => v9 \notin v2)

ThreadSound == Thread!TypeOK /\ Awaited /\ Thread!ThreadIsTrue

\* Every step of a thread keeps the screen and the server alike, or is one of those
\* that excuse it.
LEMMA ThreadKeeps ==
  ASSUME Thread!PostThreadAssumption, ThreadSound, [Thread!Next]_(Thread!vars)
  PROVE  ThreadSound'
<1>0. /\ v2 \subseteq 1 .. v10 /\ v3 \subseteq 1 .. v10 /\ v4 \subseteq 1 .. v10
      /\ v5 \subseteq 1 .. v10 /\ v8 \subseteq 1 .. v10 /\ v13 \subseteq 1 .. v10
      /\ v9 \in 0 .. v10 /\ v12 \in 0 .. v10 /\ v10 \in Nat /\ v14 \in BOOLEAN /\ v1 \in BOOLEAN
      /\ v10 + 1 \notin 1 .. v10 /\ 0 \notin 1 .. v10 /\ v9 # v10 + 1 /\ v12 # v10 + 1
  BY DEF ThreadSound, Thread!TypeOK, Thread!PostThreadAssumption
<1>t. Thread!TypeOK'
  BY ThreadTypes DEF ThreadSound
<1>i. Awaited /\ Thread!ThreadIsTrue
  BY DEF ThreadSound
<1> SUFFICES Awaited' /\ Thread!ThreadIsTrue'
  BY <1>t DEF ThreadSound
<1> USE DEF Awaited, Thread!ThreadIsTrue, Thread!Ready
<1>1. CASE Thread!OpenThread
  BY <1>0, <1>i, <1>1 DEF Thread!OpenThread, Thread!server
<1>2. CASE Thread!Leave
  BY <1>0, <1>i, <1>2 DEF Thread!Leave, Thread!server
<1>3. CASE Thread!Served
  BY <1>0, <1>i, <1>3 DEF Thread!Served, Thread!server, Thread!field
<1>4. CASE Thread!Shown
  BY <1>0, <1>i, <1>4 DEF Thread!Shown, Thread!server, Thread!field
<1>5. CASE Thread!LoadFails
  BY <1>0, <1>i, <1>5 DEF Thread!LoadFails, Thread!server, Thread!field
<1>6. CASE Thread!Type
  BY <1>0, <1>i, <1>6 DEF Thread!Type, Thread!server
<1>7. CASE Thread!Send
  BY <1>0, <1>i, <1>7 DEF Thread!Send, Thread!field
<1>8. CASE Thread!Sent
  BY <1>0, <1>i, <1>8 DEF Thread!Sent, Thread!server
<1>9. CASE Thread!SendFails
  BY <1>0, <1>i, <1>9 DEF Thread!SendFails, Thread!server, Thread!field
<1>10. CASE Thread!OthersWrite \/ Thread!PostGoes
  BY <1>0, <1>i, <1>10 DEF Thread!OthersWrite, Thread!PostGoes, Thread!field
<1>11. CASE Thread!RemovePost \/ Thread!PostStays \/ UNCHANGED Thread!vars
  <2>1. CASE UNCHANGED Thread!vars
    <3>1. /\ v1' = v1 /\ v2' = v2 /\ v3' = v3 /\ v4' = v4 /\ v5' = v5 /\ v6' = v6 /\ v7' = v7
          /\ v8' = v8 /\ v9' = v9 /\ v12' = v12 /\ v13' = v13 /\ v14' = v14
      BY <2>1 DEF Thread!vars, Thread!server, Thread!field
    <3> QED BY <1>i, <3>1
  <2>2. CASE Thread!RemovePost
    BY <1>0, <1>i, <2>2 DEF Thread!RemovePost, Thread!server, Thread!field
  <2>3. CASE Thread!PostStays
    BY <1>0, <1>i, <2>3 DEF Thread!PostStays, Thread!server, Thread!field
  <2> QED BY <1>11, <2>1, <2>2, <2>3
<1>12. ASSUME NEW c \in Thread!Text, Thread!PostTaken(c)
       PROVE  Awaited' /\ Thread!ThreadIsTrue'
  BY <1>0, <1>i, <1>12 DEF Thread!PostTaken, Thread!field
<1>13. ASSUME NEW c \in Thread!Text, Thread!RemoveTaken(c)
       PROVE  Awaited' /\ Thread!ThreadIsTrue'
  BY <1>0, <1>i, <1>13 DEF Thread!RemoveTaken, Thread!field
<1>14. ASSUME NEW c \in Thread!Text, Thread!Lost(c) \/ Thread!OthersRemove(c)
       PROVE  Awaited' /\ Thread!ThreadIsTrue'
  <2>1. CASE Thread!Lost(c)
    BY <1>0, <1>i, <2>1 DEF Thread!Lost, Thread!field
  <2>2. CASE Thread!OthersRemove(c)
    BY <1>0, <1>i, <2>2 DEF Thread!OthersRemove, Thread!field
  <2> QED BY <1>14, <2>1, <2>2
<1>15. ASSUME NEW c \in Thread!Text, Thread!Remove(c)
       PROVE  Awaited' /\ Thread!ThreadIsTrue'
  BY <1>0, <1>i, <1>15 DEF Thread!Remove, Thread!field
<1>16. ASSUME NEW c \in Thread!Text, Thread!Removed(c)
       PROVE  Awaited' /\ Thread!ThreadIsTrue'
  BY <1>0, <1>i, <1>16 DEF Thread!Removed, Thread!server, Thread!field
<1>17. ASSUME NEW c \in Thread!Text, Thread!RemoveFails(c)
       PROVE  Awaited' /\ Thread!ThreadIsTrue'
  BY <1>0, <1>i, <1>17 DEF Thread!RemoveFails, Thread!server, Thread!field
<1>18. ASSUME NEW c \in {0} \cup Thread!Text, Thread!Quote(c)
       PROVE  Awaited' /\ Thread!ThreadIsTrue'
  BY <1>0, <1>i, <1>18 DEF Thread!Quote, Thread!server
<1> QED BY <1>1, <1>2, <1>3, <1>4, <1>5, <1>6, <1>7, <1>8, <1>9, <1>10, <1>11, <1>12, <1>13,
           <1>14, <1>15, <1>16, <1>17, <1>18 DEF Thread!Next

\* publishing: the post counts as one without files while they are sent.
LEMMA FormKeeps ==
  ASSUME Published, [Form!Next]_(Form!vars)
  PROVE  Published'
<1> DEFINE Submits == [pc : {"idle", "create", "upload", "over"}, modal : {v2.modal},
                       media : BOOLEAN]
<1>0. /\ v2 \in Submits /\ v3 \in [1 .. 2 -> Int]
      /\ ~v4 => v3[1] = IF v2.pc = "upload" THEN 1 ELSE 0
  BY DEF Published
<1>1. CASE Form!Open \/ Form!Close \/ UNCHANGED Form!vars
  BY <1>1 DEF Form!Open, Form!Close, Form!vars, Published
<1>2. ASSUME NEW media \in BOOLEAN, Form!Submit(media) PROVE Published'
  <2>1. /\ v2' = [pc |-> "create", modal |-> v1, media |-> media] /\ v2.pc = "idle"
        /\ v3' = v3 /\ v4' = v4
    BY <1>2 DEF Form!Submit
  <2> QED BY <1>0, <2>1 DEF Published
<1>3. CASE Form!Created
  <2>1. /\ v2' = [v2 EXCEPT !.pc = IF v2.media THEN "upload" ELSE "over"] /\ v2.pc = "create"
        /\ v3' = IF v2.media THEN [v3 EXCEPT ![1] = @ + 1] ELSE [v3 EXCEPT ![2] = @ + 1]
        /\ v4' = v4
    BY <1>3 DEF Form!Created
  <2>2. v2' \in Submits /\ v2'.pc = IF v2.media THEN "upload" ELSE "over"
    BY <1>0, <2>1
  <2>3. v3' \in [1 .. 2 -> Int] /\ v3'[1] = IF v2.media THEN v3[1] + 1 ELSE v3[1]
    BY <1>0, <2>1
  <2> QED BY <1>0, <2>1, <2>2, <2>3 DEF Published
<1>4. CASE Form!Uploaded
  <2>1. /\ v2' = [v2 EXCEPT !.pc = "over"] /\ v2.pc = "upload"
        /\ v3' = <<v3[1] - 1, v3[2] + 1>> /\ v4' = v4
    BY <1>4 DEF Form!Uploaded
  <2>2. v2' \in Submits /\ v2'.pc = "over"
    BY <1>0, <2>1
  <2>3. v3' \in [1 .. 2 -> Int] /\ v3'[1] = v3[1] - 1
    BY <1>0, <2>1
  <2> QED BY <1>0, <2>1, <2>2, <2>3 DEF Published
<1>5. CASE Form!Over
  <2>1. v2' = [pc |-> "idle", modal |-> 0, media |-> FALSE] /\ v2.pc = "over"
        /\ v3' = v3 /\ v4' = v4
    BY <1>5 DEF Form!Over, Form!NoSubmit
  <2> QED BY <1>0, <2>1 DEF Published
<1>6. CASE Form!Unanswered
  <2>1. /\ v2' = [pc |-> "idle", modal |-> 0, media |-> FALSE] /\ v3' \in Form!Outcomes
        /\ v4' = (v4 \/ v2.pc = "upload" \/ v3'[1] # v3[1])
    BY <1>6 DEF Form!Unanswered, Form!NoSubmit
  <2>2. v3' \in [1 .. 2 -> Int]
    <3>1. <<v3[1] - 1, v3[2] + 1>> \in [1 .. 2 -> Int]
      BY <1>0
    <3>2. \A k \in {1, 2} : [v3 EXCEPT ![k] = @ + 1] \in [1 .. 2 -> Int]
      BY <1>0
    <3>3. (IF v2.media THEN 1 ELSE 2) \in {1, 2}
      OBVIOUS
    <3> QED BY <1>0, <2>1, <3>1, <3>2, <3>3 DEF Form!Outcomes
  <2>3. v2' \in [pc : {"idle", "create", "upload", "over"}, modal : {v2'.modal}, media : BOOLEAN]
        /\ v2'.pc = "idle"
    BY <2>1
  <2> QED BY <1>0, <2>1, <2>2, <2>3 DEF Published
<1> QED BY <1>1, <1>2, <1>3, <1>4, <1>5, <1>6 DEF Form!Next, Form!SubmitFails, Form!Killed

\* What the thread and the form keep while they are the part.
TrueInv ==
  /\ part = "thread" => ThreadSound
  /\ part = "form" => Published

\* A behaviour stays in its part, and its steps are the part's.
LEMMA PartSteps ==
  ASSUME [Next]_vars
  PROVE  /\ part' = part
         /\ part = "thread" => [Thread!Next]_(Thread!vars)
         /\ part = "form" => [Form!Next]_(Form!vars)
<1>1. CASE Next
  BY <1>1 DEF Next, Step
<1>2. CASE UNCHANGED vars
  BY <1>2 DEF vars, Thread!vars, Thread!server, Thread!field, Form!vars
<1> QED BY <1>1, <1>2

\* PostThread.tsx and CreatePostModal.tsx: a thread shows of one's own comments those
\* the server has, and a post stands without its files only while they are sent,
\* however many comments and posts there are and whatever order the answers come in;
\* but for what PostThread and NewPost name: a thread one came back to too early, a
\* list that is saved or not all, an answer that was lost, an app that was killed.
THEOREM ThreadsEndTrue == Spec => []ThreadIsTrue
<1>1. Init => TrueInv
  <2>1. Thread!Init => ThreadSound
    <3>1. Thread!PostThreadAssumption
      BY PartsAssumption DEF PartsAssumption
    <3>2. Thread!Init => Awaited /\ Thread!ThreadIsTrue
      BY DEF Thread!Init, Awaited, Thread!Ready, Thread!ThreadIsTrue
    <3> QED BY <3>1, <3>2, ThreadStartsTyped DEF ThreadSound
  <2>2. Form!Init => Published
    BY DEF Form!Init, Published, Form!NoSubmit
  <2> QED BY <2>1, <2>2 DEF Init, TrueInv
<1>2. TrueInv /\ [Next]_vars => TrueInv'
  <2> SUFFICES ASSUME TrueInv, [Next]_vars PROVE TrueInv'
    OBVIOUS
  <2>1. Thread!PostThreadAssumption
    BY PartsAssumption DEF PartsAssumption
  <2> QED BY <2>1, PartSteps, ThreadKeeps, FormKeeps DEF TrueInv
<1>3. TrueInv => ThreadIsTrue
  <2>1. ASSUME Published PROVE Form!FilesFollow
    BY <2>1 DEF Published, Form!FilesFollow
  <2> QED BY <2>1 DEF TrueInv, ThreadSound, ThreadIsTrue
<1> QED BY <1>1, <1>2, <1>3, PTL DEF Spec

------------------------------------------------------------------------------
(* The heart of a post.                                                    *)

Flags == [pc : {"idle", "sent", "read", "done"}, was : BOOLEAN, mine : BOOLEAN,
          saw : BOOLEAN]
SentTaps == {t \in X : v4[t].pc \in {"sent", "read"}}
Even(S) == Cardinality(S) % 2 = 0

\* While nothing excuses it, the card is a turn away from the server for every
\* request the server has not written yet, and the server writes what it has looked
\* for before it looks again.
Alone == \A t \in X : v4[t].pc = "read" =>
            v4[t].saw = v1 /\ \A u \in X \ {t} : v4[u].pc # "read"
Marked ==
  /\ v1 \in BOOLEAN /\ v2 \in BOOLEAN /\ v5 \in BOOLEAN
  /\ v3 \in [there : BOOLEAN, on : BOOLEAN] /\ v4 \in [X -> Flags]
  /\ IsFiniteSet(SentTaps)
  /\ ~v5 => /\ \A t \in X : v4[t].pc # "idle" => v4[t].mine /\ v3.there
            /\ v3.there => (v3.on = v1 <=> Even(SentTaps))
            /\ Alone

\* One more or one less turns the parity over.
LEMMA EvenTurns ==
  ASSUME NEW S, IsFiniteSet(S), NEW t
  PROVE  /\ IsFiniteSet(S \cup {t}) /\ IsFiniteSet(S \ {t})
         /\ t \notin S => (Even(S \cup {t}) <=> ~Even(S))
         /\ t \in S => (Even(S \ {t}) <=> ~Even(S))
<1>1. Cardinality(S) \in Nat
  BY FS_CardinalityType
<1>2. /\ IsFiniteSet(S \cup {t})
      /\ t \notin S => Cardinality(S \cup {t}) = Cardinality(S) + 1
  BY FS_AddElement
<1>3. /\ IsFiniteSet(S \ {t})
      /\ t \in S => Cardinality(S \ {t}) = Cardinality(S) - 1
  BY FS_RemoveElement
<1>4. t \in S => Cardinality(S \ {t}) \in Nat
  BY <1>3, FS_CardinalityType
<1> QED BY <1>1, <1>2, <1>3, <1>4 DEF Even

\* None is even, and one is not.
LEMMA EvenStarts == Even({}) /\ \A t : ~Even({t})
<1>1. Cardinality({}) = 0 /\ IsFiniteSet({})
  BY FS_EmptySet
<1>2. ASSUME NEW t PROVE ~Even({t})
  <2>1. {} \cup {t} = {t} /\ t \notin {}
    OBVIOUS
  <2>2. Cardinality({t}) = 1
    BY <1>1, <2>1, FS_AddElement
  <2> QED BY <2>2 DEF Even
<1>3. Even({})
  <2>1. 0 % 2 = 0
    OBVIOUS
  <2> QED BY <1>1, <2>1 DEF Even
<1> QED BY <1>2, <1>3

\* Every step of the card.
LEMMA CardKeeps ==
  ASSUME Marked, [Card!Next]_(Card!vars)
  PROVE  Marked'
<1>0. /\ v1 \in BOOLEAN /\ v2 \in BOOLEAN /\ v5 \in BOOLEAN
      /\ v3 \in [there : BOOLEAN, on : BOOLEAN] /\ v4 \in [X -> Flags]
      /\ IsFiniteSet(SentTaps)
  BY DEF Marked
<1>1. ASSUME NEW fresh \in BOOLEAN, Card!Listed(fresh) PROVE Marked'
  <2>1. /\ v3' = IF v3.there THEN v3
                 ELSE [there |-> TRUE, on |-> IF fresh THEN v1 ELSE v2]
        /\ v2' = IF fresh THEN v1 ELSE v2
        /\ v5' = (v5 \/ (~v3.there /\ ~fresh /\ v2 # v1))
        /\ v1' = v1 /\ v4' = v4 /\ SentTaps' = SentTaps
    BY <1>1 DEF Card!Listed, SentTaps
  <2>a. Alone' = Alone
    BY <2>1 DEF Alone
  <2>2. /\ v1' \in BOOLEAN /\ v2' \in BOOLEAN /\ v5' \in BOOLEAN
        /\ v3' \in [there : BOOLEAN, on : BOOLEAN] /\ v4' \in [X -> Flags]
    BY <1>0, <2>1
  <2>3. CASE v3.there
    BY <1>0, <2>1, <2>2, <2>3, <2>a DEF Marked
  <2>4. CASE ~v3.there
    <3>0. v3'.there /\ v3'.on = (IF fresh THEN v1 ELSE v2)
      BY <2>1, <2>4
    <3>1. ~v5' => ~v5 /\ v3'.on = v1 /\ v3'.there
      BY <1>0, <2>1, <2>4, <3>0
    <3>2. ~v5 => SentTaps = {}
      BY <2>4 DEF Marked, SentTaps
    <3> QED BY <1>0, <2>1, <2>2, <2>4, <2>a, <3>1, <3>2, EvenStarts DEF Marked
  <2> QED BY <2>3, <2>4
<1>2. CASE Card!LeaveList
  <2>1. /\ v3' = [there |-> FALSE, on |-> FALSE]
        /\ v4' = [t \in X |-> [v4[t] EXCEPT !.mine = FALSE]]
        /\ v5' = (\E t \in X : v4[t].pc # "idle")
        /\ v1' = v1 /\ v2' = v2
    BY <1>2 DEF Card!LeaveList, Card!NoCard
  <2>2. ASSUME NEW t \in X PROVE v4'[t] \in Flags /\ v4'[t].pc = v4[t].pc
    BY <1>0, <2>1 DEF Flags
  <2>3. v4' \in [X -> Flags] /\ SentTaps' = SentTaps
    BY <2>1, <2>2 DEF SentTaps
  <2>4. v5' \in BOOLEAN /\ (~v5' => \A t \in X : v4'[t].pc = "idle")
    BY <2>1, <2>2
  <2>5. v3' \in [there : BOOLEAN, on : BOOLEAN] /\ ~v3'.there
    BY <2>1
  <2>6. ~v5' => Alone'
    BY <2>4 DEF Alone
  <2> QED BY <1>0, <2>1, <2>3, <2>4, <2>5, <2>6 DEF Marked
<1>3. ASSUME NEW t \in X, Card!Tap(t) PROVE Marked'
  <2> DEFINE x == [pc |-> "sent", was |-> v3.on, mine |-> TRUE, saw |-> FALSE]
  <2>1. /\ v3.there /\ v4[t].pc = "idle" /\ v4' = [v4 EXCEPT ![t] = x]
        /\ v3' = [v3 EXCEPT !.on = ~@] /\ v1' = v1 /\ v2' = v2 /\ v5' = v5
    BY <1>3 DEF Card!Tap
  <2>2. x \in Flags /\ x.pc = "sent" /\ x.mine
    BY <1>0 DEF Flags
  <2> HIDE DEF x
  <2>3. v4' \in [X -> Flags] /\ v4'[t] = x /\ \A u \in X \ {t} : v4'[u] = v4[u]
    BY <1>0, <2>1, <2>2
  <2>4. SentTaps' = SentTaps \cup {t} /\ t \notin SentTaps
    BY <2>1, <2>2, <2>3 DEF SentTaps
  <2>5. /\ v3' \in [there : BOOLEAN, on : BOOLEAN] /\ v3'.there
        /\ v3'.on = v1 <=> ~(v3.on = v1)
    BY <1>0, <2>1
  <2>6. IsFiniteSet(SentTaps') /\ (Even(SentTaps') <=> ~Even(SentTaps))
    BY <1>0, <2>4, EvenTurns
  <2>7. Alone => Alone'
    BY <2>1, <2>2, <2>3 DEF Alone
  <2>8. IsFiniteSet(SentTaps')
    BY <2>6
  <2> QED BY <1>0, <2>1, <2>2, <2>3, <2>5, <2>6, <2>7, <2>8 DEF Marked, Even
<1>a. ASSUME NEW t \in X, Card!Read(t) PROVE Marked'
  <2> DEFINE x == [v4[t] EXCEPT !.pc = "read", !.saw = v1]
  <2>1. /\ v4[t].pc = "sent" /\ v4' = [v4 EXCEPT ![t] = x]
        /\ v5' = (v5 \/ \E u \in X \ {t} : v4[u].pc = "read")
        /\ v1' = v1 /\ v2' = v2 /\ v3' = v3
    BY <1>0, <1>a DEF Card!Read
  <2>2. x \in Flags /\ x.pc = "read" /\ x.saw = v1 /\ x.mine = v4[t].mine
    BY <1>0 DEF Flags
  <2> HIDE DEF x
  <2>3. v4' \in [X -> Flags] /\ v4'[t] = x /\ \A u \in X \ {t} : v4'[u] = v4[u]
    BY <1>0, <2>1, <2>2
  <2>4. SentTaps' = SentTaps
    BY <2>1, <2>2, <2>3 DEF SentTaps
  <2>5. v5' \in BOOLEAN
    BY <1>0, <2>1
  <2>6. ~v5' => Alone'
    BY <2>1, <2>2, <2>3 DEF Alone
  <2> QED BY <1>0, <2>1, <2>2, <2>3, <2>4, <2>5, <2>6 DEF Marked
<1>4. ASSUME NEW t \in X, Card!Toggle(t) PROVE Marked'
  <2> DEFINE x == [v4[t] EXCEPT !.pc = "done"]
  <2>1. /\ v4[t].pc = "read" /\ v1' = ~v4[t].saw /\ v4' = [v4 EXCEPT ![t] = x]
        /\ v2' = v2 /\ v3' = v3 /\ v5' = v5
    BY <1>4 DEF Card!Toggle
  <2>2. x \in Flags /\ x.pc = "done" /\ x.mine = v4[t].mine
    BY <1>0 DEF Flags
  <2> HIDE DEF x
  <2>3. v4' \in [X -> Flags] /\ v4'[t] = x /\ \A u \in X \ {t} : v4'[u] = v4[u]
    BY <1>0, <2>1, <2>2
  <2>4. SentTaps' = SentTaps \ {t} /\ t \in SentTaps
    BY <2>1, <2>2, <2>3 DEF SentTaps
  <2>5. IsFiniteSet(SentTaps') /\ (Even(SentTaps') <=> ~Even(SentTaps))
    BY <1>0, <2>4, EvenTurns
  <2>6. v1' \in BOOLEAN /\ (~v5 => v1' = ~v1)
    BY <1>0, <2>1 DEF Marked, Alone, Flags
  <2>7. ~v5 => (v3.on = v1' <=> ~(v3.on = v1))
    BY <1>0, <2>6
  <2>8. ~v5 => Alone'
    BY <2>1, <2>2, <2>3 DEF Marked, Alone
  <2>9. IsFiniteSet(SentTaps')
    BY <2>5
  <2> QED BY <1>0, <2>1, <2>2, <2>3, <2>5, <2>6, <2>7, <2>8, <2>9 DEF Marked, Even
<1>5. ASSUME NEW t \in X, Card!Toggled(t) \/ Card!TapFails(t) PROVE Marked'
  <2> DEFINE x == [pc |-> "idle", was |-> FALSE, mine |-> FALSE, saw |-> FALSE]
  <2>1. v4[t].pc # "idle" /\ v4' = [v4 EXCEPT ![t] = x] /\ v1' = v1 /\ v2' = v2
    BY <1>5 DEF Card!Toggled, Card!TapFails, Card!NoTap
  <2>2. x \in Flags /\ x.pc = "idle"
    BY DEF Flags
  <2> HIDE DEF x
  <2>3. v4' \in [X -> Flags] /\ v4'[t] = x /\ \A u \in X \ {t} : v4'[u] = v4[u]
    BY <1>0, <2>1, <2>2
  <2>4. SentTaps' = SentTaps \ {t} /\ IsFiniteSet(SentTaps')
    <3>1. SentTaps' = SentTaps \ {t}
      BY <2>2, <2>3 DEF SentTaps
    <3> QED BY <1>0, <3>1, EvenTurns
  <2>5. CASE Card!Toggled(t)
    <3>1. v4[t].pc = "done" /\ v3' = v3 /\ v5' = v5
      BY <2>5 DEF Card!Toggled
    <3>2. SentTaps' = SentTaps
      BY <2>4, <3>1 DEF SentTaps
    <3>3. Alone => Alone'
      BY <2>1, <2>2, <2>3 DEF Alone
    <3> QED BY <1>0, <2>1, <2>2, <2>3, <3>1, <3>2, <3>3 DEF Marked
  <2>6. CASE Card!TapFails(t)
    <3>1. /\ v3' = IF v4[t].mine THEN [v3 EXCEPT !.on = v4[t].was] ELSE v3
          /\ v5' = (v5 \/ v4[t].pc # "sent" \/ v3.on = v4[t].was
                    \/ \E u \in X \ {t} : v4[u].pc # "idle")
      BY <2>6 DEF Card!TapFails
    <3>2. v5' \in BOOLEAN /\ v3' \in [there : BOOLEAN, on : BOOLEAN] /\ v3'.there = v3.there
      BY <1>0, <3>1 DEF Flags
    <3>3. ASSUME ~v5'
          PROVE  v3'.there /\ v3'.on = v1 /\ \A u \in X : v4'[u].pc = "idle"
      <4>1. /\ ~v5 /\ v4[t].pc = "sent" /\ v3.on # v4[t].was
            /\ \A u \in X \ {t} : v4[u].pc = "idle"
        BY <1>0, <2>1, <3>1, <3>3 DEF Flags
      <4>2. SentTaps = {t} /\ v4[t].mine /\ v3.there
        BY <4>1 DEF Marked, SentTaps
      <4>3. v3.on # v1
        BY <4>1, <4>2, EvenStarts DEF Marked
      <4>4. v3'.on = v4[t].was
        BY <1>0, <3>1, <4>2
      <4>5. v4[t].was = v1
        BY <1>0, <4>1, <4>3 DEF Flags
      <4>6. \A u \in X : v4'[u].pc = "idle"
        BY <2>2, <2>3, <4>1
      <4> QED BY <3>2, <4>2, <4>4, <4>5, <4>6
    <3>4. ~v5' => SentTaps' = {}
      BY <3>3 DEF SentTaps
    <3>5. v1' = v1 /\ v1' \in BOOLEAN /\ v2' \in BOOLEAN
      BY <1>0, <2>1
    <3>6. ~v5' => Alone'
      BY <3>3 DEF Alone
    <3> QED BY <2>3, <2>4, <3>2, <3>3, <3>4, <3>5, <3>6, EvenStarts DEF Marked
  <2> QED BY <1>5, <2>5, <2>6
<1>b. ASSUME NEW t \in X, Card!TapLost(t) PROVE Marked'
  <2>1. /\ v4' = [v4 EXCEPT ![t] = [v4[t] EXCEPT !.mine = FALSE]]
        /\ v3' = [v3 EXCEPT !.on = v4[t].was]
        /\ v5' = TRUE /\ v1' = v1 /\ v2' = v2
    BY <1>0, <1>b DEF Card!TapLost
  <2>2. [v4[t] EXCEPT !.mine = FALSE] \in Flags /\ v4[t].was \in BOOLEAN
    BY <1>0 DEF Flags
  <2>3. v4' \in [X -> Flags] /\ v3' \in [there : BOOLEAN, on : BOOLEAN]
    BY <1>0, <2>1, <2>2
  <2>4. \A u \in X : v4'[u].pc = v4[u].pc
    BY <1>0, <2>1 DEF Flags
  <2>5. SentTaps' = SentTaps
    BY <2>4 DEF SentTaps
  <2> QED BY <1>0, <2>1, <2>3, <2>5 DEF Marked
<1>6. CASE UNCHANGED Card!vars
  BY <1>6 DEF Card!vars, Marked, SentTaps, Alone
<1> QED BY <1>1, <1>2, <1>3, <1>4, <1>5, <1>6, <1>a, <1>b DEF Card!Next

\* PostCard.tsx: however fast one taps, and however many requests are on their way,
\* the card ends with the server's mark, unless two of them were served across each
\* other, a tap failed late or beside another one, or the list was an older one.
THEOREM MarkEndsTrue == Spec => []MarkIsTrue
<1> DEFINE Inv == part = "card" => Marked
<1>1. Init => Inv
  <2> SUFFICES ASSUME Card!Init PROVE Marked
    BY DEF Init
  <2>1. /\ v1 = FALSE /\ v2 \in BOOLEAN /\ v5 = FALSE
        /\ v3 = [there |-> FALSE, on |-> FALSE]
        /\ v4 = [t \in X |-> [pc |-> "idle", was |-> FALSE, mine |-> FALSE,
                             saw |-> FALSE]]
    BY DEF Card!Init, Card!NoCard, Card!NoTap
  <2>2. SentTaps = {} /\ v4 \in [X -> Flags] /\ \A t \in X : v4[t].pc = "idle"
    BY <2>1 DEF SentTaps, Flags
  <2>3. IsFiniteSet(SentTaps)
    BY <2>2, FS_EmptySet
  <2> QED BY <2>1, <2>2, <2>3 DEF Marked, Alone
<1>2. Inv /\ [Next]_vars => Inv'
  <2> SUFFICES ASSUME Inv, [Next]_vars, part' = "card" PROVE Marked'
    OBVIOUS
  <2>1. part = "card" /\ [Card!Next]_(Card!vars)
    BY DEF Next, Step, vars, Card!vars
  <2> QED BY <2>1, CardKeeps
<1>3. Inv => MarkIsTrue
  <2> SUFFICES ASSUME Marked, ~v5, v3.there, \A t \in X : v4[t].pc = "idle" PROVE v3.on = v1
    BY DEF MarkIsTrue, Card!MarkIsTrue
  <2>1. SentTaps = {}
    BY DEF SentTaps
  <2> QED BY <2>1, EvenStarts DEF Marked
<1> QED BY <1>1, <1>2, <1>3, PTL DEF Spec


------------------------------------------------------------------------------
(* Lists kept on the device (DataCache): v1 is what the server has of each    *)
(* key, v2 what is saved, v3 and v4 the screen, v5 the loads, v6 a clearing   *)
(* under way, v7 the day, v8 the newest version shown and v9 the excuse.      *)

DataInv == Data!TypeOK /\ Data!InOrder

\* The states of a load are among its values.
LEMMA DataIdle ==
  ASSUME Data!BoundsAssumption
  PROVE  /\ Data!Idle \in Data!Call /\ Data!Version \subseteq Nat /\ 0 \in Data!Version
         /\ Data!Idle.net = "over" /\ Data!Idle.read = "over"
  BY DEF Data!BoundsAssumption, Data!Idle, Data!Call, Data!Version

\* The cache of lists starts empty and in order.
LEMMA DataStarts == ASSUME Data!BoundsAssumption, Data!Init PROVE DataInv
<1>1. Data!TypeOK
  <2>1. v1 \in [X -> Data!Version] /\ v5 \in [Y -> Data!Call] /\ v8 \in Data!Version
    BY DataIdle DEF Data!Init
  <2>2. v2 \in [X -> [version : Data!Version, day : 0 .. DataDays]]
    BY DataIdle, BoundsAreNumbers DEF Data!Init, Data!NoEntry
  <2>3. v3 = "none" /\ v4 = Data!Nothing /\ v6 = FALSE /\ v7 = 1 /\ v9 = FALSE
    BY DEF Data!Init
  <2>4. v4 \in Data!Value \cup {Data!Nothing} /\ v3 \in X \cup {"none"} /\ v7 \in 1 .. DataDays
    BY <2>3, BoundsAreNumbers
  <2> QED BY <2>1, <2>2, <2>3, <2>4 DEF Data!TypeOK
<1>2. Data!InFlight = {}
  BY DEF Data!Init, Data!InFlight, Data!Idle
<1>3. Data!Keyed /\ Data!Alone
  BY <1>2 DEF Data!Keyed, Data!Alone, Data!Init
<1>4. Data!ShownIsRight
  BY DEF Data!Init, Data!ShownIsRight
<1>5. Data!Ordered /\ Data!Kept
  BY <1>2 DEF Data!Init, Data!Ordered, Data!Kept, Data!NoEntry
<1> QED BY <1>1, <1>3, <1>4, <1>5 DEF DataInv, Data!InOrder

\* Every step keeps the types.
LEMMA DataTypes ==
  ASSUME Data!BoundsAssumption, Data!TypeOK, Data!Keyed, [Data!Next]_(Data!vars)
  PROVE  Data!TypeOK'
<1> USE DEF Data!TypeOK
<1>0. /\ v1 \in [X -> Data!Version] /\ v5 \in [Y -> Data!Call]
      /\ v2 \in [X -> [version : Data!Version, day : 0 .. DataDays]]
      /\ v3 \in X \cup {"none"} /\ v4 \in Data!Value \cup {Data!Nothing}
      /\ v8 \in Data!Version /\ v7 \in 1 .. DataDays /\ v9 \in BOOLEAN /\ v6 \in BOOLEAN
  OBVIOUS
<1>c. ASSUME NEW c \in Y, c \in Data!InFlight
      PROVE  /\ v5[c].key \in X /\ v5[c] \in Data!Call
             /\ v1[v5[c].key] \in Data!Version /\ v2[v5[c].key].version \in Data!Version
  BY <1>0, <1>c DEF Data!Keyed
<1>1. ASSUME NEW c \in Y, NEW k \in X, NEW a \in BOOLEAN, Data!Load(c, k, a) PROVE Data!TypeOK'
  <2>1. \A p \in {"due", "over"} :
          [Data!Idle EXCEPT !.key = k, !.net = "asked", !.read = p] \in Data!Call
    BY DataIdle DEF Data!Call
  <2>2. v5' \in [Y -> Data!Call]
    BY <1>0, <1>1, <2>1 DEF Data!Load, Data!Set
  <2>3. v4' \in Data!Value \cup {Data!Nothing} /\ v8' \in Data!Version /\ v9' \in BOOLEAN /\ v3' = k
    BY <1>0, <1>1, DataIdle DEF Data!Load
  <2> QED BY <1>0, <1>1, <2>2, <2>3 DEF Data!Load
<1>2. ASSUME NEW c \in Y, Data!ReadEntry(c) PROVE Data!TypeOK'
  <2>1. c \in Data!InFlight
    BY <1>2 DEF Data!ReadEntry, Data!InFlight
  <2>3. PICK q \in Data!Call : v5' = [v5 EXCEPT ![c] = q]
    <3>1. \A n \in Data!Version :
            /\ [v5[c] EXCEPT !.read = "ready", !.cached = n] \in Data!Call
            /\ [v5[c] EXCEPT !.read = "over"] \in Data!Call
      BY <1>c, <2>1 DEF Data!Call
    <3> QED BY <1>2, <1>c, <2>1, <3>1 DEF Data!ReadEntry, Data!Set
  <2>2. v5' \in [Y -> Data!Call]
    BY <1>0, <2>3
  <2> QED BY <1>0, <1>2, <2>2 DEF Data!ReadEntry
<1>3. ASSUME NEW k \in X, NEW n \in Data!Version, Data!Show(k, n)
      PROVE  v4' \in Data!Value \cup {Data!Nothing} /\ v8' \in Data!Version
  BY <1>0, <1>3 DEF Data!Show, Data!Value
<1>4. ASSUME NEW c \in Y, Data!ShowCached(c) PROVE Data!TypeOK'
  <2>1. c \in Data!InFlight
    BY <1>4 DEF Data!ShowCached, Data!InFlight
  <2>2. v5' \in [Y -> Data!Call] /\ v5[c].key \in X /\ v5[c].cached \in Data!Version
    BY <1>0, <1>4, <1>c, <2>1 DEF Data!ShowCached, Data!Set, Data!Call
  <2> QED BY <1>0, <1>3, <1>4, <2>2 DEF Data!ShowCached
<1>5. ASSUME NEW c \in Y, Data!Serve(c) PROVE Data!TypeOK'
  <2>1. c \in Data!InFlight
    BY <1>5 DEF Data!Serve, Data!InFlight
  <2>2. v5' \in [Y -> Data!Call]
    BY <1>0, <1>5, <1>c, <2>1 DEF Data!Serve, Data!Set, Data!Call
  <2> QED BY <1>0, <1>5, <2>2 DEF Data!Serve
<1>6. ASSUME NEW c \in Y, Data!Arrive(c) \/ Data!Fails(c) PROVE Data!TypeOK'
  <2>3. PICK q \in Data!Call : v5' = [v5 EXCEPT ![c] = q]
    <3>1. /\ [v5[c] EXCEPT !.net = "ready", !.gotFresh = TRUE] \in Data!Call
          /\ [v5[c] EXCEPT !.net = "over"] \in Data!Call
      BY <1>0 DEF Data!Call
    <3> QED BY <1>6, <3>1 DEF Data!Arrive, Data!Fails, Data!Set
  <2>1. v5' \in [Y -> Data!Call]
    BY <1>0, <2>3
  <2> QED BY <1>0, <1>6, <2>1 DEF Data!Arrive, Data!Fails
<1>7. ASSUME NEW c \in Y, Data!ShowFresh(c) PROVE Data!TypeOK'
  <2>1. c \in Data!InFlight
    BY <1>7 DEF Data!ShowFresh, Data!InFlight
  <2>2. v5' \in [Y -> Data!Call] /\ v5[c].key \in X /\ v5[c].fresh \in Data!Version
    BY <1>0, <1>7, <1>c, <2>1 DEF Data!ShowFresh, Data!Set, Data!Call
  <2> QED BY <1>0, <1>3, <1>7, <2>2 DEF Data!ShowFresh
<1>8. ASSUME NEW c \in Y, Data!WriteEntry(c) PROVE Data!TypeOK'
  <2>1. v5' \in [Y -> Data!Call] /\ v5[c].fresh \in Data!Version
    BY <1>0, <1>8 DEF Data!WriteEntry, Data!Set, Data!Call
  <2>2. [version |-> v5[c].fresh, day |-> v7] \in [version : Data!Version, day : 0 .. DataDays]
    BY <1>0, <2>1
  <2>3. v2' \in [X -> [version : Data!Version, day : 0 .. DataDays]]
    BY <1>0, <1>8, <2>2 DEF Data!WriteEntry
  <2> QED BY <1>0, <1>8, <2>1, <2>3 DEF Data!WriteEntry
<1>9. ASSUME NEW c \in Y, Data!WriteFails(c) PROVE Data!TypeOK'
  <2>1. v5' \in [Y -> Data!Call]
    BY <1>0, <1>9 DEF Data!WriteFails, Data!Set, Data!Call
  <2> QED BY <1>0, <1>9, <2>1 DEF Data!WriteFails
<1>10. ASSUME NEW k \in X, Data!Change(k) PROVE Data!TypeOK'
  BY <1>0, <1>10, BoundsAreNumbers DEF Data!Change, Data!Version
<1>11. CASE Data!Sweep \/ Data!ClearData
  <2>1. Data!NoEntry \in [version : Data!Version, day : 0 .. DataDays]
    BY DataIdle, BoundsAreNumbers DEF Data!NoEntry
  <2>2. v2' \in [X -> [version : Data!Version, day : 0 .. DataDays]]
    BY <1>0, <1>11, <2>1 DEF Data!Sweep, Data!ClearData
  <2>3. v6' \in BOOLEAN
    BY <1>0, <1>11 DEF Data!Sweep, Data!ClearData
  <2> QED BY <1>0, <1>11, <2>2, <2>3 DEF Data!Sweep, Data!ClearData
<1>15. CASE Data!ClearFails
  BY <1>0, <1>15 DEF Data!ClearFails
<1>12. CASE Data!LogOut
  <2>1. v3' = "none" /\ v4' = Data!Nothing /\ v8' = 0 /\ v6' = TRUE /\ v9' \in BOOLEAN
    BY <1>0, <1>12 DEF Data!LogOut
  <2>2. v1' = v1 /\ v2' = v2 /\ v5' = v5 /\ v7' = v7
    BY <1>12 DEF Data!LogOut
  <2> QED BY <1>0, <2>1, <2>2, DataIdle
<1>13. CASE Data!NewDay
  BY <1>0, <1>13, BoundsAreNumbers DEF Data!NewDay
<1>14. CASE UNCHANGED Data!vars
  BY <1>0, <1>14 DEF Data!vars
<1> QED BY <1>1, <1>2, <1>4, <1>5, <1>6, <1>7, <1>8, <1>9, <1>10, <1>11, <1>12, <1>13, <1>14,
  <1>15 DEF Data!Next

\* What Ordered and Kept say of one load, when new is the newest version shown,
\* srv the server's and old what is saved.
Fine(q, new, srv, old) ==
  /\ q.read = "ready" => q.cached <= srv
  /\ q.read = "ready" /\ ~q.gotFresh =>
       new <= q.cached /\ (old.day # 0 => q.cached <= old.version)
  /\ q.net \in {"ready", "write"} => q.gotFresh
  /\ q.net \in {"served", "ready", "write"} =>
       /\ new <= q.fresh /\ q.fresh <= srv /\ old.version <= q.fresh
       /\ q.read = "ready" => q.cached <= q.fresh

\* A load in flight is the only one, for the key on the screen, and is fine.
LEMMA DataSolo ==
  ASSUME Data!TypeOK, Data!InOrder, ~v9, NEW c \in Y, c \in Data!InFlight
  PROVE  /\ v3 \in X /\ ~v6 /\ v5[c].key = v3 /\ v5[c] \in Data!Call
         /\ Data!InFlight = {c}
         /\ Fine(v5[c], v8, v1[v3], v2[v3])
         /\ \A k \in X : v2[k].version <= v1[k]
         /\ v8 <= v1[v3]
         /\ v2[v3].day # 0 /\ v5[c].net # "write" => v8 <= v2[v3].version
         /\ v4 # Data!Nothing => v4.key = v3 /\ v4.version >= v8
         /\ v1[v3] \in Nat /\ v2[v3].version \in Nat /\ v8 \in Nat
<1>1. Data!Alone /\ Data!Ordered /\ Data!Kept /\ Data!ShownIsRight
  BY DEF Data!InOrder
<1>2. v3 # "none" /\ ~v6 /\ v5[c].key = v3 /\ Data!InFlight = {c}
  BY <1>1 DEF Data!Alone
<1>3. v3 \in X /\ v5[c] \in Data!Call
  BY <1>2 DEF Data!TypeOK
<1>4. v1[v3] \in Nat /\ v2[v3].version \in Nat /\ v8 \in Nat
  BY <1>3 DEF Data!TypeOK, Data!Version
<1>5. /\ v5[c].read = "ready" => v5[c].cached <= v1[v3]
      /\ v5[c].net \in {"served", "ready", "write"} =>
           /\ v8 <= v5[c].fresh /\ v5[c].fresh <= v1[v3] /\ v2[v3].version <= v5[c].fresh
           /\ v5[c].read = "ready" => v5[c].cached <= v5[c].fresh
      /\ \A k \in X : v2[k].version <= v1[k]
      /\ v8 <= v1[v3]
  BY <1>1, <1>2 DEF Data!Ordered
<1>6. /\ v5[c].net \in {"ready", "write"} => v5[c].gotFresh
      /\ v5[c].read = "ready" /\ ~v5[c].gotFresh =>
           v8 <= v5[c].cached /\ (v2[v3].day # 0 => v5[c].cached <= v2[v3].version)
      /\ v2[v3].day # 0 /\ v5[c].net # "write" => v8 <= v2[v3].version
  BY <1>1, <1>2 DEF Data!Kept
<1> QED BY <1>1, <1>2, <1>3, <1>4, <1>5, <1>6 DEF Fine, Data!ShownIsRight

\* A step of the load in flight keeps the order if it leaves the load fine and
\* the screen and the entry no older than they were.
LEMMA DataSoloStep ==
  ASSUME Data!TypeOK, Data!InOrder, ~v9, NEW c \in Y, c \in Data!InFlight,
         NEW q \in Data!Call, v5' = [v5 EXCEPT ![c] = q], q.key = v5[c].key,
         v3' = v3, v6' = v6, v1' = v1, v9' = v9,
         Fine(q, v8', v1[v3], v2'[v3]),
         \A k \in X : v2'[k].version <= v1[k],
         v8' <= v1[v3],
         v2'[v3].day # 0 /\ q.net # "write" => v8' <= v2'[v3].version,
         v4' # Data!Nothing => v4'.key = v3 /\ v4'.version >= v8'
  PROVE  Data!InOrder'
<1>1. v3 \in X /\ ~v6 /\ v5[c].key = v3 /\ Data!InFlight = {c}
  BY DataSolo
<1>2. v5'[c] = q /\ \A d \in Y \ {c} : v5'[d] = v5[d]
  BY DEF Data!TypeOK
<1>3. Data!InFlight' \subseteq {c} /\ (q.net = "write" => c \in Data!InFlight')
  BY <1>1, <1>2 DEF Data!InFlight
<1>4. Data!Alone /\ v3 # "none"
  BY <1>1 DEF Data!InOrder, Data!Alone
<1>5. Data!Keyed' /\ Data!Alone'
  BY <1>1, <1>2, <1>3, <1>4 DEF Data!Keyed, Data!Alone
<1>6. Data!Ordered'
  BY <1>2, <1>3 DEF Data!Ordered, Fine
<1>7. Data!Kept'
  BY <1>2, <1>3 DEF Data!Kept, Fine
<1>8. Data!ShownIsRight'
  BY <1>4 DEF Data!ShownIsRight, Data!Nothing
<1> QED BY <1>5, <1>6, <1>7, <1>8 DEF Data!InOrder


\* Whatever excuses the screen excuses it for good, and every load keeps its key.
LEMMA DataExcused ==
  ASSUME Data!BoundsAssumption, Data!TypeOK, Data!InOrder, [Data!Next]_(Data!vars)
  PROVE  Data!Keyed' /\ (v9 => v9')
<1>0. Data!Keyed /\ v5 \in [Y -> Data!Call] /\ v9 \in BOOLEAN
  BY DEF Data!InOrder, Data!TypeOK
<1>1. ASSUME NEW c \in Y, NEW q, v5' = [v5 EXCEPT ![c] = q],
             q.key \in X \/ (c \in Data!InFlight /\ q.key = v5[c].key)
      PROVE  Data!Keyed'
  <2>1. v5'[c] = q /\ \A d \in Y \ {c} : v5'[d] = v5[d]
    BY <1>0, <1>1
  <2>2. Data!InFlight' \subseteq Data!InFlight \cup {c}
    BY <2>1 DEF Data!InFlight
  <2> QED BY <1>0, <1>1, <2>1, <2>2 DEF Data!Keyed
<1>2. ASSUME NEW c \in Y, NEW k \in X, NEW a \in BOOLEAN, Data!Load(c, k, a)
      PROVE  Data!Keyed' /\ (v9 => v9')
  <2>1. PICK p : v5' = [v5 EXCEPT ![c] = [Data!Idle EXCEPT !.key = k, !.net = "asked", !.read = p]]
    BY <1>2 DEF Data!Load, Data!Set
  <2>2. [Data!Idle EXCEPT !.key = k, !.net = "asked", !.read = p].key = k
    BY DEF Data!Idle
  <2> QED BY <1>1, <1>2, <2>1, <2>2 DEF Data!Load
<1>3. ASSUME NEW c \in Y,
             \/ Data!ReadEntry(c) \/ Data!ShowCached(c) \/ Data!Serve(c) \/ Data!Arrive(c)
             \/ Data!Fails(c) \/ Data!ShowFresh(c) \/ Data!WriteEntry(c) \/ Data!WriteFails(c)
      PROVE  Data!Keyed' /\ (v9 => v9')
  <2>1. c \in Data!InFlight
    BY <1>3 DEF Data!InFlight, Data!ReadEntry, Data!ShowCached, Data!Serve, Data!Arrive,
       Data!Fails, Data!ShowFresh, Data!WriteEntry, Data!WriteFails
  <2>2. v5[c] \in Data!Call
    BY <1>0
  <2>3. \A p, n : /\ [v5[c] EXCEPT !.read = p, !.cached = n].key = v5[c].key
                  /\ [v5[c] EXCEPT !.net = p, !.fresh = n].key = v5[c].key
                  /\ [v5[c] EXCEPT !.net = p, !.gotFresh = n].key = v5[c].key
                  /\ [v5[c] EXCEPT !.read = p].key = v5[c].key
                  /\ [v5[c] EXCEPT !.net = p].key = v5[c].key
    BY <2>2 DEF Data!Call
  <2> DEFINE Kept(q) == v5' = [v5 EXCEPT ![c] = q] /\ q.key = v5[c].key
  <2>4. PICK q : Kept(q)
    <3>1. ASSUME Data!ReadEntry(c) PROVE \E q : Kept(q)
      <4>1. \/ Kept([v5[c] EXCEPT !.read = "ready", !.cached = v2[v5[c].key].version])
            \/ Kept([v5[c] EXCEPT !.read = "over"])
        BY <2>3, <3>1 DEF Data!Set, Data!ReadEntry
      <4> QED BY <4>1
    <3>2. ASSUME Data!ShowCached(c) PROVE \E q : Kept(q)
      <4>1. Kept([v5[c] EXCEPT !.read = "over"])
        BY <2>3, <3>2 DEF Data!Set, Data!ShowCached
      <4> QED BY <4>1
    <3>3. ASSUME Data!Serve(c) PROVE \E q : Kept(q)
      <4>1. Kept([v5[c] EXCEPT !.net = "served", !.fresh = v1[v5[c].key]])
        BY <2>3, <3>3 DEF Data!Set, Data!Serve
      <4> QED BY <4>1
    <3>4. ASSUME Data!Arrive(c) PROVE \E q : Kept(q)
      <4>1. Kept([v5[c] EXCEPT !.net = "ready", !.gotFresh = TRUE])
        BY <2>3, <3>4 DEF Data!Set, Data!Arrive
      <4> QED BY <4>1
    <3>5. ASSUME Data!Fails(c) \/ Data!WriteEntry(c) \/ Data!WriteFails(c)
          PROVE  \E q : Kept(q)
      <4>1. Kept([v5[c] EXCEPT !.net = "over"])
        BY <2>3, <3>5 DEF Data!Set, Data!Fails, Data!WriteEntry, Data!WriteFails
      <4> QED BY <4>1
    <3>6. ASSUME Data!ShowFresh(c) PROVE \E q : Kept(q)
      <4>1. Kept([v5[c] EXCEPT !.net = "write"])
        BY <2>3, <3>6 DEF Data!Set, Data!ShowFresh
      <4> QED BY <4>1
    <3> QED BY <1>3, <3>1, <3>2, <3>3, <3>4, <3>5, <3>6
  <2>5. v9 => v9'
    BY <1>3 DEF Data!ReadEntry, Data!ShowCached, Data!Serve, Data!Arrive,
       Data!Fails, Data!ShowFresh, Data!WriteEntry, Data!WriteFails
  <2> QED BY <1>1, <2>1, <2>4, <2>5
<1>4. ASSUME v5' = v5 PROVE Data!Keyed'
  BY <1>0, <1>4 DEF Data!Keyed, Data!InFlight
<1>5. CASE Data!Sweep \/ Data!ClearData \/ Data!NewDay \/ UNCHANGED Data!vars
           \/ \E k \in X : Data!Change(k)
  <2>1. v5' = v5 /\ v9' = v9
    BY <1>5 DEF Data!Sweep, Data!ClearData, Data!NewDay, Data!vars, Data!Change
  <2> QED BY <1>4, <2>1
<1>6. CASE Data!LogOut
  <2>1. v5' = v5 /\ (v9 => v9')
    BY <1>6 DEF Data!LogOut
  <2> QED BY <1>4, <2>1
<1>7. CASE Data!ClearFails
  <2>1. v5' = v5 /\ v9'
    BY <1>7 DEF Data!ClearFails
  <2> QED BY <1>4, <2>1
<1> QED BY <1>2, <1>3, <1>5, <1>6, <1>7 DEF Data!Next

\* Every step keeps the lists in order.
LEMMA DataKeeps ==
  ASSUME Data!BoundsAssumption, Data!TypeOK, Data!InOrder, [Data!Next]_(Data!vars)
  PROVE  Data!InOrder'
<1>1. CASE v9'
  BY <1>1, DataExcused DEF Data!InOrder, Data!ShownIsRight
<1> SUFFICES ASSUME ~v9' PROVE Data!InOrder'
  BY <1>1
<1>2. /\ ~v9 /\ Data!Keyed /\ Data!Alone /\ Data!Ordered /\ Data!Kept /\ Data!ShownIsRight
      /\ Data!Keyed'
  BY DataExcused DEF Data!InOrder
<1>3. /\ v1 \in [X -> Data!Version] /\ v5 \in [Y -> Data!Call] /\ v8 \in Nat
      /\ v2 \in [X -> [version : Data!Version, day : 0 .. DataDays]] /\ Data!Version \subseteq Nat
      /\ "none" \notin X /\ v3 \in X \cup {"none"}
      /\ \A k \in X : v1[k] \in Nat
  BY DataIdle DEF Data!TypeOK, Data!BoundsAssumption
<1>4. ASSUME NEW c \in Y, NEW k \in X, NEW a \in BOOLEAN, Data!Load(c, k, a) PROVE Data!InOrder'
  <2>1. /\ v3' = k /\ v4' = (IF k = v3 THEN v4 ELSE Data!Nothing)
        /\ v8' = (IF k = v3 THEN v8 ELSE 0) /\ Data!InFlight = {} /\ ~v6
        /\ v1' = v1 /\ v2' = v2 /\ v6' = v6
    BY <1>2, <1>4 DEF Data!Load
  <2>2. PICK p : v5' = [v5 EXCEPT ![c] = [Data!Idle EXCEPT !.key = k, !.net = "asked", !.read = p]]
                 /\ p \in {"due", "over"}
    BY <1>4 DEF Data!Load, Data!Set
  <2> DEFINE q == [Data!Idle EXCEPT !.key = k, !.net = "asked", !.read = p]
  <2>3. q.key = k /\ q.net = "asked" /\ q.read # "ready"
    BY <2>2 DEF Data!Idle
  <2> HIDE DEF q
  <2>4. v5'[c] = q /\ \A d \in Y \ {c} : v5'[d] = v5[d]
    BY <1>3, <2>2 DEF q
  <2>5. Data!InFlight' = {c}
    BY <2>1, <2>3, <2>4 DEF Data!InFlight
  <2>6. Data!Alone'
    BY <1>3, <2>1, <2>3, <2>4, <2>5 DEF Data!Alone
  <2>7. v8' <= v1[k] /\ v1[k] \in Nat /\ (v2[k].day # 0 => v8' <= v2[k].version)
    <3>1. v1[k] \in Nat /\ v2[k].version \in Nat /\ k # "none"
      BY <1>3
    <3>2. CASE k # v3
      BY <2>1, <3>1, <3>2
    <3>3. CASE k = v3
      BY <1>2, <2>1, <3>1, <3>3 DEF Data!Ordered, Data!Kept
    <3> QED BY <3>2, <3>3
  <2>8. Data!Ordered'
    BY <1>2, <2>1, <2>3, <2>4, <2>5, <2>7 DEF Data!Ordered
  <2>9. Data!Kept'
    BY <2>1, <2>3, <2>4, <2>5, <2>7 DEF Data!Kept
  <2>10. Data!ShownIsRight'
    BY <1>2, <1>3, <2>1 DEF Data!ShownIsRight
  <2> QED BY <1>2, <2>6, <2>8, <2>9, <2>10 DEF Data!InOrder
<1>5. ASSUME NEW c \in Y, Data!ReadEntry(c) PROVE Data!InOrder'
  <2>1. c \in Data!InFlight
    BY <1>5 DEF Data!ReadEntry, Data!InFlight
  <2> DEFINE old == [v5[c] EXCEPT !.read = "ready", !.cached = v2[v3].version]
             none == [v5[c] EXCEPT !.read = "over"]
  <2>2. /\ old \in Data!Call /\ old.key = v5[c].key /\ old.read = "ready" /\ old.net = v5[c].net
        /\ old.cached = v2[v3].version /\ old.gotFresh = v5[c].gotFresh
        /\ old.fresh = v5[c].fresh
        /\ none \in Data!Call /\ none.key = v5[c].key /\ none.read = "over"
        /\ none.net = v5[c].net /\ none.gotFresh = v5[c].gotFresh /\ none.fresh = v5[c].fresh
    BY <1>2, <1>3, <2>1, DataSolo DEF Data!Call
  <2>3. \/ v5' = [v5 EXCEPT ![c] = old] /\ v2[v3].day # 0 /\ ~v5[c].gotFresh
        \/ v5' = [v5 EXCEPT ![c] = none]
    BY <1>2, <1>5, <2>1, DataSolo DEF Data!ReadEntry, Data!Set, Data!Usable
  <2> HIDE DEF old, none
  <2>4. /\ v1' = v1 /\ v2' = v2 /\ v3' = v3 /\ v4' = v4 /\ v6' = v6 /\ v8' = v8 /\ v9' = v9
    BY <1>5 DEF Data!ReadEntry
  <2>5. Fine(none, v8, v1[v3], v2[v3])
    BY <1>2, <2>1, <2>2, DataSolo DEF Fine
  <2>6. v2[v3].day # 0 /\ ~v5[c].gotFresh => Fine(old, v8, v1[v3], v2[v3])
    BY <1>2, <2>1, <2>2, DataSolo DEF Fine
  <2>7. PICK q \in {old, none} : /\ v5' = [v5 EXCEPT ![c] = q] /\ q \in Data!Call
                                 /\ q.key = v5[c].key /\ q.net = v5[c].net
                                 /\ Fine(q, v8, v1[v3], v2[v3])
    BY <2>2, <2>3, <2>5, <2>6
  <2>8. Fine(q, v8', v1[v3], v2'[v3])
    BY <2>4, <2>7
  <2> QED BY <1>2, <2>1, <2>4, <2>7, <2>8, DataSolo, DataSoloStep

<1>6. ASSUME NEW c \in Y, Data!ShowCached(c) PROVE Data!InOrder'
  <2> DEFINE q == [v5[c] EXCEPT !.read = "over"]
  <2>1. c \in Data!InFlight
    BY <1>6 DEF Data!ShowCached, Data!InFlight
  <2>2. /\ q \in Data!Call /\ q.key = v5[c].key /\ q.read = "over" /\ q.net = v5[c].net
        /\ q.gotFresh = v5[c].gotFresh /\ q.fresh = v5[c].fresh /\ v5[c].cached \in Nat
    BY <1>2, <1>3, <2>1, DataSolo DEF Data!Call
  <2>3. v5' = [v5 EXCEPT ![c] = q] /\ v5[c].read = "ready"
    BY <1>6 DEF Data!ShowCached, Data!Set
  <2> HIDE DEF q
  <2>4. v1' = v1 /\ v2' = v2 /\ v3' = v3 /\ v6' = v6 /\ v9' = v9
    BY <1>6 DEF Data!ShowCached
  <2>5. CASE v5[c].gotFresh
    <3>1. v4' = v4 /\ v8' = v8
      BY <1>6, <2>5 DEF Data!ShowCached
    <3>2. Fine(q, v8', v1[v3], v2'[v3])
      BY <1>2, <2>1, <2>2, <2>4, <3>1, DataSolo DEF Fine
    <3> QED BY <1>2, <2>1, <2>2, <2>3, <2>4, <3>1, <3>2, DataSolo, DataSoloStep
  <2>6. CASE ~v5[c].gotFresh
    <3>1. v4' = [key |-> v3, version |-> v5[c].cached] /\ v8' = v5[c].cached
      BY <1>2, <1>6, <2>1, <2>2, <2>3, <2>6, DataSolo DEF Data!ShowCached, Data!Show, Fine
    <3>2. Fine(q, v8', v1[v3], v2'[v3])
      BY <1>2, <2>1, <2>2, <2>3, <2>4, <2>6, <3>1, DataSolo DEF Fine
    <3>3. v8' <= v1[v3] /\ (v2[v3].day # 0 => v8' <= v2[v3].version)
      BY <1>2, <2>1, <2>3, <2>6, <3>1, DataSolo DEF Fine
    <3>4. v4'.key = v3 /\ v4'.version >= v8'
      BY <2>2, <3>1
    <3> QED BY <1>2, <2>1, <2>2, <2>3, <2>4, <3>2, <3>3, <3>4, DataSolo, DataSoloStep
  <2> QED BY <2>5, <2>6
<1>7. ASSUME NEW c \in Y, Data!Serve(c) PROVE Data!InOrder'
  <2> DEFINE q == [v5[c] EXCEPT !.net = "served", !.fresh = v1[v5[c].key]]
  <2>1. c \in Data!InFlight
    BY <1>7 DEF Data!Serve, Data!InFlight
  <2>2. /\ q \in Data!Call /\ q.key = v5[c].key /\ q.read = v5[c].read /\ q.net = "served"
        /\ q.gotFresh = v5[c].gotFresh /\ q.fresh = v1[v3] /\ q.cached = v5[c].cached
    BY <1>2, <1>3, <2>1, DataSolo DEF Data!Call
  <2>3. v5' = [v5 EXCEPT ![c] = q] /\ v5[c].net = "asked"
    BY <1>7 DEF Data!Serve, Data!Set
  <2> HIDE DEF q
  <2>4. v1' = v1 /\ v2' = v2 /\ v3' = v3 /\ v4' = v4 /\ v6' = v6 /\ v8' = v8 /\ v9' = v9
    BY <1>7 DEF Data!Serve
  <2>5. Fine(q, v8', v1[v3], v2'[v3])
    BY <1>2, <2>1, <2>2, <2>4, DataSolo DEF Fine
  <2> QED BY <1>2, <2>1, <2>2, <2>3, <2>4, <2>5, DataSolo, DataSoloStep
<1>8. ASSUME NEW c \in Y, Data!Arrive(c) PROVE Data!InOrder'
  <2> DEFINE q == [v5[c] EXCEPT !.net = "ready", !.gotFresh = TRUE]
  <2>1. c \in Data!InFlight
    BY <1>8 DEF Data!Arrive, Data!InFlight
  <2>2. /\ q \in Data!Call /\ q.key = v5[c].key /\ q.read = v5[c].read /\ q.net = "ready"
        /\ q.gotFresh /\ q.fresh = v5[c].fresh /\ q.cached = v5[c].cached
    BY <1>2, <1>3, <2>1, DataSolo DEF Data!Call
  <2>3. v5' = [v5 EXCEPT ![c] = q] /\ v5[c].net = "served"
    BY <1>8 DEF Data!Arrive, Data!Set
  <2> HIDE DEF q
  <2>4. v1' = v1 /\ v2' = v2 /\ v3' = v3 /\ v4' = v4 /\ v6' = v6 /\ v8' = v8 /\ v9' = v9
    BY <1>8 DEF Data!Arrive
  <2>5. Fine(q, v8', v1[v3], v2'[v3])
    BY <1>2, <2>1, <2>2, <2>3, <2>4, DataSolo DEF Fine
  <2> QED BY <1>2, <2>1, <2>2, <2>3, <2>4, <2>5, DataSolo, DataSoloStep
<1>9. ASSUME NEW c \in Y, Data!Fails(c) PROVE Data!InOrder'
  <2> DEFINE q == [v5[c] EXCEPT !.net = "over"]
  <2>1. c \in Data!InFlight
    BY <1>9 DEF Data!Fails, Data!InFlight
  <2>2. /\ q \in Data!Call /\ q.key = v5[c].key /\ q.read = v5[c].read /\ q.net = "over"
        /\ q.gotFresh = v5[c].gotFresh /\ q.cached = v5[c].cached
    BY <1>2, <1>3, <2>1, DataSolo DEF Data!Call
  <2>3. v5' = [v5 EXCEPT ![c] = q] /\ v5[c].net # "write"
    BY <1>9 DEF Data!Fails, Data!Set
  <2> HIDE DEF q
  <2>4. v1' = v1 /\ v2' = v2 /\ v3' = v3 /\ v4' = v4 /\ v6' = v6 /\ v8' = v8 /\ v9' = v9
    BY <1>9 DEF Data!Fails
  <2>5. Fine(q, v8', v1[v3], v2'[v3])
    BY <1>2, <2>1, <2>2, <2>4, DataSolo DEF Fine
  <2> QED BY <1>2, <2>1, <2>2, <2>3, <2>4, <2>5, DataSolo, DataSoloStep
<1>10. ASSUME NEW c \in Y, Data!ShowFresh(c) PROVE Data!InOrder'
  <2> DEFINE q == [v5[c] EXCEPT !.net = "write"]
  <2>1. c \in Data!InFlight
    BY <1>10 DEF Data!ShowFresh, Data!InFlight
  <2>2. /\ q \in Data!Call /\ q.key = v5[c].key /\ q.read = v5[c].read /\ q.net = "write"
        /\ q.gotFresh = v5[c].gotFresh /\ q.cached = v5[c].cached /\ q.fresh = v5[c].fresh
        /\ v5[c].fresh \in Nat
    BY <1>2, <1>3, <2>1, DataSolo DEF Data!Call
  <2>3. v5' = [v5 EXCEPT ![c] = q] /\ v5[c].net = "ready"
    BY <1>10 DEF Data!ShowFresh, Data!Set
  <2> HIDE DEF q
  <2>4. v1' = v1 /\ v2' = v2 /\ v3' = v3 /\ v6' = v6 /\ v9' = v9
    BY <1>10 DEF Data!ShowFresh
  <2>5. v4' = [key |-> v3, version |-> v5[c].fresh] /\ v8' = v5[c].fresh
    BY <1>2, <1>10, <2>1, <2>2, <2>3, DataSolo DEF Data!ShowFresh, Data!Show, Fine
  <2>6. Fine(q, v8', v1[v3], v2'[v3])
    BY <1>2, <2>1, <2>2, <2>3, <2>4, <2>5, DataSolo DEF Fine
  <2>7. v8' <= v1[v3]
    BY <1>2, <2>1, <2>3, <2>5, DataSolo DEF Fine
  <2>8. v4'.key = v3 /\ v4'.version >= v8'
    BY <2>2, <2>5
  <2> QED BY <1>2, <2>1, <2>2, <2>3, <2>4, <2>6, <2>7, <2>8, DataSolo, DataSoloStep
<1>11. ASSUME NEW c \in Y, Data!WriteEntry(c) PROVE Data!InOrder'
  <2> DEFINE q == [v5[c] EXCEPT !.net = "over"]
  <2>1. c \in Data!InFlight
    BY <1>11 DEF Data!WriteEntry, Data!InFlight
  <2>2. /\ q \in Data!Call /\ q.key = v5[c].key /\ q.read = v5[c].read /\ q.net = "over"
        /\ q.gotFresh = v5[c].gotFresh /\ q.cached = v5[c].cached
    BY <1>2, <1>3, <2>1, DataSolo DEF Data!Call
  <2>3. v5' = [v5 EXCEPT ![c] = q] /\ v5[c].net = "write"
    BY <1>11 DEF Data!WriteEntry, Data!Set
  <2> HIDE DEF q
  <2>4. v1' = v1 /\ v3' = v3 /\ v4' = v4 /\ v6' = v6 /\ v8' = v8 /\ v9' = v9
    BY <1>11 DEF Data!WriteEntry
  <2>5. v2' = [v2 EXCEPT ![v3] = [version |-> v5[c].fresh, day |-> v7]]
    BY <1>2, <1>11, <2>1, DataSolo DEF Data!WriteEntry
  <2>6. v2'[v3].version = v5[c].fresh /\ \A k \in X \ {v3} : v2'[k] = v2[k]
    BY <1>2, <1>3, <2>1, <2>5, DataSolo
  <2>7. Fine(q, v8', v1[v3], v2'[v3])
    BY <1>2, <2>1, <2>2, <2>3, <2>4, <2>6, DataSolo DEF Fine
  <2>8. v8' <= v2'[v3].version /\ \A k \in X : v2'[k].version <= v1[k]
    BY <1>2, <2>1, <2>3, <2>4, <2>6, DataSolo DEF Fine
  <2> QED BY <1>2, <2>1, <2>2, <2>3, <2>4, <2>7, <2>8, DataSolo, DataSoloStep
<1>12. ASSUME NEW c \in Y, Data!WriteFails(c) PROVE Data!InOrder'
  BY <1>12 DEF Data!WriteFails
<1>13. CASE \/ Data!Sweep \/ Data!NewDay \/ UNCHANGED Data!vars
            \/ \E k \in X : Data!Change(k)
  <2>1. /\ v3' = v3 /\ v4' = v4 /\ v5' = v5 /\ v6' = v6 /\ v8' = v8 /\ v9' = v9
        /\ Data!InFlight' = Data!InFlight
    BY <1>13 DEF Data!Sweep, Data!NewDay, Data!vars, Data!Change, Data!InFlight
  <2>2. \A k \in X : v1[k] \in Nat /\ v1'[k] \in Nat /\ v1[k] <= v1'[k]
    <3>1. CASE v1' = v1
      BY <1>3, <3>1
    <3>2. ASSUME NEW k \in X, Data!Change(k) PROVE \A d \in X : v1'[d] \in Nat /\ v1[d] <= v1'[d]
      <4>1. v1' = [v1 EXCEPT ![k] = v1[k] + 1]
        BY <3>2 DEF Data!Change
      <4>2. \A d \in X : v1'[d] = IF d = k THEN v1[k] + 1 ELSE v1[d]
        BY <1>3, <4>1
      <4>3. \A d \in X : v1[d] \in Nat
        BY <1>3
      <4> QED BY <4>2, <4>3
    <3> QED BY <1>3, <1>13, <3>1, <3>2 DEF Data!Sweep, Data!NewDay, Data!vars
  <2>3. \A k \in X : v2'[k] = v2[k] \/ v2'[k] = Data!NoEntry
    BY <1>3, <1>13 DEF Data!Sweep, Data!NewDay, Data!vars, Data!Change
  <2>4. Data!NoEntry.version = 0 /\ Data!NoEntry.day = 0
    BY DEF Data!NoEntry
  <2>5. \A k \in X : v2[k].version \in Nat
    BY <1>3
  <2>6. ASSUME NEW c \in Data!InFlight
        PROVE  v3 \in X /\ Fine(v5[c], v8, v1'[v3], v2'[v3])
    <3>1. v3 \in X /\ Fine(v5[c], v8, v1[v3], v2[v3])
      BY <1>2, <2>6, DataSolo DEF Data!InFlight
    <3>2. v5[c].cached \in Nat /\ v5[c].fresh \in Nat
      BY <1>3, <2>6 DEF Data!InFlight, Data!Call
    <3> QED BY <2>2, <2>3, <2>4, <2>5, <3>1, <3>2 DEF Fine
  <2>7. Data!Alone'
    BY <1>2, <2>1 DEF Data!Alone
  <2>8. \A k \in X : v2'[k].version <= v1'[k]
    BY <1>2, <2>2, <2>3, <2>4, <2>5 DEF Data!Ordered
  <2>9. v3 # "none" => v3 \in X /\ v8 <= v1'[v3]
    BY <1>2, <1>3, <2>2 DEF Data!Ordered
  <2>10. Data!Ordered'
    BY <2>1, <2>6, <2>8, <2>9 DEF Data!Ordered, Fine
  <2>11. v3 # "none" /\ v2'[v3].day # 0 => v2'[v3] = v2[v3]
    BY <1>3, <2>3, <2>4
  <2>12. Data!Kept'
    BY <1>2, <2>1, <2>6, <2>11 DEF Data!Kept, Fine
  <2>13. Data!ShownIsRight'
    BY <1>2, <2>1, <2>3 DEF Data!ShownIsRight
  <2> QED BY <1>2, <2>7, <2>10, <2>12, <2>13 DEF Data!InOrder
<1>14. CASE Data!LogOut
  <2>1. /\ v3' = "none" /\ v4' = Data!Nothing /\ v8' = 0 /\ v6' = TRUE
        /\ Data!InFlight = {} /\ v1' = v1 /\ v2' = v2 /\ v5' = v5
    BY <1>2, <1>14 DEF Data!LogOut
  <2>2. Data!InFlight' = {}
    BY <2>1 DEF Data!InFlight
  <2> QED BY <1>2, <2>1, <2>2 DEF Data!InOrder, Data!ShownIsRight, Data!Alone, Data!Ordered,
             Data!Kept
<1>16. CASE Data!ClearFails
  BY <1>16 DEF Data!ClearFails
<1>15. CASE Data!ClearData
  <2>1. /\ v6' = FALSE /\ v2' = [k \in X |-> Data!NoEntry] /\ v1' = v1 /\ v3' = v3
        /\ v4' = v4 /\ v5' = v5 /\ v8' = v8
    BY <1>15 DEF Data!ClearData
  <2>2. v3 = "none" /\ Data!InFlight = {}
    BY <1>2, <1>15 DEF Data!ClearData, Data!Alone
  <2>3. Data!InFlight' = {}
    BY <2>1, <2>2 DEF Data!InFlight
  <2>4. \A k \in X : v2'[k] = Data!NoEntry /\ v2'[k].version <= v1'[k]
    <3>1. \A k \in X : v2'[k] = Data!NoEntry /\ v2'[k].version = 0
      BY <2>1 DEF Data!NoEntry
    <3>2. \A k \in X : v1'[k] \in Nat
      BY <1>3, <2>1
    <3> QED BY <3>1, <3>2
  <2> QED BY <1>2, <2>1, <2>2, <2>3, <2>4 DEF Data!InOrder, Data!ShownIsRight, Data!Alone,
             Data!Ordered, Data!Kept
<1> QED BY <1>4, <1>5, <1>6, <1>7, <1>8, <1>9, <1>10, <1>11, <1>12, <1>13, <1>14, <1>15, <1>16
    DEF Data!Next

\* dataCache.ts: however many lists, loads and answers there are, and on whatever
\* day, a screen that loads once at a time, on a device that saves and clears as it
\* is told, shows what it is about and never goes back from an answer to an older
\* saved list, and a cleared device stays clear until the next load.
THEOREM ListsShownRight == Spec => []ShownIsRight
<1> DEFINE Inv == part = "data" => DataInv
<1>0. Data!BoundsAssumption
  BY PartsAssumption DEF PartsAssumption
<1>1. Init => Inv
  BY <1>0, DataStarts DEF Init
<1>2. Inv /\ [Next]_vars => Inv'
  <2> SUFFICES ASSUME Inv, [Next]_vars, part' = "data" PROVE DataInv'
    OBVIOUS
  <2>1. part = "data" /\ [Data!Next]_(Data!vars)
    BY DEF Next, Step, vars, Data!vars
  <2>2. Data!Keyed
    BY <2>1 DEF DataInv, Data!InOrder
  <2> QED BY <1>0, <2>1, <2>2, DataTypes, DataKeeps DEF DataInv
<1>3. Inv => ShownIsRight
  BY DEF DataInv, Data!InOrder, ShownIsRight
<1> QED BY <1>1, <1>2, <1>3, PTL DEF Spec


------------------------------------------------------------------------------
(* The conversation's composer (Composer): v1 is the chat on the screen, v2   *)
(* to v4 the chats of the menu, the quote and the finger, v10 the recorders,  *)
(* v12 recorderRef and v14 the excuse.                                        *)

Recorder == [pc : {"none", "asked", "live", "cancelled"}, chat : X \cup {None}]

\* Nothing on the screen is of another chat, one recorder at a time is asked for or
\* runs, and the one that runs is recorderRef.
Together ==
  /\ v10 \in [1 .. MaxPresses -> Recorder] /\ v12 \in 0 .. MaxPresses /\ v1 \in X
  /\ ~v14 =>
       /\ v2 \in {None, v1} /\ v3 \in {None, v1} /\ v4 \in {None, v1}
       /\ \A p \in 1 .. MaxPresses :
            /\ v10[p].pc \in {"live", "cancelled"} => v12 = p
            /\ v10[p].pc = "asked" => v12 = 0 /\ \A q \in 1 .. MaxPresses \ {p} : v10[q].pc = "none"

\* Every step of the composer keeps it together.
LEMMA FieldKeeps ==
  ASSUME None \notin X, Together, [Field!Next]_(Field!vars)
  PROVE  Together'
<1>0. v10 \in [1 .. MaxPresses -> Recorder] /\ v12 \in 0 .. MaxPresses /\ v1 \in X
  BY DEF Together
<1>1. ASSUME NEW c \in X, Field!OpenChat(c) PROVE Together'
  <2>1. /\ v1' = c /\ v3' = None /\ v2' = None /\ v4' = v4 /\ v10' = v10 /\ v12' = v12
        /\ v14' = (v14 \/ v4 # None)
    BY <1>1 DEF Field!OpenChat, Field!voice
  <2> QED BY <2>1 DEF Together
<1>2. CASE Field!Touch \/ Field!CancelLongPress \/ Field!LongPress \/ Field!CloseMenu
           \/ Field!Reply \/ Field!DropReply \/ Field!Forward
  BY <1>2 DEF Together, Field!Touch, Field!CancelLongPress, Field!LongPress, Field!CloseMenu,
     Field!Reply, Field!DropReply, Field!Forward, Field!voice
<1>3. ASSUME v1' = v1, v2' = v2, v3' \in {None, v3}, v4' = v4, v10' = v10, v12' = v12, v14' = v14
      PROVE  Together'
  BY <1>3 DEF Together
<1>4. CASE \/ Field!Forwarded \/ Field!CloseForward \/ Field!Type \/ Field!Send \/ Field!SendTaken
           \/ Field!SendRefused \/ \E c \in X : Field!Pick(c)
  BY <1>3, <1>4 DEF Field!Forwarded, Field!CloseForward, Field!Type, Field!Send, Field!SendTaken,
     Field!SendRefused, Field!Pick, Field!voice, Field!files, Field!write
<1>5. CASE \/ Field!Attach \/ Field!CloseSheet \/ Field!Upload \/ Field!UploadOver
           \/ Field!Release \/ Field!SoundOver \/ UNCHANGED Field!vars
  BY <1>3, <1>5 DEF Field!Attach, Field!CloseSheet, Field!Upload, Field!UploadOver,
     Field!Release, Field!SoundOver, Field!vars, Field!voice
<1>6. CASE Field!StartRecording
  <2> DEFINE n == v11.n + 1
             r == [pc |-> "asked", chat |-> v1]
  <2>1. /\ v12 = 0 /\ v10' = [v10 EXCEPT ![n] = r]
        /\ v14' = (v14 \/ \E p \in 1 .. MaxPresses : v10[p].pc = "asked")
        /\ v1' = v1 /\ v2' = v2 /\ v3' = v3 /\ v4' = v4 /\ v12' = v12
    BY <1>6 DEF Field!StartRecording, Field!Microphone, Field!recording, Field!Press
  <2>2. r \in Recorder /\ r.pc = "asked"
    BY <1>0 DEF Recorder
  <2> HIDE DEF r, n
  <2>3. /\ v10' \in [1 .. MaxPresses -> Recorder]
        /\ \A p \in 1 .. MaxPresses : v10'[p] = IF p = n THEN r ELSE v10[p]
    BY <1>0, <2>1, <2>2
  <2>4. ASSUME ~v14', NEW p \in 1 .. MaxPresses PROVE v10[p].pc = "none"
    <3>1. ~v14 /\ v10[p].pc # "asked"
      BY <2>1, <2>4
    <3>2. v10[p].pc \notin {"live", "cancelled"}
      BY <2>1, <3>1 DEF Together
    <3> QED BY <1>0, <3>1, <3>2 DEF Recorder
  <2> QED BY <1>0, <2>1, <2>2, <2>3, <2>4 DEF Together
<1>7. ASSUME NEW p \in 1 .. MaxPresses, Field!Granted(p) PROVE Together'
  <2> DEFINE r == [v10[p] EXCEPT !.pc = "live"]
  <2>1. /\ v10[p].pc = "asked" /\ v10' = [v10 EXCEPT ![p] = r] /\ v12' = p
        /\ v1' = v1 /\ v2' = v2 /\ v3' = v3 /\ v4' = v4 /\ v14' = v14
    BY <1>7 DEF Field!Granted
  <2>2. r \in Recorder /\ r.pc = "live"
    BY <1>0 DEF Recorder
  <2> HIDE DEF r
  <2>3. /\ v10' \in [1 .. MaxPresses -> Recorder]
        /\ \A q \in 1 .. MaxPresses : v10'[q] = IF q = p THEN r ELSE v10[q]
    BY <1>0, <2>1, <2>2
  <2> QED BY <1>0, <2>1, <2>2, <2>3 DEF Together
<1>8. ASSUME NEW p \in 1 .. MaxPresses, Field!Refused(p) \/ Field!Stopped(p) PROVE Together'
  <2> DEFINE r == [pc |-> "none", chat |-> None]
  <2>1. /\ v10[p].pc # "none" /\ v10' = [v10 EXCEPT ![p] = r] /\ v12' \in {0, v12}
        /\ v1' = v1 /\ v2' = v2 /\ v3' = v3 /\ v4' = v4 /\ v14' = v14
        /\ v12' = 0 \/ v10[p].pc = "asked"
    BY <1>8 DEF Field!Refused, Field!Stopped, Field!NoMic
  <2>2. r \in Recorder /\ r.pc = "none"
    BY DEF Recorder
  <2> HIDE DEF r
  <2>3. /\ v10' \in [1 .. MaxPresses -> Recorder]
        /\ \A q \in 1 .. MaxPresses : v10'[q] = IF q = p THEN r ELSE v10[q]
    BY <1>0, <2>1, <2>2
  <2>4. ASSUME ~v14, NEW q \in 1 .. MaxPresses PROVE v10'[q].pc = "none"
    <3>1. /\ v10[p].pc \in {"asked", "live", "cancelled"}
          /\ v10[q].pc \in {"none", "asked", "live", "cancelled"}
      BY <1>0, <2>1 DEF Recorder
    <3>2. q # p => v10[q].pc = "none"
      BY <2>4, <3>1 DEF Together
    <3> QED BY <2>2, <2>3, <3>2
  <2> QED BY <1>0, <2>1, <2>2, <2>3, <2>4, BoundsAreNumbers DEF Together
<1>9. CASE Field!CancelRecording
  <2> DEFINE r == [v10[v12] EXCEPT !.pc = "cancelled"]
  <2>1. /\ v12 # 0 /\ v10' = [v10 EXCEPT ![v12] = r] /\ v12' = v12
        /\ v1' = v1 /\ v2' = v2 /\ v3' = v3 /\ v4' = v4 /\ v14' = v14
    BY <1>9 DEF Field!CancelRecording, Field!recording
  <2>2. r \in Recorder /\ r.pc = "cancelled" /\ v12 \in 1 .. MaxPresses
    BY <1>0, <2>1 DEF Recorder
  <2> HIDE DEF r
  <2>3. /\ v10' \in [1 .. MaxPresses -> Recorder]
        /\ \A q \in 1 .. MaxPresses : v10'[q] = IF q = v12 THEN r ELSE v10[q]
    BY <1>0, <2>1, <2>2
  <2> QED BY <1>0, <2>1, <2>2, <2>3 DEF Together
<1> QED BY <1>1, <1>2, <1>4, <1>5, <1>6, <1>7, <1>8, <1>9 DEF Field!Next, Field!Press

\* ChatView.tsx: whatever the chats are, and however the timers and the answers of
\* the microphone fall, the quote and the menu are of the chat on the screen and a
\* microphone that is on is the one the screen can stop: unless it was pressed again
\* before it was given, or the chat was left during a touch.
THEOREM NothingStaysBehind == Spec => []NothingLeftBehind
<1> DEFINE Inv == part = "field" => Together
<1>0. None \notin X
  BY PartsAssumption DEF PartsAssumption, Field!ComposerAssumption
<1>1. Init => Inv
  <2> SUFFICES ASSUME Field!Init PROVE Together
    BY DEF Init
  <2>1. /\ v1 \in X /\ v2 = None /\ v3 = None /\ v4 = None /\ v12 = 0
        /\ v10 = [p \in 1 .. MaxPresses |-> [pc |-> "none", chat |-> None]]
    BY DEF Field!Init, Field!NoMic, Field!Press
  <2>2. v10 \in [1 .. MaxPresses -> Recorder] /\ \A p \in 1 .. MaxPresses : v10[p].pc = "none"
    BY <2>1 DEF Recorder
  <2> QED BY <2>1, <2>2, BoundsAreNumbers DEF Together
<1>2. Inv /\ [Next]_vars => Inv'
  <2> SUFFICES ASSUME Inv, [Next]_vars, part' = "field" PROVE Together'
    OBVIOUS
  <2>1. part = "field" /\ [Field!Next]_(Field!vars)
    BY DEF Next, Step, vars, Field!vars
  <2> QED BY <1>0, <2>1, FieldKeeps
<1>3. Inv => NothingLeftBehind
  BY DEF Together, NothingLeftBehind, Field!NothingLeftBehind, Field!Press
<1> QED BY <1>1, <1>2, <1>3, PTL DEF Spec


------------------------------------------------------------------------------
(* The grid of an album (Albums): v2 is what the server has, v5 the album and *)
(* v6 what is shown of it, v7 the loads, v8 to v10 the marks, v12 the         *)
(* deletion, v13 the upload and v14 the excuse.                               *)

\* The grid is a load or a deletion away from the album, and what is marked or
\* under the finger is shown, unless it is being deleted.
Gridded ==
  /\ v2 = [a \in X |-> v2[a]] /\ v5 \in X \cup {None}
  /\ v7 = [l \in Y |-> v7[l]]
  /\ \A l \in Y : "pc" \in DOMAIN v7[l]
  /\ v12 = [pc |-> v12.pc, album |-> v12.album, todo |-> v12.todo]
  /\ v9 # {} => v8
  /\ ~v14 => /\ v10 \subseteq v6
             /\ v12.pc # "deleting" => v9 \subseteq v6
             /\ v5 # None /\ v12.pc # "deleting" /\ (\A l \in Y : v7[l].pc = "idle") => v6 = v2[v5]

\* A load that begins is in flight.
LEMMA LoadStarts ==
  ASSUME Gridded, NEW a, Gallery!StartLoad(a)
  PROVE  /\ v7' = [l \in Y |-> v7'[l]]
         /\ \A l \in Y : "pc" \in DOMAIN v7'[l]
         /\ \E l \in Y : v7'[l].pc # "idle"
<1>1. PICK l \in Y : v7' = [v7 EXCEPT ![l] = [Gallery!NoLoad EXCEPT !.pc = "asked", !.album = a]]
  BY DEF Gallery!StartLoad, Gallery!Idle
<1> DEFINE r == [Gallery!NoLoad EXCEPT !.pc = "asked", !.album = a]
<1>2. v7' = [v7 EXCEPT ![l] = r]
  BY <1>1
<1>3. "pc" \in DOMAIN r /\ r.pc = "asked"
  BY DEF Gallery!NoLoad
<1> HIDE DEF r
<1>4. v7' = [k \in Y |-> IF k = l THEN r ELSE v7[k]]
  BY <1>2 DEF Gridded
<1> QED BY <1>3, <1>4 DEF Gridded

\* Every step of the grid, or one that excuses it.
LEMMA GalleryKeeps ==
  ASSUME Gridded, [Gallery!Next]_(Gallery!vars)
  PROVE  Gridded'
<1>1. ASSUME v2' = v2, v5' = v5, v6' = v6, v7' = v7, v8' = v8, v9' = v9, v10' \in {v10, {}},
             v12' = v12, v14' = v14
      PROVE  Gridded'
  BY <1>1 DEF Gridded
<1>2. CASE \/ Gallery!OpenSheet \/ Gallery!CloseSheet \/ Gallery!Create \/ Gallery!Created
           \/ Gallery!CreateFails \/ Gallery!TouchEnds \/ UNCHANGED Gallery!vars
           \/ \E files \in SUBSET Gallery!Unused : Gallery!Upload(files)
  BY <1>1, <1>2 DEF Gallery!OpenSheet, Gallery!CloseSheet, Gallery!Create, Gallery!Created,
     Gallery!CreateFails, Gallery!TouchEnds, Gallery!vars, Gallery!Upload, Gallery!marks,
     Gallery!work
<1>3. ASSUME NEW a \in X, Gallery!SelectAlbum(a) PROVE Gridded'
  <2>1. /\ v5' = a /\ v6' = {} /\ v8' = FALSE /\ v9' = {} /\ v2' = v2 /\ v10' = v10 /\ v12' = v12
        /\ ~v14' => v10 = {}
    BY <1>3 DEF Gallery!SelectAlbum, Gallery!work
  <2>2. Gallery!StartLoad(a)
    BY <1>3 DEF Gallery!SelectAlbum
  <2> QED BY <2>1, <2>2, LoadStarts DEF Gridded
<1>4. ASSUME NEW l \in Y, Gallery!Served(l) PROVE Gridded'
  <2> DEFINE r == [v7[l] EXCEPT !.pc = "served", !.rows = v2[v7[l].album]]
  <2>1. v7' = [v7 EXCEPT ![l] = r]
    <3>1. v7' = [v7 EXCEPT ![l].pc = "served", ![l].rows = v2[v7[l].album]]
      BY <1>4 DEF Gallery!Served
    <3> QED BY <3>1 DEF Gridded
  <2>2. "pc" \in DOMAIN r /\ r.pc = "served"
    BY DEF Gridded
  <2> HIDE DEF r
  <2>3. v7' = [k \in Y |-> IF k = l THEN r ELSE v7[k]]
    BY <2>1 DEF Gridded
  <2>4. /\ v2' = v2 /\ v5' = v5 /\ v6' = v6 /\ v8' = v8 /\ v9' = v9 /\ v10' = v10
        /\ v12' = v12 /\ v14' = v14
    BY <1>4 DEF Gallery!Served, Gallery!marks, Gallery!work
  <2> QED BY <2>2, <2>3, <2>4 DEF Gridded
<1>5. ASSUME NEW l \in Y, Gallery!Shown(l) \/ Gallery!LoadFails(l) PROVE Gridded'
  <2> DEFINE r == [pc |-> "idle", album |-> None, rows |-> {}]
  <2>1. v7' = [v7 EXCEPT ![l] = r]
    BY <1>5 DEF Gallery!Shown, Gallery!LoadFails, Gallery!NoLoad
  <2>2. "pc" \in DOMAIN r /\ r.pc = "idle"
    OBVIOUS
  <2> HIDE DEF r
  <2>3. v7' = [k \in Y |-> IF k = l THEN r ELSE v7[k]]
    BY <2>1 DEF Gridded
  <2>4. /\ v2' = v2 /\ v5' = v5 /\ v8' = v8 /\ v9' = v9 /\ v10' = v10 /\ v12' = v12
    BY <1>5 DEF Gallery!Shown, Gallery!LoadFails, Gallery!marks, Gallery!work
  <2>5. ~v14' => /\ ~v14 /\ v6' = v7[l].rows /\ v7[l].rows = v2[v5]
                 /\ (v6 \ v6') \cap (v10 \cup IF v12.pc = "deleting" THEN {} ELSE v9) = {}
    BY <1>5 DEF Gallery!Shown, Gallery!LoadFails, Gallery!Kept
  <2>6. ~v14' => v10 \subseteq v6' /\ (v12.pc # "deleting" => v9 \subseteq v6')
    BY <2>5 DEF Gridded
  <2> QED BY <2>2, <2>3, <2>4, <2>5, <2>6 DEF Gridded
<1>6. ASSUME NEW m \in Y, Gallery!Touch(m) PROVE Gridded'
  BY <1>6 DEF Gallery!Touch, Gallery!work, Gridded
<1>7. ASSUME NEW m \in Y, Gallery!Click(m) PROVE Gridded'
  <2>1. /\ v2' = v2 /\ v5' = v5 /\ v6' = v6 /\ v7' = v7 /\ v8' = v8 /\ v10' = v10
        /\ v12' = v12 /\ v14' = v14 /\ m \in v6
    BY <1>7 DEF Gallery!Click, Gallery!work
  <2>2. v9' = v9 \/ (v8 /\ v9' \subseteq v9 \cup {m})
    BY <1>7 DEF Gallery!Click, Gallery!Toggled
  <2> QED BY <2>1, <2>2 DEF Gridded
<1>8. CASE Gallery!LongPress
  <2>1. /\ v2' = v2 /\ v5' = v5 /\ v6' = v6 /\ v7' = v7 /\ v8' = TRUE /\ v10' = {}
        /\ v12' = v12 /\ v14' = v14
    BY <1>8 DEF Gallery!LongPress, Gallery!work
  <2>2. v9' \subseteq v9 \cup v10
    BY <1>8 DEF Gallery!LongPress, Gallery!Toggled
  <2> QED BY <2>1, <2>2 DEF Gridded
<1>9. CASE Gallery!LeaveSelect
  BY <1>9 DEF Gallery!LeaveSelect, Gallery!work, Gridded
<1>10. CASE Gallery!AskDelete
  BY <1>10 DEF Gallery!AskDelete, Gallery!marks, Gridded
<1>11. ASSUME NEW yes \in BOOLEAN, Gallery!Answer(yes) PROVE Gridded'
  <2>1. /\ v2' = v2 /\ v5' = v5 /\ v6' = v6 /\ v7' = v7 /\ v8' = v8 /\ v9' = v9 /\ v10' = v10
        /\ v14' = v14 /\ v12.pc = "ask"
    BY <1>11 DEF Gallery!Answer, Gallery!marks
  <2>2. v12' = [pc |-> v12'.pc, album |-> v12'.album, todo |-> v12'.todo]
    BY <1>11 DEF Gallery!Answer, Gallery!NoDelete, Gridded
  <2> QED BY <2>1, <2>2 DEF Gridded
<1>12. ASSUME NEW m \in Y, NEW taken \in BOOLEAN, Gallery!DeleteOne(m, taken) PROVE Gridded'
  <2>1. /\ v5' = v5 /\ v6' = v6 /\ v7' = v7 /\ v8' = v8 /\ v9' = v9 /\ v10' = v10
        /\ v14' = v14 /\ v12.pc = "deleting"
    BY <1>12 DEF Gallery!DeleteOne, Gallery!marks
  <2>2. v12' = [pc |-> "deleting", album |-> v12.album, todo |-> v12.todo \ {m}]
    BY <1>12 DEF Gallery!DeleteOne, Gridded
  <2>3. v2' = [a \in X |-> v2'[a]]
    BY <1>12 DEF Gallery!DeleteOne, Gridded
  <2> QED BY <2>1, <2>2, <2>3 DEF Gridded
<1>13. CASE Gallery!DeleteOver
  <2>1. /\ v2' = v2 /\ v5' = v5 /\ v6' = v6 /\ v8' = FALSE /\ v9' = {} /\ v10' = v10
        /\ v12' = [pc |-> "idle", album |-> None, todo |-> {}] /\ (~v14' => ~v14)
    BY <1>13 DEF Gallery!DeleteOver, Gallery!NoDelete
  <2>2. Gallery!StartLoad(v12.album)
    BY <1>13 DEF Gallery!DeleteOver
  <2> QED BY <2>1, <2>2, LoadStarts DEF Gridded
<1>14. CASE Gallery!Uploaded
  <2>1. /\ v5' = v5 /\ v6' = v6 /\ v8' = v8 /\ v9' = v9 /\ v10' = v10 /\ v12' = v12
        /\ (~v14' => ~v14)
    BY <1>14 DEF Gallery!Uploaded, Gallery!marks
  <2>2. Gallery!StartLoad(v13.album) /\ v2' = [a \in X |-> v2'[a]]
    BY <1>14 DEF Gallery!Uploaded, Gridded
  <2> QED BY <2>1, <2>2, LoadStarts DEF Gridded
<1>15. CASE Gallery!UploadFails
  <2>1. PICK taken : /\ v2' = [v2 EXCEPT ![v13.album] = @ \cup taken]
                     /\ v14' = (v14 \/ taken # {})
    BY <1>15 DEF Gallery!UploadFails
  <2>2. /\ v5' = v5 /\ v6' = v6 /\ v7' = v7 /\ v8' = v8 /\ v9' = v9 /\ v10' = v10 /\ v12' = v12
    BY <1>15 DEF Gallery!UploadFails, Gallery!marks
  <2>3. v2' = [a \in X |-> IF a = v13.album THEN v2[a] \cup taken ELSE v2[a]]
    BY <2>1 DEF Gridded
  <2>4. ~v14' => ~v14 /\ \A a \in X : v2'[a] = v2[a]
    BY <2>1, <2>3
  <2> QED BY <2>2, <2>3, <2>4 DEF Gridded
<1> QED BY <1>2, <1>3, <1>4, <1>5, <1>6, <1>7, <1>8, <1>9, <1>10, <1>11, <1>12, <1>13, <1>14,
           <1>15 DEF Gallery!Next

\* AlbumGallery.tsx: however many albums, photos and loads there are, the grid
\* shows what is in its album when nothing is on its way, and what is marked is
\* shown, unless one of the excuses Albums names has happened.
THEOREM GridEndsAsTheAlbum == Spec => []GridIsTheAlbum
<1> DEFINE Inv == part = "gallery" => Gridded
<1>1. Init => Inv
  <2> SUFFICES ASSUME Gallery!Init PROVE Gridded
    BY DEF Init
  <2> QED BY DEF Gallery!Init, Gallery!NoLoad, Gallery!NoDelete, Gridded
<1>2. Inv /\ [Next]_vars => Inv'
  <2> SUFFICES ASSUME Inv, [Next]_vars, part' = "gallery" PROVE Gridded'
    OBVIOUS
  <2>1. part = "gallery" /\ [Gallery!Next]_(Gallery!vars)
    BY DEF Next, Step, vars, Gallery!vars
  <2> QED BY <2>1, GalleryKeeps
<1>3. Inv => GridIsTheAlbum
  BY DEF Gridded, GridIsTheAlbum, Gallery!GridIsTheAlbum, Gallery!Overlaps
<1> QED BY <1>1, <1>2, <1>3, PTL DEF Spec


------------------------------------------------------------------------------
(* The pictures kept on the device (MediaCache): v1 are the files and v2 the  *)
(* index, v3 and v4 the changes not taken by a pass, v6 the pass, v7 the      *)
(* passes that wait, v8 the sweep, v9 the clearing and v14 the excuse.        *)

MediaTyped ==
  /\ v1 \subseteq X /\ v2 \in Media!Index /\ v3 \subseteq X /\ v4 \subseteq X
  /\ v6 \in [pc : {"idle", "read", "evict"}, added : SUBSET X, used : SUBSET X, idx : Media!Index]
  /\ v7 \in Int /\ v8 \in [pc : {"idle", "wait", "delete"}, ahead : Int, idx : Media!Index]
  /\ v9 \in [pc : {"idle", "wait"}, ahead : Int] /\ v13 \in 1 .. MediaDays
  /\ v6.pc = "idle" => v6.added = {}

\* Every index there is is finite, and those that are or will be stored are
\* within the limit.
Limited ==
  /\ IsFiniteSet(v4) /\ IsFiniteSet(v6.added) /\ IsFiniteSet(Media!Indexed(v6.idx))
  /\ IsFiniteSet(Media!Indexed(v2)) /\ Cardinality(Media!Indexed(v2)) <= Cap
  /\ IsFiniteSet(Media!Indexed(v8.idx)) /\ Cardinality(Media!Indexed(v8.idx)) <= Cap

\* Unless excused: what waits to be listed is on the device, and, a clearing aside,
\* the index that is stored, that of the pass and that of the sweep each list what
\* is there but for what waits.
Counted ==
  ~v14 =>
    /\ v4 \subseteq v1
    /\ v9.pc = "idle" =>
         /\ v1 \subseteq Media!Indexed(v2) \cup v4 \cup v6.added
         /\ v6.pc = "evict" => v1 \subseteq Media!Indexed(v6.idx) \cup v4
         /\ v8.pc # "delete" =>
              /\ v6.pc = "idle" => Media!Indexed(v2) \subseteq v1
              /\ v6.pc = "read" => Media!Indexed(v2) \cup v6.added \subseteq v1
              /\ v6.pc = "evict" => Media!Indexed(v6.idx) \subseteq v1
         /\ v8.pc = "delete" /\ v6.pc = "idle" =>
              v1 \subseteq Media!Indexed(v8.idx) \cup v4 /\ Media!Indexed(v8.idx) \subseteq v1

MediaInv == MediaTyped /\ Limited /\ Counted

\* The module counts as everybody does.
LEMMA SameCount == \A S : Media!Cardinality(S) = Cardinality(S)
  BY DEF Media!Cardinality, Cardinality

\* An index with one entry taken out.
LEMMA Unlisted ==
  ASSUME NEW i \in Media!Index, NEW k \in X
  PROVE  /\ [i EXCEPT ![k] = 0] \in Media!Index
         /\ Media!Indexed([i EXCEPT ![k] = 0]) = Media!Indexed(i) \ {k}
<1>1. 0 \in 0 .. MediaDays
  BY BoundsAreNumbers
<1> QED BY <1>1 DEF Media!Index, Media!Indexed

\* The index that lists nothing.
LEMMA NoneListed ==
  /\ Media!Empty \in Media!Index /\ Media!Indexed(Media!Empty) = {}
  /\ IsFiniteSet({}) /\ Cardinality({}) = 0
<1>1. 0 \in 0 .. MediaDays
  BY BoundsAreNumbers
<1> QED BY <1>1, FS_EmptySet DEF Media!Empty, Media!Index, Media!Indexed

\* Steps that touch neither the files nor the account of them.
MediaRests ==
  /\ v1' = v1 /\ v2' = v2 /\ v4' = v4 /\ v6' = v6 /\ v8' = v8 /\ v9' = v9 /\ v14' = v14
  /\ v3' \subseteq X /\ v7' \in Int /\ v13' \in 1 .. MediaDays

\* Looking, loading and the batches that queue up are such steps.
LEMMA MediaResting ==
  ASSUME MediaTyped,
         \/ \E k \in X : \/ Media!Found(k) \/ Media!NotFound(k) \/ Media!Downloaded(k)
                         \/ Media!DownloadFails(k) \/ Media!WriteFails(k)
         \/ \E S \in SUBSET X : Media!Warm(S)
         \/ Media!Flush \/ Media!NewDay \/ UNCHANGED Media!vars
  PROVE  MediaRests
<1>1. v3 \subseteq X /\ v7 \in Int /\ v7 + 1 \in Int /\ v13 \in 1 .. MediaDays
  BY DEF MediaTyped
<1>2. ASSUME NEW k \in X, \/ Media!Found(k) \/ Media!NotFound(k) \/ Media!Downloaded(k)
                          \/ Media!DownloadFails(k) \/ Media!WriteFails(k)
      PROVE  MediaRests
  BY <1>1, <1>2 DEF MediaRests, Media!Found, Media!NotFound, Media!Downloaded,
     Media!DownloadFails, Media!WriteFails, Media!stored, Media!account
<1>3. ASSUME NEW S \in SUBSET X, Media!Warm(S) PROVE MediaRests
  BY <1>1, <1>3 DEF MediaRests, Media!Warm, Media!stored
<1>4. CASE Media!Flush
  BY <1>1, <1>4 DEF MediaRests, Media!Flush, Media!stored
<1>5. CASE Media!NewDay
  BY <1>1, <1>5, BoundsAreNumbers DEF MediaRests, Media!NewDay, Media!stored, Media!account
<1>6. CASE UNCHANGED Media!vars
  BY <1>1, <1>6 DEF MediaRests, Media!vars
<1> QED BY <1>2, <1>3, <1>4, <1>5, <1>6

\* And such steps keep the account.
LEMMA MediaRestKeeps == ASSUME MediaInv, MediaRests PROVE MediaInv'
<1>1. MediaTyped'
  BY DEF MediaInv, MediaTyped, MediaRests
<1>2. Limited'
  BY DEF MediaInv, Limited, MediaRests
<1>3. Counted'
  BY DEF MediaInv, Counted, MediaRests
<1> QED BY <1>1, <1>2, <1>3 DEF MediaInv

\* A pass that is over leaves none, and one less for the sweep and the clearing
\* to wait for.
LEMMA MediaPassOver ==
  ASSUME MediaTyped, Media!PassOver
  PROVE  /\ v6' = Media!NoPass /\ v6'.pc = "idle" /\ v6'.added = {} /\ v6'.idx = Media!Empty
         /\ v6' \in [pc : {"idle", "read", "evict"}, added : SUBSET X, used : SUBSET X,
                     idx : Media!Index]
         /\ v7' \in Int
         /\ v8' \in [pc : {"idle", "wait", "delete"}, ahead : Int, idx : Media!Index]
         /\ v9' \in [pc : {"idle", "wait"}, ahead : Int]
         /\ v8'.pc = v8.pc /\ v8'.idx = v8.idx /\ v9'.pc = v9.pc
<1>1. /\ v6' = Media!NoPass /\ v7' = v7 - 1
      /\ v8' = [v8 EXCEPT !.ahead = IF v8.ahead = 0 THEN 0 ELSE v8.ahead - 1]
      /\ v9' = [v9 EXCEPT !.ahead = IF v9.ahead = 0 THEN 0 ELSE v9.ahead - 1]
  BY DEF Media!PassOver
<1>2. v6' = [pc |-> "idle", added |-> {}, used |-> {}, idx |-> Media!Empty]
  BY <1>1 DEF Media!NoPass
<1>3. /\ v8 \in [pc : {"idle", "wait", "delete"}, ahead : Int, idx : Media!Index]
      /\ v9 \in [pc : {"idle", "wait"}, ahead : Int] /\ v7 \in Int
  BY DEF MediaTyped
<1>4. (IF v8.ahead = 0 THEN 0 ELSE v8.ahead - 1) \in Int
  BY <1>3
<1>5. (IF v9.ahead = 0 THEN 0 ELSE v9.ahead - 1) \in Int
  BY <1>3
<1>6. /\ v8' \in [pc : {"idle", "wait", "delete"}, ahead : Int, idx : Media!Index]
      /\ v8'.pc = v8.pc /\ v8'.idx = v8.idx
  BY <1>1, <1>3, <1>4
<1>7. v9' \in [pc : {"idle", "wait"}, ahead : Int] /\ v9'.pc = v9.pc
  BY <1>1, <1>3, <1>5
<1> QED BY <1>1, <1>2, <1>3, <1>6, <1>7, NoneListed


\* A file is written and has its size put down.
LEMMA MediaWritten ==
  ASSUME MediaInv, NEW k \in X, Media!Written(k) PROVE MediaInv'
<1>0. MediaTyped /\ Limited /\ Counted
  BY DEF MediaInv
<1>1. /\ v1' = v1 \cup {k} /\ v4' = v4 \cup {k} /\ v2' = v2 /\ v3' = v3 /\ v6' = v6 /\ v7' = v7
      /\ v8' = v8 /\ v9' = v9 /\ v13' = v13 /\ v14' = v14
  BY DEF Media!Written
<1>2. MediaTyped'
  BY <1>0, <1>1 DEF MediaTyped
<1>3. Limited'
  <2>1. IsFiniteSet(v4 \cup {k})
    BY <1>0, FS_AddElement DEF Limited
  <2> QED BY <1>0, <1>1, <2>1 DEF Limited
<1>4. Counted'
  BY <1>0, <1>1 DEF Counted
<1> QED BY <1>2, <1>3, <1>4 DEF MediaInv

\* A file is put out, by the pass or by the sweep.
LEMMA MediaPutOut ==
  ASSUME MediaInv, NEW k \in X, Media!Evict(k) \/ Media!SweepDeletes(k) PROVE MediaInv'
<1>0. MediaTyped /\ Limited /\ Counted
  BY DEF MediaInv
<1>1. v1' = v1 \ {k} /\ v2' = v2 /\ v3' = v3 /\ v4' = v4 /\ v7' = v7 /\ v9' = v9 /\ v13' = v13
  BY DEF Media!Evict, Media!SweepDeletes, Media!account, Media!images
<1>2. CASE Media!Evict(k)
  <2> DEFINE i == [v6.idx EXCEPT ![k] = 0]
  <2>1. v6 \in [pc : {"idle", "read", "evict"}, added : SUBSET X, used : SUBSET X, idx : Media!Index]
    BY <1>0 DEF MediaTyped
  <2>2. i \in Media!Index /\ Media!Indexed(i) = Media!Indexed(v6.idx) \ {k}
    BY <2>1, Unlisted
  <2>3. /\ v6' = [v6 EXCEPT !.idx = i] /\ v6.pc = "evict" /\ v8' = v8
        /\ v14' = (v14 \/ k \in v4)
    BY <1>2, <2>1 DEF Media!Evict
  <2> HIDE DEF i
  <2>4. /\ v6' \in [pc : {"idle", "read", "evict"}, added : SUBSET X, used : SUBSET X, idx : Media!Index]
        /\ v6'.pc = "evict" /\ v6'.added = v6.added /\ v6'.idx = i
    BY <2>1, <2>2, <2>3
  <2>5. MediaTyped'
    BY <1>0, <1>1, <2>3, <2>4 DEF MediaTyped
  <2>6. Limited'
    <3>1. IsFiniteSet(Media!Indexed(i))
      BY <1>0, <2>2, FS_RemoveElement DEF Limited
    <3>2. /\ Media!Indexed(v6.idx)' = Media!Indexed(i) /\ Media!Indexed(v2)' = Media!Indexed(v2)
          /\ Media!Indexed(v8.idx)' = Media!Indexed(v8.idx)
      BY <1>1, <2>3, <2>4 DEF Media!Indexed
    <3> QED BY <1>0, <1>1, <2>4, <3>1, <3>2 DEF Limited
  <2>7. Counted'
    <3>1. SUFFICES ASSUME ~v14' PROVE Counted'
      BY DEF Counted
    <3>2. ~v14 /\ k \notin v4
      BY <2>3, <3>1
    <3> QED BY <1>0, <1>1, <2>2, <2>3, <2>4, <3>2 DEF Counted
  <2> QED BY <2>5, <2>6, <2>7 DEF MediaInv
<1>3. CASE Media!SweepDeletes(k)
  <2> DEFINE i == [v8.idx EXCEPT ![k] = 0]
  <2>1. v8 \in [pc : {"idle", "wait", "delete"}, ahead : Int, idx : Media!Index]
    BY <1>0 DEF MediaTyped
  <2>2. i \in Media!Index /\ Media!Indexed(i) = Media!Indexed(v8.idx) \ {k}
    BY <2>1, Unlisted
  <2>3. /\ v8' = [v8 EXCEPT !.idx = i] /\ v8.pc = "delete" /\ v6' = v6
        /\ v14' = (v14 \/ k \in v4 \/ v6.pc # "idle")
    BY <1>3, <2>1 DEF Media!SweepDeletes
  <2> HIDE DEF i
  <2>4. /\ v8' \in [pc : {"idle", "wait", "delete"}, ahead : Int, idx : Media!Index]
        /\ v8'.pc = "delete" /\ v8'.idx = i
    BY <2>1, <2>2, <2>3
  <2>5. MediaTyped'
    BY <1>0, <1>1, <2>3, <2>4 DEF MediaTyped
  <2>6. Limited'
    <3>1. /\ IsFiniteSet(Media!Indexed(i))
          /\ Cardinality(Media!Indexed(i)) <= Cardinality(Media!Indexed(v8.idx))
          /\ Cardinality(Media!Indexed(i)) \in Nat /\ Cardinality(Media!Indexed(v8.idx)) \in Nat
      BY <1>0, <2>2, FS_Subset, FS_CardinalityType DEF Limited
    <3>2. /\ Media!Indexed(v8.idx)' = Media!Indexed(i) /\ Media!Indexed(v2)' = Media!Indexed(v2)
          /\ Media!Indexed(v6.idx)' = Media!Indexed(v6.idx)
      BY <1>1, <2>3, <2>4 DEF Media!Indexed
    <3>3. Cardinality(Media!Indexed(i)) <= Cap
      BY <1>0, <3>1, BoundsAreNumbers DEF Limited
    <3> QED BY <1>0, <1>1, <2>3, <3>1, <3>2, <3>3 DEF Limited
  <2>7. Counted'
    <3>1. SUFFICES ASSUME ~v14' PROVE Counted'
      BY DEF Counted
    <3>2. ~v14 /\ k \notin v4 /\ v6.pc = "idle" /\ v6.added = {}
      BY <1>0, <2>3, <3>1 DEF MediaTyped
    <3> QED BY <1>0, <1>1, <2>2, <2>3, <2>4, <3>2 DEF Counted
  <2> QED BY <2>5, <2>6, <2>7 DEF MediaInv
<1> QED BY <1>2, <1>3

\* A pass takes the batch and reads the index.
LEMMA MediaPass ==
  ASSUME MediaInv, Media!TakeBatch \/ Media!ReadIndex PROVE MediaInv'
<1>0. MediaTyped /\ Limited /\ Counted
  BY DEF MediaInv
<1>1. /\ v1' = v1 /\ v2' = v2 /\ v7' = v7 /\ v8' = v8 /\ v9' = v9 /\ v13' = v13 /\ v14' = v14
  BY DEF Media!TakeBatch, Media!ReadIndex, Media!stored
<1>2. CASE Media!TakeBatch
  <2>1. /\ v6' = [pc |-> "read", added |-> v4, used |-> v3, idx |-> Media!Empty]
        /\ v6.pc = "idle" /\ v6.added = {} /\ v3' = {} /\ v4' = {}
    BY <1>0, <1>2 DEF Media!TakeBatch, Media!NoPass, MediaTyped
  <2>2. MediaTyped'
    BY <1>0, <1>1, <2>1, NoneListed DEF MediaTyped
  <2>3. Limited'
    BY <1>0, <1>1, <2>1, NoneListed DEF Limited
  <2>4. Counted'
    BY <1>0, <1>1, <2>1 DEF Counted
  <2> QED BY <2>2, <2>3, <2>4 DEF MediaInv
<1>3. CASE Media!ReadIndex
  <2> DEFINE i == [k \in X |-> IF k \in v6.added \/ (k \in v6.used /\ v2[k] # 0) THEN v13 ELSE v2[k]]
  <2>1. v6 \in [pc : {"idle", "read", "evict"}, added : SUBSET X, used : SUBSET X, idx : Media!Index]
    BY <1>0 DEF MediaTyped
  <2>2. v6' = [v6 EXCEPT !.pc = "evict", !.idx = i] /\ v6.pc = "read" /\ v3' = v3 /\ v4' = v4
    BY <1>3 DEF Media!ReadIndex, Media!account
  <2>3. /\ i \in Media!Index /\ Media!Indexed(i) = Media!Indexed(v2) \cup v6.added
    <3>1. v13 \in 0 .. MediaDays /\ v13 # 0 /\ \A k \in X : v2[k] \in 0 .. MediaDays
      BY <1>0 DEF MediaTyped, Media!Index
    <3> QED BY <2>1, <3>1 DEF Media!Index, Media!Indexed
  <2> HIDE DEF i
  <2>4. /\ v6' \in [pc : {"idle", "read", "evict"}, added : SUBSET X, used : SUBSET X, idx : Media!Index]
        /\ v6'.pc = "evict" /\ v6'.added = v6.added /\ v6'.idx = i
    BY <2>1, <2>2, <2>3
  <2>5. MediaTyped'
    BY <1>0, <1>1, <2>2, <2>4 DEF MediaTyped
  <2>6. Limited'
    <3>1. IsFiniteSet(Media!Indexed(i))
      BY <1>0, <2>3, FS_Union DEF Limited
    <3>2. /\ Media!Indexed(v6.idx)' = Media!Indexed(i) /\ Media!Indexed(v2)' = Media!Indexed(v2)
          /\ Media!Indexed(v8.idx)' = Media!Indexed(v8.idx)
      BY <1>1, <2>4 DEF Media!Indexed
    <3> QED BY <1>0, <1>1, <2>2, <2>4, <3>1, <3>2 DEF Limited
  <2>7. Counted'
    BY <1>0, <1>1, <2>2, <2>3, <2>4 DEF Counted
  <2> QED BY <2>5, <2>6, <2>7 DEF MediaInv
<1> QED BY <1>2, <1>3

\* A pass ends: with nothing to write, with the index written, or in vain.
LEMMA MediaPassEnds ==
  ASSUME MediaInv, Media!NothingToWrite \/ Media!WriteIndex \/ Media!PassFails PROVE MediaInv'
<1>0. MediaTyped /\ Limited /\ Counted
  BY DEF MediaInv
<1>1. /\ v1' = v1 /\ v3' = v3 /\ v4' = v4 /\ v13' = v13 /\ Media!PassOver
  BY DEF Media!NothingToWrite, Media!WriteIndex, Media!PassFails, Media!stored, Media!account
<1>2. /\ v6'.pc = "idle" /\ v6'.added = {} /\ v6'.idx = Media!Empty
      /\ v8'.pc = v8.pc /\ v8'.idx = v8.idx /\ v9'.pc = v9.pc
  BY <1>0, <1>1, MediaPassOver
<1>3. v2' = v2 \/ (v2' = v6.idx /\ ~Media!Over(v6.idx))
  BY DEF Media!NothingToWrite, Media!WriteIndex, Media!PassFails, Media!stored
<1>4. MediaTyped'
  <2>1. v2' \in Media!Index
    BY <1>0, <1>3 DEF MediaTyped
  <2> QED BY <1>0, <1>1, <2>1, MediaPassOver DEF MediaTyped
<1>5. Limited'
  <2>1. /\ IsFiniteSet(Media!Indexed(v2')) /\ Cardinality(Media!Indexed(v2')) <= Cap
    <3>1. CASE v2' = v2
      BY <1>0, <3>1 DEF Limited
    <3>2. CASE v2' = v6.idx /\ ~Media!Over(v6.idx)
      <4>1. IsFiniteSet(Media!Indexed(v6.idx)) /\ Cardinality(Media!Indexed(v6.idx)) \in Nat
        BY <1>0, FS_CardinalityType DEF Limited
      <4>2. ~(Cardinality(Media!Indexed(v6.idx)) > Cap)
        BY <3>2, SameCount DEF Media!Over
      <4> QED BY <3>2, <4>1, <4>2, BoundsAreNumbers
    <3> QED BY <1>3, <3>1, <3>2
  <2>2. /\ Media!Indexed(v6.idx)' = {} /\ Media!Indexed(v2)' = Media!Indexed(v2')
        /\ Media!Indexed(v8.idx)' = Media!Indexed(v8.idx)
    BY <1>2, NoneListed DEF Media!Indexed
  <2> QED BY <1>0, <1>1, <1>2, <2>1, <2>2, NoneListed DEF Limited
<1>6. Counted'
  <2>1. CASE Media!NothingToWrite
    <3>1. v2' = v2 /\ v14' = v14 /\ v6.pc = "idle" /\ v6.added = {}
      BY <1>0, <2>1 DEF Media!NothingToWrite, Media!stored, MediaTyped
    <3> QED BY <1>0, <1>1, <1>2, <3>1 DEF Counted
  <2>2. CASE Media!WriteIndex
    <3>1. v2' = v6.idx /\ v14' = (v14 \/ v8.pc = "delete") /\ v6.pc = "evict"
      BY <2>2 DEF Media!WriteIndex
    <3>2. Media!Indexed(v2)' = Media!Indexed(v6.idx)
      BY <3>1 DEF Media!Indexed
    <3> QED BY <1>0, <1>1, <1>2, <3>1, <3>2 DEF Counted
  <2>3. CASE Media!PassFails
    BY <2>3 DEF Media!PassFails, Counted
  <2> QED BY <2>1, <2>2, <2>3
<1> QED BY <1>4, <1>5, <1>6 DEF MediaInv


\* The sweep waits, reads the index, writes its copy back or gives up.
LEMMA MediaSweeps ==
  ASSUME MediaInv,
         Media!StartSweep \/ Media!SweepReads \/ Media!SweepWrites \/ Media!SweepFails
  PROVE  MediaInv'
<1> DEFINE Sweep == [pc : {"idle", "wait", "delete"}, ahead : Int, idx : Media!Index]
           none == [pc |-> "idle", ahead |-> 0, idx |-> Media!Empty]
<1>0. MediaTyped /\ Limited /\ Counted /\ v8 \in Sweep
  BY DEF MediaInv, MediaTyped
<1>n. none \in Sweep /\ none.pc = "idle" /\ none.idx = Media!Empty /\ Media!NoSweep = none
  BY NoneListed DEF Media!NoSweep
<1> HIDE DEF none
<1>1. v1' = v1 /\ v3' = v3 /\ v4' = v4 /\ v6' = v6 /\ v9' = v9 /\ v13' = v13 /\ v7' \in Int
  BY <1>0 DEF Media!StartSweep, Media!SweepReads, Media!SweepWrites, Media!SweepFails,
     Media!stored, Media!account, MediaTyped
<1>2. CASE Media!StartSweep
  <2>1. /\ v8' = [pc |-> "wait", ahead |-> v7 + 1, idx |-> Media!Empty] /\ v8.pc = "idle"
        /\ v2' = v2 /\ v14' = v14
    BY <1>2 DEF Media!StartSweep, Media!stored
  <2>2. v8' \in Sweep /\ v8'.pc = "wait" /\ v8'.idx = Media!Empty
    BY <1>0, <2>1, NoneListed DEF MediaTyped
  <2>3. MediaTyped'
    BY <1>0, <1>1, <2>1, <2>2 DEF MediaTyped
  <2>4. Limited'
    BY <1>0, <1>1, <2>1, <2>2, NoneListed, BoundsAreNumbers DEF Limited
  <2>5. Counted'
    BY <1>0, <1>1, <2>1, <2>2 DEF Counted
  <2> QED BY <2>3, <2>4, <2>5 DEF MediaInv
<1>3. CASE Media!SweepReads
  <2>1. /\ v8' = IF Media!Expired(v2) = {} THEN none ELSE [v8 EXCEPT !.pc = "delete", !.idx = v2]
        /\ v8.pc = "wait" /\ v2' = v2 /\ v14' = v14
    BY <1>3, <1>n DEF Media!SweepReads, Media!stored
  <2>2. /\ v8' \in Sweep
        /\ \/ v8'.pc = "idle" /\ v8'.idx = Media!Empty
           \/ v8'.pc = "delete" /\ v8'.idx = v2
    <3>1. CASE Media!Expired(v2) = {}
      BY <1>n, <2>1, <3>1
    <3>2. CASE Media!Expired(v2) # {}
      <4>1. v8' = [v8 EXCEPT !.pc = "delete", !.idx = v2] /\ v2 \in Media!Index
        BY <1>0, <2>1, <3>2 DEF MediaTyped
      <4> QED BY <1>0, <4>1
    <3> QED BY <3>1, <3>2
  <2>3. MediaTyped'
    BY <1>0, <1>1, <2>1, <2>2 DEF MediaTyped
  <2>4. Limited'
    BY <1>0, <1>1, <2>1, <2>2, NoneListed, BoundsAreNumbers DEF Limited
  <2>5. Counted'
    BY <1>0, <1>1, <2>1, <2>2 DEF Counted, MediaTyped
  <2> QED BY <2>3, <2>4, <2>5 DEF MediaInv
<1>4. CASE Media!SweepWrites
  <2>1. v8' = none /\ v8.pc = "delete" /\ v2' = v8.idx /\ v14' = (v14 \/ v6.pc # "idle")
    BY <1>4, <1>n DEF Media!SweepWrites
  <2>2. MediaTyped'
    BY <1>0, <1>1, <1>n, <2>1 DEF MediaTyped
  <2>3. Limited'
    BY <1>0, <1>1, <1>n, <2>1, NoneListed, BoundsAreNumbers DEF Limited
  <2>4. Counted'
    BY <1>0, <1>1, <1>n, <2>1 DEF Counted, MediaTyped
  <2> QED BY <2>2, <2>3, <2>4 DEF MediaInv
<1>5. CASE Media!SweepFails
  <2>1. v8' = none /\ v14' /\ v2' = v2
    BY <1>5, <1>n DEF Media!SweepFails, Media!stored
  <2>2. MediaTyped'
    BY <1>0, <1>1, <1>n, <2>1 DEF MediaTyped
  <2>3. Limited'
    BY <1>0, <1>1, <1>n, <2>1, NoneListed, BoundsAreNumbers DEF Limited
  <2>4. Counted'
    BY <2>1 DEF Counted
  <2> QED BY <2>2, <2>3, <2>4 DEF MediaInv
<1> QED BY <1>2, <1>3, <1>4, <1>5

\* The clearing at log-out, and a restart.
LEMMA MediaClears ==
  ASSUME MediaInv, Media!StartClear \/ Media!Clear \/ Media!ClearFails \/ Media!Restart
  PROVE  MediaInv'
<1>0. MediaTyped /\ Limited /\ Counted
  BY DEF MediaInv
<1>1. CASE Media!StartClear
  <2>1. /\ v1' = v1 /\ v2' = v2 /\ v3' = {} /\ v4' = {} /\ v6' = v6 /\ v7' = v7 /\ v8' = v8
        /\ v9' = [pc |-> "wait", ahead |-> v7] /\ v13' = v13 /\ v14' = v14
    BY <1>1 DEF Media!StartClear, Media!stored
  <2>2. MediaTyped'
    BY <1>0, <2>1 DEF MediaTyped
  <2>3. Limited'
    BY <1>0, <2>1, NoneListed DEF Limited
  <2>4. Counted'
    BY <1>0, <2>1 DEF Counted
  <2> QED BY <2>2, <2>3, <2>4 DEF MediaInv
<1>2. CASE Media!Clear
  <2>1. /\ v1' = {} /\ v2' = Media!Empty /\ v3' = v3 /\ v4' = v4 /\ v6' = v6 /\ v7' = v7 /\ v8' = v8
        /\ v9' = [pc |-> "idle", ahead |-> 0] /\ v13' = v13
        /\ v14' = (v14 \/ v6.pc # "idle" \/ v8.pc = "delete" \/ v4 # {})
    BY <1>2 DEF Media!Clear, Media!NoClear, Media!account
  <2>2. MediaTyped'
    BY <1>0, <2>1, NoneListed DEF MediaTyped
  <2>3. Limited'
    BY <1>0, <2>1, NoneListed, BoundsAreNumbers DEF Limited
  <2>4. Counted'
    BY <1>0, <2>1, NoneListed DEF Counted, MediaTyped
  <2> QED BY <2>2, <2>3, <2>4 DEF MediaInv
<1>3. CASE Media!ClearFails
  <2>1. /\ v1' = v1 /\ v2' = v2 /\ v3' = v3 /\ v4' = v4 /\ v6' = v6 /\ v7' = v7 /\ v8' = v8
        /\ v9' = [pc |-> "idle", ahead |-> 0] /\ v13' = v13 /\ v14'
    BY <1>3 DEF Media!ClearFails, Media!NoClear, Media!account, Media!stored
  <2>2. MediaTyped'
    BY <1>0, <2>1 DEF MediaTyped
  <2>3. Limited'
    BY <1>0, <2>1 DEF Limited
  <2>4. Counted'
    BY <2>1 DEF Counted
  <2> QED BY <2>2, <2>3, <2>4 DEF MediaInv
<1>4. CASE Media!Restart
  <2>1. /\ v1' = v1 /\ v2' = v2 /\ v3' = {} /\ v4' = {} /\ v7' = 0 /\ v13' = v13
        /\ v6' = [pc |-> "idle", added |-> {}, used |-> {}, idx |-> Media!Empty]
        /\ v8' = [pc |-> "idle", ahead |-> 0, idx |-> Media!Empty]
        /\ v9' = [pc |-> "idle", ahead |-> 0]
        /\ v14' = (v14 \/ v4 # {} \/ v6.pc # "idle" \/ v8.pc = "delete" \/ v9.pc # "idle")
    BY <1>4 DEF Media!Restart, Media!NoPass, Media!NoSweep, Media!NoClear, Media!stored
  <2>2. MediaTyped'
    BY <1>0, <2>1, NoneListed DEF MediaTyped
  <2>3. Limited'
    BY <1>0, <2>1, NoneListed, BoundsAreNumbers DEF Limited
  <2>4. Counted'
    BY <1>0, <2>1 DEF Counted, MediaTyped
  <2> QED BY <2>2, <2>3, <2>4 DEF MediaInv
<1> QED BY <1>1, <1>2, <1>3, <1>4

\* mediaCache.ts: however many pictures there are, the index never lists more than
\* the limit, and outside the overlaps MediaCache names it lists every file that no
\* pass has still to list and none that is gone.
THEOREM IndexAccounts == Spec => []Accounted
<1> DEFINE Inv == part = "media" => MediaInv
<1>1. Init => Inv
  <2> SUFFICES ASSUME Media!Init PROVE MediaInv
    BY DEF Init
  <2>1. /\ v1 = {} /\ v2 = Media!Empty /\ v3 = {} /\ v4 = {} /\ v7 = 0 /\ v13 = 1
        /\ v6 = [pc |-> "idle", added |-> {}, used |-> {}, idx |-> Media!Empty]
        /\ v8 = [pc |-> "idle", ahead |-> 0, idx |-> Media!Empty]
        /\ v9 = [pc |-> "idle", ahead |-> 0]
    BY DEF Media!Init, Media!NoPass, Media!NoSweep, Media!NoClear
  <2>2. MediaTyped
    BY <2>1, NoneListed, BoundsAreNumbers DEF MediaTyped
  <2>3. Limited
    BY <2>1, NoneListed, BoundsAreNumbers DEF Limited
  <2>4. Counted
    BY <2>1, NoneListed DEF Counted
  <2> QED BY <2>2, <2>3, <2>4 DEF MediaInv
<1>2. Inv /\ [Next]_vars => Inv'
  <2> SUFFICES ASSUME Inv, [Next]_vars, part' = "media" PROVE MediaInv'
    OBVIOUS
  <2>1. part = "media" /\ [Media!Next]_(Media!vars)
    BY DEF Next, Step, vars, Media!vars
  <2>2. MediaInv /\ MediaTyped
    BY <2>1 DEF MediaInv
  <2>3. CASE Media!Next
    BY <2>2, <2>3, MediaResting, MediaRestKeeps, MediaWritten, MediaPutOut, MediaPass,
       MediaPassEnds, MediaSweeps, MediaClears DEF Media!Next
  <2>4. CASE UNCHANGED Media!vars
    BY <2>2, <2>4, MediaResting, MediaRestKeeps
  <2> QED BY <2>1, <2>3, <2>4
<1>3. Inv => Accounted
  BY SameCount DEF MediaInv, Limited, Counted, Accounted, Media!Accounted
<1> QED BY <1>1, <1>2, <1>3, PTL DEF Spec

------------------------------------------------------------------------------
(* The list of posts (Feed): v1 are the posts of the server by word and v2    *)
(* the word that is typed, v3 the debounce, v4 and v5 the list and its        *)
(* offset, v8 the loads, v9 the saved page, v10 the word of the list and v11  *)
(* the excuse.                                                                *)

Sought == {None, "w"}

Starts(p, s) == Len(p) <= Len(s) /\ \A i \in 1 .. Len(p) : p[i] = s[i]

Loaded == [pc : {"idle", "asked", "served"}, text : Sought, reset : BOOLEAN, offset : Nat,
           items : Seq(Nat), before : SUBSET X, over : BOOLEAN]

FeedTyped ==
  /\ v1 \in [Sought -> Seq(Nat)] /\ v4 \in Seq(Nat) /\ v9 \in Seq(Nat) /\ v5 \in Nat
  /\ v2 \in Sought /\ v10 \in Sought /\ v8 \in [X -> Loaded]

Busy(l) == v8[l].pc # "idle"

\* The loads under way stand in the order in which they began.
Ordered ==
  \A l \in X : /\ Busy(l) \/ v8[l].before = {}
               /\ l \notin v8[l].before
               /\ \A m \in v8[l].before : Busy(m) /\ v8[m].before \subseteq v8[l].before

\* A load that is not left behind asks from the top, or for what follows the list, and
\* then nothing was under way when it began.
Asks(l) ==
  /\ v8[l].pc = "served" => v8[l].items = Posts!PageAt(v1[v8[l].text], v8[l].offset)
  /\ v8[l].reset => v8[l].offset = 0
  /\ ~v8[l].reset => /\ v8[l].text = v10 /\ v8[l].offset = Len(v4) /\ v8[l].before = {}
                     /\ (\A m \in X \ {l} : ~Busy(m)) => v5 = Len(v4)

\* A load from the top, for the word that is typed, which is not left behind.
Right(l) == Busy(l) /\ ~v8[l].over /\ v8[l].reset /\ v8[l].text = v2

\* Unless excused, the list begins what the server finds for its word, every load that
\* is not left behind asks well, once none is under way the next page is the one that
\* follows, and when the debounce is over the list is right, or a right load is under
\* way and one for another word began before such a one.
FedInOrder ==
  ~v11 => /\ Starts(v4, v1[v10])
          /\ \A l \in X : Busy(l) /\ ~v8[l].over => Asks(l)
          /\ (\A l \in X : ~Busy(l)) => v5 = Len(v4)
          /\ ~v3 => /\ v10 = v2 \/ \E m \in X : Right(m)
                    /\ \A l \in X : Busy(l) /\ ~v8[l].over /\ v8[l].text # v2 =>
                         \E m \in X : Right(m) /\ l \in v8[m].before

FeedInv == FeedTyped /\ Ordered /\ FedInOrder

\* A post comes or goes at a place in the list.
LEMMA PlacedInList ==
  ASSUME NEW T \in SUBSET Nat, NEW s \in Seq(T), NEW n \in T
  PROVE  /\ Posts!InsertAt(s, Posts!Place(s, n), n) \in Seq(T)
         /\ Posts!RemoveAt(s, Posts!Place(s, n)) \in Seq(T)
<1> DEFINE S == {i \in 1 .. Len(s) : s[i] > n}
           p == Posts!Place(s, n)
<1>1. Cardinality(S) \in Nat /\ Cardinality(S) <= Len(s)
  <2>1. IsFiniteSet(1 .. Len(s)) /\ Cardinality(1 .. Len(s)) = Len(s)
    <3>1. 1 \in Int /\ Len(s) \in Int
      OBVIOUS
    <3>2. /\ IsFiniteSet(1 .. Len(s))
          /\ Cardinality(1 .. Len(s)) = IF 1 > Len(s) THEN 0 ELSE Len(s) - 1 + 1
      BY <3>1, FS_Interval, Zenon
    <3>3. Len(s) \in Nat
      OBVIOUS
    <3>4. (IF 1 > Len(s) THEN 0 ELSE Len(s) - 1 + 1) = Len(s)
      BY <3>3
    <3> DEFINE c == Cardinality(1 .. Len(s))
               e == IF 1 > Len(s) THEN 0 ELSE Len(s) - 1 + 1
    <3>5. c = e /\ e = Len(s)
      BY <3>2, <3>4, Zenon
    <3> HIDE DEF e
    <3>6. c = Len(s)
      BY <3>5
    <3> QED BY <3>2, <3>6 DEF c
  <2>2. S \in SUBSET (1 .. Len(s))
    OBVIOUS
  <2> HIDE DEF S
  <2>3. IsFiniteSet(S) /\ Cardinality(S) <= Len(s)
    BY <2>1, <2>2, FS_Subset
  <2> QED BY <2>3, FS_CardinalityType
<1>2. p = Cardinality(S) + 1
  <2>1. Posts!Cardinality(S) = Cardinality(S)
    BY DEF Posts!Cardinality, Cardinality
  <2> QED BY <2>1 DEF Posts!Place
<1> HIDE DEF S, p
<1>3. p \in Nat /\ 1 <= p /\ p <= Len(s) + 1 /\ Len(s) \in Nat
  BY <1>1, <1>2
<1>4. /\ 1 \in Int /\ p - 1 \in Int /\ p \in Int /\ p + 1 \in Int /\ Len(s) \in Int
      /\ \A i \in 1 .. p - 1 : s[i] \in T
      /\ \A i \in p .. Len(s) : s[i] \in T
      /\ \A i \in p + 1 .. Len(s) : s[i] \in T
  BY <1>3
<1>5. /\ SubSeq(s, 1, p - 1) \in Seq(T) /\ SubSeq(s, p, Len(s)) \in Seq(T)
      /\ SubSeq(s, p + 1, Len(s)) \in Seq(T)
  BY <1>4, SubSeqProperties, Zenon
<1>6. <<n>> \in Seq(T)
  OBVIOUS
<1>7. SubSeq(s, 1, p - 1) \o <<n>> \in Seq(T)
  BY <1>5, <1>6, ConcatProperties, Zenon
<1>8. /\ SubSeq(s, 1, p - 1) \o <<n>> \o SubSeq(s, p, Len(s)) \in Seq(T)
      /\ SubSeq(s, 1, p - 1) \o SubSeq(s, p + 1, Len(s)) \in Seq(T)
  BY <1>5, <1>7, ConcatProperties, Zenon
<1> QED BY <1>8 DEF p, Posts!InsertAt, Posts!RemoveAt

\* What the server has stays lists of posts.
LEMMA ServerKeepsLists ==
  ASSUME NEW T \in SUBSET Nat, NEW n \in T, v1 \in [Sought -> Seq(T)],
         Posts!Appears(n) \/ Posts!Vanishes(n)
  PROVE  v1' \in [Sought -> Seq(T)]
<1>1. \A w \in Sought : v1[w] \in Seq(T)
  OBVIOUS
<1>2. CASE Posts!Appears(n)
  <2>1. v1' = [w \in Sought |-> IF Posts!Has(n, w)
                                  THEN Posts!InsertAt(v1[w], Posts!Place(v1[w], n), n)
                                  ELSE v1[w]]
    BY <1>2, Zenon DEF Posts!Appears, Sought
  <2>2. ASSUME NEW w \in Sought
        PROVE  Posts!InsertAt(v1[w], Posts!Place(v1[w], n), n) \in Seq(T)
    BY <1>1, PlacedInList
  <2> QED BY <1>1, <2>1, <2>2, Zenon
<1>3. CASE Posts!Vanishes(n)
  <2>1. v1' = [w \in Sought |-> IF Posts!Has(n, w)
                                  THEN Posts!RemoveAt(v1[w], Posts!Place(v1[w], n))
                                  ELSE v1[w]]
    BY <1>3, Zenon DEF Posts!Vanishes, Sought
  <2>2. ASSUME NEW w \in Sought
        PROVE  Posts!RemoveAt(v1[w], Posts!Place(v1[w], n)) \in Seq(T)
    BY <1>1, PlacedInList
  <2> QED BY <1>1, <2>1, <2>2, Zenon
<1> QED BY <1>2, <1>3

\* A page is what follows the place it was asked at.
LEMMA PageFollows ==
  ASSUME NEW s \in Seq(Nat), NEW n \in Nat, n <= Len(s)
  PROVE  /\ Posts!PageAt(s, n) \in Seq(Nat)
         /\ n + Len(Posts!PageAt(s, n)) <= Len(s)
         /\ \A i \in 1 .. Len(Posts!PageAt(s, n)) : Posts!PageAt(s, n)[i] = s[n + i]
<1> DEFINE e == IF n + PostsPage < Len(s) THEN n + PostsPage ELSE Len(s)
<1>1. e \in Nat /\ n <= e /\ e <= Len(s)
  BY BoundsAreNumbers
<1>2. Posts!PageAt(s, n) = SubSeq(s, n + 1, e)
  BY DEF Posts!PageAt
<1> HIDE DEF e
<1>3. /\ n + 1 \in Int /\ e \in Int /\ e - (n + 1) + 1 = e - n
      /\ (IF n + 1 <= e THEN e - (n + 1) + 1 ELSE 0) = e - n
      /\ \A i \in n + 1 .. e : s[i] \in Nat
      /\ \A i \in 1 .. e - n : n + 1 + i - 1 = n + i
  BY <1>1
<1>4. /\ SubSeq(s, n + 1, e) \in Seq(Nat) /\ Len(SubSeq(s, n + 1, e)) = e - n
      /\ \A i \in 1 .. e - n : SubSeq(s, n + 1, e)[i] = s[n + i]
  <2>1. SubSeq(s, n + 1, e) \in Seq(Nat)
    BY <1>3, SubSeqProperties, Zenon
  <2>2. Len(SubSeq(s, n + 1, e)) = IF n + 1 <= e THEN e - (n + 1) + 1 ELSE 0
    BY <1>3, SubSeqProperties
  <2>3. \A i \in 1 .. e - (n + 1) + 1 : SubSeq(s, n + 1, e)[i] = s[n + 1 + i - 1]
    BY <1>3, SubSeqProperties
  <2> QED BY <1>3, <2>1, <2>2, <2>3, Zenon
<1> QED BY <1>1, <1>2, <1>4

LEMMA PageIsSeq ==
  ASSUME NEW s \in Seq(Nat), NEW n \in Nat PROVE Posts!PageAt(s, n) \in Seq(Nat)
<1> DEFINE e == IF n + PostsPage < Len(s) THEN n + PostsPage ELSE Len(s)
<1>1. n + 1 \in Int /\ e \in Int /\ \A i \in n + 1 .. e : s[i] \in Nat
  BY BoundsAreNumbers
<1>2. Posts!PageAt(s, n) = SubSeq(s, n + 1, e)
  BY DEF Posts!PageAt
<1> HIDE DEF e
<1>3. SubSeq(s, n + 1, e) \in Seq(Nat)
  BY <1>1, SubSeqProperties, Zenon
<1> QED BY <1>2, <1>3

LEMMA FirstPageStarts ==
  ASSUME NEW s \in Seq(Nat)
  PROVE  Posts!PageAt(s, 0) \in Seq(Nat) /\ Starts(Posts!PageAt(s, 0), s)
<1>1. 0 \in Nat /\ 0 <= Len(s)
  OBVIOUS
<1> QED BY <1>1, PageFollows DEF Starts

\* The list with the page that follows it begins the same.
LEMMA NextPageStarts ==
  ASSUME NEW s \in Seq(Nat), NEW p \in Seq(Nat), Starts(p, s)
  PROVE  LET g == Posts!PageAt(s, Len(p)) IN
           g \in Seq(Nat) /\ Starts(p \o g, s) /\ Len(p \o g) = Len(p) + Len(g)
<1> DEFINE g == Posts!PageAt(s, Len(p))
<1>1. /\ g \in Seq(Nat) /\ Len(p) + Len(g) <= Len(s) /\ Len(p) \in Nat
      /\ \A i \in 1 .. Len(g) : g[i] = s[Len(p) + i]
  BY PageFollows DEF Starts
<1> HIDE DEF g
<1>2. /\ Len(p \o g) = Len(p) + Len(g)
      /\ \A i \in 1 .. Len(p \o g) :
           (p \o g)[i] = IF i <= Len(p) THEN p[i] ELSE g[i - Len(p)]
  BY <1>1
<1>3. \A i \in 1 .. Len(p \o g) : (p \o g)[i] = s[i]
  <2> SUFFICES ASSUME NEW i \in 1 .. Len(p \o g) PROVE (p \o g)[i] = s[i]
    OBVIOUS
  <2>1. CASE i <= Len(p)
    BY <1>2, <2>1 DEF Starts
  <2>2. CASE i > Len(p)
    <3>1. i - Len(p) \in 1 .. Len(g) /\ Len(p) + (i - Len(p)) = i
      BY <1>1, <1>2, <2>2
    <3> QED BY <1>1, <1>2, <2>2, <3>1
  <2> QED BY <1>1, <2>1, <2>2
<1>4. Starts(p \o g, s)
  BY <1>1, <1>2, <1>3 DEF Starts
<1> QED BY <1>1, <1>2, <1>4 DEF g

\* load() starts.
LEMMA FeedBegins ==
  ASSUME FeedInv, NEW l \in X, Posts!Mount(l) \/ Posts!Debounced(l) \/ Posts!More(l)
  PROVE  FeedInv'
<1>0. FeedTyped /\ Ordered /\ FedInOrder
  BY DEF FeedInv
<1>1. PICK r \in BOOLEAN : Posts!Begin(l, r) /\ v5' \in Nat /\ (~r => v5' = v5 /\ v3' = v3)
  <2>1. v5 \in Nat /\ 0 \in Nat
    BY <1>0 DEF FeedTyped
  <2> QED BY <2>1 DEF Posts!Mount, Posts!Debounced, Posts!More
<1> DEFINE n == [pc |-> "asked", text |-> v2, reset |-> r, offset |-> IF r THEN 0 ELSE v5,
                 items |-> <<>>, before |-> {m \in X : Busy(m)}, over |-> FALSE]
<1>2. /\ v8[l].pc = "idle" /\ v8' = [v8 EXCEPT ![l] = n]
      /\ v1' = v1 /\ v2' = v2 /\ v4' = v4 /\ v9' = v9 /\ v10' = v10
  BY <1>1 DEF Posts!Begin, Posts!InFlight, Busy
<1>3. ~v11' => ~v11 /\ (~r => v2 = v10 /\ \A m \in X : ~Busy(m))
  BY <1>1 DEF Posts!Begin, Posts!InFlight, Busy
<1>4. /\ n \in Loaded
      /\ n.pc = "asked" /\ n.text = v2 /\ n.reset = r /\ n.offset = (IF r THEN 0 ELSE v5)
      /\ n.before = {m \in X : Busy(m)} /\ n.over = FALSE
  <2>1. (IF r THEN 0 ELSE v5) \in Nat /\ v2 \in Sought
    BY <1>0 DEF FeedTyped
  <2>2. <<>> \in Seq(Nat)
    OBVIOUS
  <2> QED BY <2>1, <2>2 DEF Loaded
<1> HIDE DEF n
<1>5. v8' = [m \in X |-> IF m = l THEN n ELSE v8[m]]
  BY <1>0, <1>2 DEF FeedTyped
<1>a. /\ v8'[l] = n /\ \A m \in X \ {l} : v8'[m] = v8[m]
      /\ ~Busy(l) /\ Busy(l)' /\ \A m \in X \ {l} : Busy(m)' <=> Busy(m)
  BY <1>2, <1>4, <1>5 DEF Busy
<1>6. FeedTyped'
  BY <1>0, <1>1, <1>2, <1>4, <1>5 DEF FeedTyped
<1>7. Ordered'
  <2>1. ASSUME NEW m \in X, m # l
        PROVE  /\ Busy(m)' \/ v8'[m].before = {}
               /\ m \notin v8'[m].before
               /\ \A k \in v8'[m].before :
                    k \in X \ {l} /\ Busy(k) /\ v8'[k].before \subseteq v8'[m].before
    <3>1. \A k \in v8[m].before : k \in X
      BY <1>0 DEF FeedTyped, Loaded
    <3>2. \A k \in v8[m].before : k # l
      BY <1>0, <1>a DEF Ordered
    <3> QED BY <1>0, <1>a, <2>1, <3>1, <3>2 DEF Ordered
  <2>2. /\ l \notin v8'[l].before
        /\ \A k \in v8'[l].before :
             k \in X \ {l} /\ Busy(k) /\ v8'[k].before \subseteq v8'[l].before
    <3>1. v8'[l].before = {m \in X : Busy(m)}
      BY <1>4, <1>a
    <3>2. ASSUME NEW k \in X, Busy(k), NEW j \in v8[k].before PROVE j \in X /\ Busy(j)
      <4>1. v8[k].before \subseteq X
        BY <1>0 DEF FeedTyped, Loaded
      <4> QED BY <1>0, <3>2, <4>1 DEF Ordered
    <3> QED BY <1>a, <3>1, <3>2
  <2>3. ASSUME NEW m \in X
        PROVE  /\ Busy(m)' \/ v8'[m].before = {}
               /\ m \notin v8'[m].before
               /\ \A k \in v8'[m].before :
                    Busy(k)' /\ v8'[k].before \subseteq v8'[m].before
    BY <1>a, <2>1, <2>2
  <2> QED BY <2>3 DEF Ordered
<1>8. FedInOrder'
  <2>1. SUFFICES ASSUME ~v11' PROVE FedInOrder'
    BY DEF FedInOrder
  <2>2. ~v11 /\ (~r => v2 = v10 /\ \A m \in X : ~Busy(m))
    BY <1>3, <2>1
  <2>3. Starts(v4, v1[v10])'
    BY <1>0, <1>2, <2>2 DEF FedInOrder, Starts
  <2>4. Asks(l)'
    <3>1. CASE r
      BY <1>4, <1>a, <3>1 DEF Asks
    <3>2. CASE ~r
      <4>1. v5' = v5 /\ v5 = Len(v4) /\ v2 = v10
        BY <1>0, <1>1, <2>2, <3>2 DEF FedInOrder
      <4>2. v8'[l].before = {}
        BY <1>4, <1>a, <2>2, <3>2
      <4> QED BY <1>2, <1>4, <1>a, <3>2, <4>1, <4>2 DEF Asks
    <3> QED BY <1>1, <3>1, <3>2
  <2>5. ASSUME NEW m \in X, m # l, Busy(m), ~v8[m].over PROVE Asks(m)'
    <3>1. v8'[m] = v8[m] /\ Asks(m)
      BY <1>0, <1>a, <2>2, <2>5 DEF FedInOrder
    <3>2. l \in X \ {m} /\ Busy(l)'
      BY <1>a, <2>5
    <3> QED BY <1>2, <3>1, <3>2 DEF Asks
  <2>6. ~v3' => /\ v10' = v2' \/ \E m \in X : Right(m)'
                /\ \A k \in X : Busy(k)' /\ ~v8'[k].over /\ v8'[k].text # v2' =>
                      \E m \in X : Right(m)' /\ k \in v8'[m].before
    <3>1. CASE r
      <4>1. Right(l)'
        BY <1>2, <1>4, <1>a, <3>1 DEF Right
      <4>2. \A k \in X : Busy(k)' /\ v8'[k].text # v2' => k \in v8'[l].before
        BY <1>2, <1>4, <1>a
      <4> QED BY <4>1, <4>2
    <3>2. CASE ~r
      BY <1>2, <1>4, <1>a, <2>2, <3>2
    <3> QED BY <1>1, <3>1, <3>2
  <2> QED BY <1>a, <2>3, <2>4, <2>5, <2>6 DEF FedInOrder
<1> QED BY <1>6, <1>7, <1>8 DEF FeedInv

\* A load is served.
LEMMA FeedServed ==
  ASSUME FeedInv, NEW l \in X, Posts!Serve(l)
  PROVE  FeedInv'
<1>0. FeedTyped /\ Ordered /\ FedInOrder
  BY DEF FeedInv
<1> DEFINE g == Posts!PageAt(v1[v8[l].text], v8[l].offset)
           n == [v8[l] EXCEPT !.pc = "served", !.items = g]
<1>1. /\ v8[l] \in Loaded
      /\ v8[l].pc = "asked" /\ v1' = v1 /\ v2' = v2 /\ v3' = v3 /\ v4' = v4 /\ v5' = v5
      /\ v9' = v9 /\ v10' = v10 /\ v11' = v11 /\ v8' = [v8 EXCEPT ![l] = n]
  BY <1>0 DEF Posts!Serve, Posts!screen, FeedTyped
<1>3. g \in Seq(Nat)
  <2>1. v1[v8[l].text] \in Seq(Nat) /\ v8[l].offset \in Nat
    BY <1>0, <1>1 DEF FeedTyped, Loaded
  <2> QED BY <2>1, PageIsSeq
<1>g. g = Posts!PageAt(v1[v8[l].text], v8[l].offset)
  OBVIOUS
<1> HIDE DEF g
<1>4. /\ n \in Loaded
      /\ n.pc = "served" /\ n.text = v8[l].text /\ n.reset = v8[l].reset
      /\ n.offset = v8[l].offset /\ n.items = g /\ n.before = v8[l].before
      /\ n.over = v8[l].over
  BY <1>1, <1>3 DEF Loaded
<1> HIDE DEF n
<1>a. v8'[l] = n /\ \A m \in X \ {l} : v8'[m] = v8[m]
  BY <1>0, <1>1 DEF FeedTyped
<1>b. \A m \in X : /\ Busy(m)' <=> Busy(m)
                   /\ v8'[m].before = v8[m].before /\ v8'[m].over = v8[m].over
                   /\ v8'[m].text = v8[m].text /\ v8'[m].reset = v8[m].reset
                   /\ v8'[m].offset = v8[m].offset
  BY <1>1, <1>4, <1>a DEF Busy
<1>6. FeedTyped'
  BY <1>0, <1>1, <1>4 DEF FeedTyped
<1>7. Ordered'
  <2>1. \A m \in X : v8[m].before \subseteq X
    BY <1>0 DEF FeedTyped, Loaded
  <2> QED BY <1>0, <1>b, <2>1 DEF Ordered
<1>8. FedInOrder'
  <2>1. SUFFICES ASSUME ~v11 PROVE FedInOrder'
    BY <1>1 DEF FedInOrder
  <2>2. Starts(v4, v1[v10])'
    BY <1>0, <1>1, <2>1 DEF FedInOrder, Starts
  <2>3. ASSUME NEW m \in X, Busy(m), ~v8[m].over PROVE Asks(m)'
    <3>1. Asks(m)
      BY <1>0, <2>1, <2>3 DEF FedInOrder
    <3>2. v8'[m].pc = "served" =>
            v8'[m].items = Posts!PageAt(v1'[v8'[m].text], v8'[m].offset)
      <4>1. CASE m = l
        BY <1>1, <1>4, <1>a, <1>g, <4>1
      <4>2. CASE m # l
        BY <1>1, <1>a, <3>1, <4>2 DEF Asks
      <4> QED BY <4>1, <4>2
    <3>3. Posts!PageAt(v1[v8[m].text], v8[m].offset)'
            = Posts!PageAt(v1'[v8'[m].text], v8'[m].offset)
      BY DEF Posts!PageAt
    <3> QED BY <1>1, <1>b, <3>1, <3>2, <3>3 DEF Asks
  <2>4. \A m \in X : Right(m)' <=> Right(m)
    BY <1>1, <1>b DEF Right
  <2> QED BY <1>0, <1>1, <1>b, <2>1, <2>2, <2>3, <2>4 DEF FedInOrder
<1> QED BY <1>6, <1>7, <1>8 DEF FeedInv

\* The saved page is shown.
LEMMA FeedShowsSaved ==
  ASSUME FeedInv, NEW l \in X, Posts!ShowSaved(l)
  PROVE  FeedInv'
<1>0. FeedTyped /\ Ordered /\ FedInOrder
  BY DEF FeedInv
<1>1. /\ v8[l].pc # "idle" /\ v8[l].reset /\ v8[l].text = None
      /\ v4' = v9 /\ v5' = Len(v9) /\ v10' = v8[l].text
      /\ v8' = [m \in X |-> [v8[m] EXCEPT !.over = @ \/ ~v8[m].reset]]
      /\ v1' = v1 /\ v2' = v2 /\ v3' = v3 /\ v9' = v9
  BY DEF Posts!ShowSaved, Posts!Cacheable, Posts!Apply
<1>2. ~v11' => ~v11 /\ ~v8[l].over /\ v9 = Posts!PageAt(v1[None], 0)
  BY DEF Posts!ShowSaved
<1>b. \A m \in X : /\ v8'[m] \in Loaded /\ (Busy(m)' <=> Busy(m)) /\ v8'[m].pc = v8[m].pc
                   /\ v8'[m].before = v8[m].before
                   /\ v8'[m].over = (v8[m].over \/ ~v8[m].reset)
                   /\ v8'[m].text = v8[m].text /\ v8'[m].reset = v8[m].reset
                   /\ v8'[m].offset = v8[m].offset /\ v8'[m].items = v8[m].items
  <2> SUFFICES ASSUME NEW m \in X
               PROVE  /\ v8'[m] \in Loaded /\ v8'[m].pc = v8[m].pc
                      /\ v8'[m].before = v8[m].before
                      /\ v8'[m].over = (v8[m].over \/ ~v8[m].reset)
                      /\ v8'[m].text = v8[m].text /\ v8'[m].reset = v8[m].reset
                      /\ v8'[m].offset = v8[m].offset /\ v8'[m].items = v8[m].items
    BY DEF Busy
  <2>1. v8[m] \in Loaded /\ v8'[m] = [v8[m] EXCEPT !.over = @ \/ ~v8[m].reset]
    BY <1>0, <1>1 DEF FeedTyped
  <2> QED BY <2>1 DEF Loaded
<1>3. FeedTyped'
  <2>1. v9 \in Seq(Nat) /\ Len(v9) \in Nat
    BY <1>0 DEF FeedTyped
  <2>2. v10' \in Sought
    BY <1>1 DEF Sought
  <2>3. v8' \in [X -> Loaded]
    BY <1>1, <1>b
  <2> QED BY <1>0, <1>1, <2>1, <2>2, <2>3 DEF FeedTyped
<1>4. Ordered'
  <2>1. \A m \in X : v8[m].before \subseteq X
    BY <1>0 DEF FeedTyped, Loaded
  <2> QED BY <1>0, <1>b, <2>1 DEF Ordered
<1>5. FedInOrder'
  <2>1. SUFFICES ASSUME ~v11' PROVE FedInOrder'
    BY DEF FedInOrder
  <2>2. ~v11 /\ ~v8[l].over /\ v9 = Posts!PageAt(v1[None], 0)
    BY <1>2, <2>1
  <2>3. Starts(v4, v1[v10])'
    <3>1. v1[None] \in Seq(Nat)
      BY <1>0 DEF FeedTyped, Sought
    <3>2. Starts(v9, v1[None])
      BY <2>2, <3>1, FirstPageStarts
    <3> QED BY <1>1, <3>2 DEF Starts
  <2>4. ASSUME NEW m \in X, Busy(m), ~v8'[m].over PROVE Asks(m)'
    <3>1. Asks(m) /\ v8[m].reset
      BY <1>0, <1>b, <2>2, <2>4 DEF FedInOrder
    <3> QED BY <1>1, <1>b, <3>1 DEF Asks
  <2>5. \A m \in X : Right(m) => Right(m)'
    BY <1>1, <1>b DEF Right
  <2>6. Busy(l) /\ Busy(l)'
    BY <1>1, <1>b DEF Busy
  <2>7. ASSUME ~v3
        PROVE  /\ v10' = v2' \/ \E m \in X : Right(m)'
               /\ \A k \in X : Busy(k)' /\ ~v8'[k].over /\ v8'[k].text # v2' =>
                      \E m \in X : Right(m)' /\ k \in v8'[m].before
    <3>1. \A k \in X : Busy(k) /\ ~v8[k].over /\ v8[k].text # v2 =>
                      \E m \in X : Right(m) /\ k \in v8[m].before
      BY <1>0, <2>2, <2>7 DEF FedInOrder
    <3>2. v10' = v2' \/ \E m \in X : Right(m)
      BY <1>1, <2>2, <2>6, <3>1
    <3>3. ASSUME NEW k \in X, Busy(k)', ~v8'[k].over, v8'[k].text # v2'
          PROVE  \E m \in X : Right(m)' /\ k \in v8'[m].before
      <4>1. Busy(k) /\ ~v8[k].over /\ v8[k].text # v2
        BY <1>1, <1>b, <3>3
      <4>2. PICK m \in X : Right(m) /\ k \in v8[m].before
        BY <3>1, <4>1
      <4> QED BY <1>b, <2>5, <4>2
    <3> QED BY <2>5, <3>2, <3>3
  <2> QED BY <1>1, <1>b, <2>3, <2>4, <2>6, <2>7 DEF FedInOrder
<1> QED BY <1>3, <1>4, <1>5 DEF FeedInv

\* The record of a load at rest.
LEMMA IdleIsLoaded ==
  Posts!Idle \in Loaded /\ Posts!Idle.pc = "idle" /\ Posts!Idle.before = {}
<1>1. <<>> \in Seq(Nat) /\ 0 \in Nat
  OBVIOUS
<1> QED BY <1>1 DEF Posts!Idle, Loaded, Sought

\* A load is over: the record of the load, and the order of the others.
LEMMA FeedEnds ==
  ASSUME FeedTyped, Ordered, NEW l \in X, NEW over,
         \A m \in X : over[m] \in BOOLEAN,
         v8' = [m \in X |-> IF m = l THEN Posts!Idle
                ELSE [v8[m] EXCEPT !.before = @ \ {l}, !.over = @ \/ over[m]]]
  PROVE  /\ v8' \in [X -> Loaded] /\ Ordered' /\ ~Busy(l)'
         /\ \A m \in X \ {l} :
              /\ (Busy(m)' <=> Busy(m)) /\ v8'[m].pc = v8[m].pc
              /\ v8'[m].before = v8[m].before \ {l}
              /\ v8'[m].over = (v8[m].over \/ over[m])
              /\ v8'[m].text = v8[m].text /\ v8'[m].reset = v8[m].reset
              /\ v8'[m].offset = v8[m].offset /\ v8'[m].items = v8[m].items
<1>1. /\ Posts!Idle \in Loaded /\ Posts!Idle.pc = "idle" /\ Posts!Idle.before = {}
  BY IdleIsLoaded
<1>2. v8'[l] = Posts!Idle /\ ~Busy(l)'
  BY <1>1 DEF Busy
<1>3. ASSUME NEW m \in X \ {l}
      PROVE  /\ v8'[m] \in Loaded /\ v8'[m].pc = v8[m].pc
             /\ v8'[m].before = v8[m].before \ {l}
             /\ v8'[m].over = (v8[m].over \/ over[m])
             /\ v8'[m].text = v8[m].text /\ v8'[m].reset = v8[m].reset
             /\ v8'[m].offset = v8[m].offset /\ v8'[m].items = v8[m].items
  <2>1. v8[m] \in Loaded /\ over[m] \in BOOLEAN
        /\ v8'[m] = [v8[m] EXCEPT !.before = @ \ {l}, !.over = @ \/ over[m]]
    BY DEF FeedTyped
  <2>2. v8[m].before \ {l} \in SUBSET X /\ (v8[m].over \/ over[m]) \in BOOLEAN
    BY <2>1 DEF Loaded
  <2> QED BY <2>1, <2>2 DEF Loaded
<1>4. \A m \in X \ {l} : Busy(m)' <=> Busy(m)
  BY <1>3 DEF Busy
<1>5. v8' \in [X -> Loaded]
  <2>1. \A m \in X : v8'[m] \in Loaded
    BY <1>1, <1>2, <1>3
  <2> QED BY <2>1
<1>6. Ordered'
  <2>1. \A m \in X : v8[m].before \subseteq X
    BY DEF FeedTyped, Loaded
  <2>2. ASSUME NEW m \in X \ {l}
        PROVE  /\ Busy(m)' \/ v8'[m].before = {}
               /\ m \notin v8'[m].before
               /\ \A k \in v8'[m].before :
                    Busy(k)' /\ v8'[k].before \subseteq v8'[m].before
    <3>1. /\ Busy(m) \/ v8[m].before = {}
          /\ m \notin v8[m].before
          /\ \A k \in v8[m].before : Busy(k) /\ v8[k].before \subseteq v8[m].before
      BY DEF Ordered
    <3>2. v8'[m].before = v8[m].before \ {l} /\ (Busy(m)' <=> Busy(m))
      BY <1>3, <1>4
    <3>3. ASSUME NEW k \in v8'[m].before
          PROVE  Busy(k)' /\ v8'[k].before \subseteq v8'[m].before
      <4>1. k \in v8[m].before /\ k \in X \ {l}
        BY <2>1, <3>2, <3>3
      <4>2. Busy(k) /\ v8[k].before \subseteq v8[m].before
        BY <3>1, <4>1
      <4>3. v8'[k].before = v8[k].before \ {l} /\ Busy(k)'
        BY <1>3, <1>4, <4>1, <4>2
      <4> QED BY <3>2, <4>2, <4>3
    <3> QED BY <3>1, <3>2, <3>3
  <2>3. v8'[l].before = {}
    BY <1>1, <1>2
  <2>4. ASSUME NEW m \in X
        PROVE  /\ Busy(m)' \/ v8'[m].before = {}
               /\ m \notin v8'[m].before
               /\ \A k \in v8'[m].before :
                    Busy(k)' /\ v8'[k].before \subseteq v8'[m].before
    <3>1. CASE m = l
      BY <2>3, <3>1
    <3>2. CASE m # l
      BY <2>2, <3>2
    <3> QED BY <3>1, <3>2
  <2> QED BY <2>4 DEF Ordered
<1> QED BY <1>2, <1>3, <1>4, <1>5, <1>6

\* A load fails.
LEMMA FeedFails ==
  ASSUME FeedInv, NEW l \in X, Posts!Fails(l)
  PROVE  FeedInv'
<1> DEFINE over == [m \in X |-> FALSE]
<1>0. FeedTyped /\ Ordered
  BY DEF FeedInv
<1>1. /\ v1' = v1 /\ v2' = v2 /\ v4' = v4 /\ v5' = v5 /\ v9' = v9 /\ v10' = v10 /\ v11'
      /\ v8' = [m \in X |-> IF m = l THEN Posts!Idle ELSE [v8[m] EXCEPT !.before = @ \ {l}]]
  BY DEF Posts!Fails, Posts!screen
<1>2. ASSUME NEW m \in X
      PROVE  [v8[m] EXCEPT !.before = @ \ {l}]
               = [v8[m] EXCEPT !.before = @ \ {l}, !.over = @ \/ over[m]]
  <2>1. v8[m] \in Loaded /\ over[m] = FALSE
    BY <1>0 DEF FeedTyped
  <2>2. (v8[m].over \/ over[m]) = v8[m].over
    BY <2>1 DEF Loaded
  <2> QED BY <2>1, <2>2 DEF Loaded
<1>3. \A m \in X : over[m] \in BOOLEAN
  OBVIOUS
<1> HIDE DEF over
<1>4. v8' = [m \in X |-> IF m = l THEN Posts!Idle
                ELSE [v8[m] EXCEPT !.before = @ \ {l}, !.over = @ \/ over[m]]]
  BY <1>1, <1>2
<1>5. v8' \in [X -> Loaded] /\ Ordered'
  BY <1>0, <1>3, <1>4, FeedEnds
<1> QED BY <1>0, <1>1, <1>5 DEF FeedInv, FeedTyped, FedInOrder

\* The answer of a load is taken.
LEMMA FeedAnswered ==
  ASSUME FeedInv, NEW l \in X, Posts!Answer(l)
  PROVE  FeedInv'
<1> DEFINE over == [m \in X |-> Posts!Overtaken(l, m)]
<1>0. FeedTyped /\ Ordered /\ FedInOrder
  BY DEF FeedInv
<1>1. /\ v8[l].pc = "served" /\ v1' = v1 /\ v2' = v2 /\ v3' = v3
      /\ v8' = [m \in X |-> IF m = l THEN Posts!Idle
                ELSE [v8[m] EXCEPT !.before = @ \ {l}, !.over = @ \/ over[m]]]
      /\ v9' = IF Posts!Cacheable(v8[l]) THEN v8[l].items ELSE v9
      /\ v11' = (~Posts!Reload(l) /\ (v11 \/ v8[l].over))
  BY DEF Posts!Answer
<1>2. /\ v8[l].reset => v4' = v8[l].items /\ v5' = Len(v8[l].items) /\ v10' = v8[l].text
      /\ ~v8[l].reset => v4' = v4 \o v8[l].items /\ v5' = v5 + Len(v8[l].items) /\ v10' = v10
  BY DEF Posts!Answer, Posts!Apply
<1>3. ASSUME NEW m \in X
      PROVE  /\ over[m] \in BOOLEAN
             /\ over[m] = (~v8[m].reset \/ (m \in v8[l].before /\ v8[m].text # v8[l].text))
  <2>1. v8[m] \in Loaded
    BY <1>0 DEF FeedTyped
  <2> QED BY <2>1 DEF Posts!Overtaken, Loaded
<1> HIDE DEF over
<1>4. /\ v8' \in [X -> Loaded] /\ Ordered' /\ ~Busy(l)'
      /\ \A m \in X \ {l} :
              /\ (Busy(m)' <=> Busy(m)) /\ v8'[m].pc = v8[m].pc
              /\ v8'[m].before = v8[m].before \ {l}
              /\ v8'[m].over = (v8[m].over \/ over[m])
              /\ v8'[m].text = v8[m].text /\ v8'[m].reset = v8[m].reset
              /\ v8'[m].offset = v8[m].offset /\ v8'[m].items = v8[m].items
  BY <1>0, <1>1, <1>3, FeedEnds
<1>5. /\ v8[l].text \in Sought /\ v8[l].offset \in Nat /\ v8[l].items \in Seq(Nat)
      /\ v8[l].reset \in BOOLEAN /\ v8[l].over \in BOOLEAN /\ v8[l].before \subseteq X
      /\ v4 \in Seq(Nat) /\ v5 \in Nat /\ Len(v8[l].items) \in Nat
  BY <1>0 DEF FeedTyped, Loaded
<1>6. FeedTyped'
  <2>1. v4' \in Seq(Nat)
    <3>1. v4 \o v8[l].items \in Seq(Nat)
      BY <1>5
    <3> QED BY <1>2, <1>5, <3>1
  <2>2. v5' \in Nat
    <3>1. v5 + Len(v8[l].items) \in Nat
      BY <1>5
    <3> QED BY <1>2, <1>5, <3>1
  <2>3. v9' \in Seq(Nat) /\ v10' \in Sought
    BY <1>0, <1>1, <1>2, <1>5 DEF FeedTyped
  <2> QED BY <1>0, <1>1, <1>4, <2>1, <2>2, <2>3 DEF FeedTyped
<1>b. Busy(l)
  BY <1>1 DEF Busy
<1>7. CASE Posts!Reload(l)
  <2>1. /\ v8[l].reset /\ v8[l].text = v2 /\ v8[l].items = Posts!PageAt(v1[v2], 0)
        /\ \A m \in X : Busy(m) <=> m = l
    BY <1>7 DEF Posts!Reload, Posts!InFlight, Busy
  <2>2. \A m \in X : ~Busy(m)'
    BY <1>4, <2>1
  <2>3. v1[v2] \in Seq(Nat)
    BY <1>0 DEF FeedTyped
  <2>4. Starts(v4, v1[v10])'
    <3>1. Starts(v8[l].items, v1[v2])
      BY <2>1, <2>3, FirstPageStarts
    <3>2. v4' = v8[l].items /\ v1'[v10'] = v1[v2]
      BY <1>1, <1>2, <2>1
    <3> QED BY <3>1, <3>2 DEF Starts
  <2>5. v5' = Len(v4') /\ v10' = v2'
    BY <1>1, <1>2, <2>1
  <2> QED BY <1>4, <1>6, <2>2, <2>4, <2>5 DEF FeedInv, FedInOrder
<1>8. CASE ~Posts!Reload(l) /\ v8[l].reset
  <2>1. SUFFICES ASSUME ~v11' PROVE FedInOrder'
    BY <1>4, <1>6 DEF FeedInv, FedInOrder
  <2>2. ~v11 /\ ~v8[l].over
    BY <1>1, <1>8, <2>1
  <2>3. Asks(l)
    BY <1>0, <1>b, <2>2 DEF FedInOrder
  <2>4. Starts(v4, v1[v10])'
    <3>1. v8[l].items = Posts!PageAt(v1[v8[l].text], 0)
      BY <1>1, <1>8, <2>3 DEF Asks
    <3>2. v1[v8[l].text] \in Seq(Nat)
      BY <1>0, <1>5 DEF FeedTyped
    <3>3. Starts(v8[l].items, v1[v8[l].text])
      BY <3>1, <3>2, FirstPageStarts
    <3> QED BY <1>1, <1>2, <1>8, <3>3 DEF Starts
  <2>5. ASSUME NEW m \in X \ {l}, ~v8'[m].over
        PROVE  /\ v8[m].reset /\ ~v8[m].over
               /\ m \notin v8[l].before \/ v8[m].text = v8[l].text
    <3>1. ~v8[m].over /\ ~over[m]
      BY <1>4, <2>5
    <3>2. v8[m].reset \in BOOLEAN
      BY <1>0 DEF FeedTyped, Loaded
    <3> QED BY <1>3, <3>1, <3>2
  <2>6. ASSUME NEW m \in X, Busy(m)', ~v8'[m].over PROVE Asks(m)'
    <3>1. m \in X \ {l} /\ v8[m].reset /\ Asks(m)
      BY <1>0, <1>4, <2>2, <2>5, <2>6 DEF FedInOrder
    <3> QED BY <1>1, <1>4, <3>1 DEF Asks
  <2>7. ASSUME NEW m \in X, Right(m), m # l,
               m \notin v8[l].before \/ v8[m].text = v8[l].text
        PROVE  Right(m)'
    <3>1. ~over[m]
      BY <1>3, <2>7 DEF Right
    <3> QED BY <1>1, <1>4, <2>7, <3>1 DEF Right
  <2>8. ASSUME ~v3
        PROVE  /\ v10' = v2' \/ \E m \in X : Right(m)'
               /\ \A k \in X : Busy(k)' /\ ~v8'[k].over /\ v8'[k].text # v2' =>
                      \E m \in X : Right(m)' /\ k \in v8'[m].before
    <3>0. \A k \in X : Busy(k) /\ ~v8[k].over /\ v8[k].text # v2 =>
                      \E m \in X : Right(m) /\ k \in v8[m].before
      BY <1>0, <2>2, <2>8 DEF FedInOrder
    <3>1. CASE v8[l].text = v2
      <4>1. v10' = v2'
        BY <1>1, <1>2, <1>8, <3>1
      <4>2. ASSUME NEW k \in X, Busy(k)', ~v8'[k].over, v8'[k].text # v2'
            PROVE  \E m \in X : Right(m)' /\ k \in v8'[m].before
        <5>1. /\ k \in X \ {l} /\ Busy(k) /\ ~v8[k].over /\ v8[k].text # v2
              /\ k \notin v8[l].before
          BY <1>1, <1>4, <2>5, <3>1, <4>2
        <5>2. PICK m \in X : Right(m) /\ k \in v8[m].before
          BY <3>0, <5>1
        <5>3. m # l /\ Right(m)'
          BY <2>7, <3>1, <5>1, <5>2 DEF Right
        <5> QED BY <1>4, <5>1, <5>2, <5>3
      <4> QED BY <4>1, <4>2
    <3>2. CASE v8[l].text # v2
      <4>1. PICK n \in X : Right(n) /\ l \in v8[n].before
        BY <1>b, <2>2, <3>0, <3>2
      <4>2. n # l /\ n \notin v8[l].before
        BY <1>0, <4>1 DEF Ordered
      <4>3. Right(n)'
        BY <2>7, <4>1, <4>2
      <4>4. ASSUME NEW k \in X, Busy(k)', ~v8'[k].over, v8'[k].text # v2'
            PROVE  \E m \in X : Right(m)' /\ k \in v8'[m].before
        <5>1. /\ k \in X \ {l} /\ Busy(k) /\ ~v8[k].over /\ v8[k].text # v2
          BY <1>1, <1>4, <2>5, <4>4
        <5>2. PICK m \in X : Right(m) /\ k \in v8[m].before
          BY <3>0, <5>1
        <5>3. m # l
          BY <3>2, <5>2 DEF Right
        <5>4. CASE m \notin v8[l].before
          <6>1. Right(m)'
            BY <2>7, <5>2, <5>3, <5>4
          <6> QED BY <1>4, <5>1, <5>2, <5>3, <6>1
        <5>5. CASE m \in v8[l].before
          <6>1. v8[m].before \subseteq v8[l].before /\ v8[l].before \subseteq v8[n].before
            BY <1>0, <4>1, <5>5 DEF Ordered
          <6>2. k \in v8[n].before
            BY <5>2, <6>1
          <6> QED BY <1>4, <4>2, <4>3, <5>1, <6>2
        <5> QED BY <5>4, <5>5
      <4> QED BY <4>3, <4>4
    <3> QED BY <3>1, <3>2
  <2>9. v5' = Len(v4')
    BY <1>2, <1>8
  <2> QED BY <1>1, <2>4, <2>6, <2>8, <2>9 DEF FedInOrder
<1>9. CASE ~Posts!Reload(l) /\ ~v8[l].reset
  <2>1. SUFFICES ASSUME ~v11' PROVE FedInOrder'
    BY <1>4, <1>6 DEF FeedInv, FedInOrder
  <2>2. ~v11 /\ ~v8[l].over
    BY <1>1, <1>9, <2>1
  <2>3. /\ v8[l].items = Posts!PageAt(v1[v10], Len(v4)) /\ v8[l].text = v10
        /\ v8[l].before = {}
        /\ (\A m \in X \ {l} : ~Busy(m)) => v5 = Len(v4)
        /\ Starts(v4, v1[v10])
    <3>1. Asks(l)
      BY <1>0, <1>b, <2>2 DEF FedInOrder
    <3> QED BY <1>0, <1>1, <1>9, <2>2, <3>1 DEF FedInOrder, Asks
  <2>4. v1[v10] \in Seq(Nat) /\ v4 \in Seq(Nat)
    BY <1>0 DEF FeedTyped
  <2>5. Starts(v4', v1[v10]) /\ Len(v4') = Len(v4) + Len(v8[l].items)
    <3>1. LET g == Posts!PageAt(v1[v10], Len(v4)) IN
            g \in Seq(Nat) /\ Starts(v4 \o g, v1[v10]) /\ Len(v4 \o g) = Len(v4) + Len(g)
      BY <2>3, <2>4, NextPageStarts
    <3>2. v4' = v4 \o v8[l].items
      BY <1>2, <1>9
    <3> QED BY <2>3, <3>1, <3>2
  <2>6. Starts(v4, v1[v10])'
    BY <1>1, <1>2, <1>9, <2>5 DEF Starts
  <2>7. ASSUME NEW m \in X \ {l}, ~v8'[m].over PROVE v8[m].reset /\ ~v8[m].over
    <3>1. ~v8[m].over /\ ~over[m]
      BY <1>4, <2>7
    <3>2. v8[m].reset \in BOOLEAN
      BY <1>0 DEF FeedTyped, Loaded
    <3> QED BY <1>3, <3>1, <3>2
  <2>8. ASSUME NEW m \in X, Busy(m)', ~v8'[m].over PROVE Asks(m)'
    <3>1. m \in X \ {l} /\ v8[m].reset /\ Asks(m)
      BY <1>0, <1>4, <2>2, <2>7, <2>8 DEF FedInOrder
    <3> QED BY <1>1, <1>4, <3>1 DEF Asks
  <2>9. (\A m \in X : ~Busy(m)') => v5' = Len(v4')
    <3>1. (\A m \in X : ~Busy(m)') => v5 = Len(v4)
      BY <1>4, <2>3
    <3>2. v5' = v5 + Len(v8[l].items)
      BY <1>2, <1>9
    <3> QED BY <2>5, <3>1, <3>2
  <2>10. ASSUME NEW m \in X, Right(m) PROVE m # l /\ Right(m)'
    <3>1. m # l
      BY <1>9, <2>10 DEF Right
    <3>2. ~over[m]
      <4>1. v8[m].reset /\ m \notin v8[l].before
        BY <2>3, <2>10 DEF Right
      <4> QED BY <1>3, <4>1
    <3> QED BY <1>1, <1>4, <2>10, <3>1, <3>2 DEF Right
  <2>11. ASSUME ~v3
         PROVE  /\ v10' = v2' \/ \E m \in X : Right(m)'
                /\ \A k \in X : Busy(k)' /\ ~v8'[k].over /\ v8'[k].text # v2' =>
                      \E m \in X : Right(m)' /\ k \in v8'[m].before
    <3>0. \A k \in X : Busy(k) /\ ~v8[k].over /\ v8[k].text # v2 =>
                      \E m \in X : Right(m) /\ k \in v8[m].before
      BY <1>0, <2>2, <2>11 DEF FedInOrder
    <3>1. v10' = v2' \/ \E m \in X : Right(m)
      BY <1>1, <1>2, <1>9, <1>b, <2>2, <2>3, <3>0
    <3>2. ASSUME NEW k \in X, Busy(k)', ~v8'[k].over, v8'[k].text # v2'
          PROVE  \E m \in X : Right(m)' /\ k \in v8'[m].before
      <4>1. k \in X \ {l} /\ Busy(k) /\ ~v8[k].over /\ v8[k].text # v2
        BY <1>1, <1>4, <2>7, <3>2
      <4>2. PICK m \in X : Right(m) /\ k \in v8[m].before
        BY <3>0, <4>1
      <4> QED BY <1>4, <2>10, <4>1, <4>2
    <3> QED BY <2>10, <3>1, <3>2
  <2> QED BY <1>1, <2>6, <2>8, <2>9, <2>11 DEF FedInOrder
<1> QED BY <1>5, <1>7, <1>8, <1>9

\* One types, a post comes or goes, or nothing happens.
LEMMA FeedOthers ==
  ASSUME FeedInv, \/ \E w \in Sought : Posts!Type(w)
                  \/ \E n \in 1 .. MaxPosts : Posts!Appears(n) \/ Posts!Vanishes(n)
                  \/ UNCHANGED Posts!vars
  PROVE  FeedInv'
<1>0. FeedTyped /\ Ordered /\ FedInOrder
  BY DEF FeedInv
<1>a. ASSUME v8' = v8
      PROVE  /\ Ordered' /\ \A m \in X : Busy(m)' <=> Busy(m)
  BY <1>0, <1>a DEF Ordered, Busy
<1>1. CASE \E w \in Sought : Posts!Type(w)
  <2>1. /\ v1' = v1 /\ v2' \in Sought /\ v3' /\ v4' = v4 /\ v5' = v5 /\ v8' = v8
        /\ v9' = v9 /\ v10' = v10 /\ v11' = v11
    BY <1>1 DEF Posts!Type, Posts!screen
  <2>2. FeedTyped'
    BY <1>0, <2>1 DEF FeedTyped
  <2>3. FedInOrder'
    <3>1. \A m \in X : Asks(m)' <=> Asks(m)
      BY <2>1 DEF Asks, Busy
    <3> QED BY <1>0, <1>a, <2>1, <3>1 DEF FedInOrder, Starts
  <2> QED BY <1>a, <2>1, <2>2, <2>3 DEF FeedInv
<1>2. ASSUME NEW n \in 1 .. MaxPosts, Posts!Appears(n) \/ Posts!Vanishes(n) PROVE FeedInv'
  <2>1. /\ v2' = v2 /\ v3' = v3 /\ v4' = v4 /\ v5' = v5
        /\ v8' = v8 /\ v9' = v9 /\ v10' = v10
    BY <1>2 DEF Posts!Appears, Posts!Vanishes, Posts!Changed, Posts!screen
  <2>2. ~v11' => /\ ~v11 /\ v4 = <<>>
                 /\ \A m \in X : Busy(m) => v8[m].pc # "served" /\ v8[m].reset
    BY <1>2 DEF Posts!Appears, Posts!Vanishes, Posts!Changed, Posts!InFlight, Busy
  <2>3. v1' \in [Sought -> Seq(Nat)]
    <3>1. n \in Nat /\ Nat \in SUBSET Nat /\ v1 \in [Sought -> Seq(Nat)]
      BY <1>0, BoundsAreNumbers DEF FeedTyped
    <3> QED BY <1>2, <3>1, ServerKeepsLists
  <2>4. FeedTyped'
    BY <1>0, <2>1, <2>3 DEF FeedTyped
  <2>5. FedInOrder'
    <3>1. SUFFICES ASSUME ~v11' PROVE FedInOrder'
      BY DEF FedInOrder
    <3>2. ~v11 /\ v4 = <<>> /\ \A m \in X : Busy(m) => v8[m].pc # "served" /\ v8[m].reset
      BY <2>2, <3>1
    <3>3. Starts(v4, v1[v10])'
      <4>1. v1'[v10'] \in Seq(Nat)
        BY <1>0, <2>1, <2>3 DEF FeedTyped
      <4>2. Len(v1'[v10']) \in Nat /\ Len(v4') = 0
        BY <2>1, <3>2, <4>1, LenProperties, EmptySeq
      <4>3. 0 <= Len(v1'[v10']) /\ 1 .. 0 = {}
        BY <4>2
      <4> QED BY <4>2, <4>3 DEF Starts
    <3>4. ASSUME NEW m \in X, Busy(m), ~v8[m].over PROVE Asks(m)'
      <4>1. Asks(m) /\ v8[m].pc # "served" /\ v8[m].reset
        BY <1>0, <3>2, <3>4 DEF FedInOrder
      <4> QED BY <2>1, <4>1 DEF Asks
    <3>5. \A m \in X : Right(m)' <=> Right(m)
      BY <2>1 DEF Right, Busy
    <3> QED BY <1>0, <1>a, <2>1, <3>2, <3>3, <3>4, <3>5 DEF FedInOrder
  <2> QED BY <1>a, <2>1, <2>4, <2>5 DEF FeedInv
<1>3. CASE UNCHANGED Posts!vars
  <2>1. /\ v1' = v1 /\ v2' = v2 /\ v3' = v3 /\ v4' = v4 /\ v5' = v5 /\ v8' = v8
        /\ v9' = v9 /\ v10' = v10 /\ v11' = v11
    BY <1>3 DEF Posts!vars
  <2>2. FeedTyped'
    BY <1>0, <2>1 DEF FeedTyped
  <2>3. FedInOrder'
    <3>1. \A m \in X : (Asks(m)' <=> Asks(m)) /\ (Right(m)' <=> Right(m))
      BY <2>1 DEF Asks, Right, Busy
    <3> QED BY <1>0, <1>a, <2>1, <3>1 DEF FedInOrder, Starts
  <2> QED BY <1>a, <2>1, <2>2, <2>3 DEF FeedInv
<1> QED BY <1>1, <1>2, <1>3

\* What begins a list is a prefix of it.
LEMMA StartIsPrefix ==
  ASSUME NEW p \in Seq(Nat), NEW s \in Seq(Nat), Starts(p, s)
  PROVE  Posts!IsPrefix(p, s)
<1>1. /\ Len(p) \in Nat /\ Len(s) \in Nat /\ Len(p) <= Len(s)
      /\ \A i \in 1 .. Len(p) : p[i] = s[i]
  BY DEF Starts
<1>2. p = SubSeq(s, 1, Len(p))
  <2>1. 1 \in Int /\ Len(p) \in Int /\ \A i \in 1 .. Len(p) : s[i] \in Nat
    BY <1>1
  <2>2. SubSeq(s, 1, Len(p)) \in Seq(Nat)
    BY <2>1, SubSeqProperties
  <2>3. Len(SubSeq(s, 1, Len(p))) = IF 1 <= Len(p) THEN Len(p) - 1 + 1 ELSE 0
    BY <2>1, SubSeqProperties
  <2>4. \A i \in 1 .. Len(p) - 1 + 1 : SubSeq(s, 1, Len(p))[i] = s[1 + i - 1]
    BY <2>1, SubSeqProperties
  <2>5. Len(SubSeq(s, 1, Len(p))) = Len(p)
    BY <1>1, <2>3
  <2>6. \A i \in 1 .. Len(p) : SubSeq(s, 1, Len(p))[i] = p[i]
    BY <1>1, <2>4
  <2> HIDE DEF Starts
  <2> QED BY <2>2, <2>5, <2>6, SeqEqual
<1> QED BY <1>1, <1>2 DEF Posts!IsPrefix

\* PostFeed.tsx: for any number of loads at once, unless one of the excuses Feed
\* names has happened since the last lone load from the top, the list is what the
\* server has for its word, from the top, with no gap and no post twice, and at rest
\* it is the list of the word typed.
THEOREM FeedIsAPrefix == Spec => []ListIsAPrefix
<1> DEFINE Inv == part = "posts" => FeedInv
<1>1. Init => Inv
  <2> SUFFICES ASSUME Posts!Init PROVE FeedInv
    BY DEF Init
  <2>1. /\ v1 = [w \in Sought |-> <<>>] /\ v2 = None /\ v4 = <<>> /\ v5 = 0 /\ v9 = <<0>>
        /\ v10 = v2 /\ v8 = [l \in X |-> Posts!Idle]
    BY DEF Posts!Init, Posts!NoPage, Sought
  <2>2. <<>> \in Seq(Nat) /\ <<0>> \in Seq(Nat) /\ Len(<<>>) = 0 /\ 1 .. 0 = {}
    OBVIOUS
  <2>3. Posts!Idle \in Loaded /\ Posts!Idle.pc = "idle" /\ Posts!Idle.before = {}
    BY <2>2 DEF Posts!Idle, Loaded, Sought
  <2>4. v2 \in Sought /\ v10 \in Sought
    BY <2>1 DEF Sought
  <2>5. v1 \in [Sought -> Seq(Nat)] /\ v1[v10] = <<>>
    BY <2>1, <2>2, <2>4
  <2>6. v8 \in [X -> Loaded] /\ \A l \in X : ~Busy(l) /\ v8[l].before = {}
    BY <2>1, <2>3 DEF Busy
  <2>7. FeedTyped
    BY <2>1, <2>2, <2>4, <2>5, <2>6 DEF FeedTyped
  <2>8. Ordered
    BY <2>6 DEF Ordered
  <2>9. Starts(v4, v1[v10])
    BY <2>1, <2>2, <2>5 DEF Starts
  <2>10. FedInOrder
    BY <2>1, <2>2, <2>6, <2>9 DEF FedInOrder
  <2> QED BY <2>7, <2>8, <2>10 DEF FeedInv
<1>2. Inv /\ [Next]_vars => Inv'
  <2> SUFFICES ASSUME Inv, [Next]_vars, part' = "posts" PROVE FeedInv'
    OBVIOUS
  <2>1. part = "posts" /\ [Posts!Next]_(Posts!vars)
    BY DEF Next, Step, vars, Posts!vars
  <2>2. CASE Posts!Next
    <3>1. ASSUME NEW l \in X,
                 \/ Posts!Mount(l) \/ Posts!Debounced(l) \/ Posts!More(l) \/ Posts!Serve(l)
                 \/ Posts!ShowSaved(l) \/ Posts!Answer(l) \/ Posts!Fails(l)
          PROVE  FeedInv'
      BY <2>1, <3>1, FeedBegins, FeedServed, FeedShowsSaved, FeedAnswered, FeedFails
    <3>2. ASSUME \/ \E w \in Sought : Posts!Type(w)
                 \/ \E n \in 1 .. MaxPosts : Posts!Appears(n) \/ Posts!Vanishes(n)
          PROVE  FeedInv'
      BY <2>1, <3>2, FeedOthers
    <3> QED BY <2>2, <3>1, <3>2, Zenon DEF Posts!Next, Sought
  <2>3. CASE UNCHANGED Posts!vars
    BY <2>1, <2>3, FeedOthers
  <2> QED BY <2>1, <2>2, <2>3
<1>3. Inv => ListIsAPrefix
  <2> SUFFICES ASSUME FeedInv, ~v11 PROVE Posts!ListIsAPrefix
    BY DEF ListIsAPrefix, Posts!ListIsAPrefix
  <2>1. v1[v10] \in Seq(Nat) /\ v4 \in Seq(Nat) /\ Starts(v4, v1[v10])
    BY DEF FeedInv, FeedTyped, FedInOrder
  <2>2. Posts!IsPrefix(v4, v1[v10])
    BY <2>1, StartIsPrefix
  <2>3. /\ (\A l \in X : ~Busy(l)) => v5 = Len(v4)
        /\ (\A l \in X : ~Busy(l)) /\ ~v3 => v10 = v2
    BY DEF FeedInv, FedInOrder, Right
  <2>4. Posts!InFlight = {} => \A l \in X : ~Busy(l)
    BY DEF Posts!InFlight, Busy
  <2> QED BY <2>2, <2>3, <2>4 DEF Posts!ListIsAPrefix
<1> QED BY <1>1, <1>2, <1>3, PTL DEF Spec

------------------------------------------------------------------------------
(* The conversation.                                                       *)

\* What ConversationProofs shows is of the variables behind "talk".
TP == INSTANCE ConversationProofs WITH
  posted <- v1, gone <- v2, list <- v3, hasMore <- v4, hist <- v5, more <- v6,
  up <- v7, queue <- v8, opening <- v9, sent <- v10, outbox <- v11,
  deleting <- v12, cause <- v13, pending <- v14

\* The operators of both instances on lists are one.
LEMMA SameLists ==
  /\ \A log, before : Talk!LastPage(log, before) = TP!LastPage(log, before)
  /\ \A rows, plain : Talk!Entries(rows, plain) = TP!Entries(rows, plain)
  /\ \A m : Talk!Without(m) = TP!Without(m)
  /\ \A e : Talk!Merged(e) = TP!Merged(e)
<1>1. \A items, ms : Talk!Only(items, ms) = TP!Only(items, ms)
  BY Zenon DEF Talk!Only, TP!Only
<1>2. \A items, n : Talk!LastOf(items, n) = TP!LastOf(items, n)
  BY Zenon DEF Talk!LastOf, TP!LastOf
<1>3. \A log, before : Talk!LastPage(log, before) = TP!LastPage(log, before)
  BY <1>1, <1>2 DEF Talk!LastPage, TP!LastPage
<1>4. \A m, c, plain : Talk!Entry(m, c, plain) = TP!Entry(m, c, plain)
  BY DEF Talk!Entry, TP!Entry
<1>5. \A rows, plain : Talk!Entries(rows, plain) = TP!Entries(rows, plain)
  BY <1>4 DEF Talk!Entries, TP!Entries
<1>6. \A m : Talk!Without(m) = TP!Without(m)
  BY <1>1 DEF Talk!Without, TP!Without
<1>7. \A e : Talk!Merged(e) = TP!Merged(e)
  BY <1>4 DEF Talk!Merged, TP!Merged
<1> QED BY <1>3, <1>5, <1>6, <1>7

\* One instance of Conversation is the other.
LEMMA SameTalk ==
  /\ Talk!ConversationAssumption <=> TP!ConversationAssumption
  /\ Talk!Init <=> TP!Init
  /\ Talk!Next <=> TP!Next
  /\ Talk!NoneTwiceNoneMissing <=> TP!NoneTwiceNoneMissing
<1>1. Talk!ConversationAssumption <=> TP!ConversationAssumption
  BY DEF Talk!ConversationAssumption, TP!ConversationAssumption
<1>2. Talk!NoHist = TP!NoHist /\ Talk!NoMore = TP!NoMore
  BY DEF Talk!NoHist, TP!NoHist, Talk!NoMore, TP!NoMore
<1>3. Talk!Init <=> TP!Init
  BY <1>2 DEF Talk!Init, TP!Init
<1>4. /\ Talk!Listed = TP!Listed /\ Talk!Awaited = TP!Awaited /\ Talk!Coming = TP!Coming
      /\ Talk!Asked <=> TP!Asked
      /\ \A m : Talk!Unpublished(m) <=> TP!Unpublished(m)
  BY DEF Talk!Listed, TP!Listed, Talk!Awaited, TP!Awaited, Talk!Coming, TP!Coming,
     Talk!Asked, TP!Asked, Talk!Unpublished, TP!Unpublished
<1>5. \A w, b : Talk!Because(w, b) <=> TP!Because(w, b)
  BY DEF Talk!Because, TP!Because
<1>6. \A c : Talk!Post(c) <=> TP!Post(c)
  BY DEF Talk!Post, TP!Post
<1>7. \A m, o : Talk!Delete(m, o) <=> TP!Delete(m, o)
  BY DEF Talk!Delete, TP!Delete
<1>8. \A m : Talk!DeleteAnswered(m) <=> TP!DeleteAnswered(m)
  BY <1>4, SameLists DEF Talk!DeleteAnswered, TP!DeleteAnswered, Talk!Because, TP!Because,
     Talk!Overtakes, TP!Overtakes
<1>9. \A i : Talk!Opened(i) <=> TP!Opened(i)
  BY SameLists DEF Talk!Opened, TP!Opened
<1>10. \A c : /\ Talk!PostSent(c) <=> TP!PostSent(c)
              /\ Talk!SendLost(c) <=> TP!SendLost(c)
  BY <1>6 DEF Talk!PostSent, TP!PostSent, Talk!SendLost, TP!SendLost, Talk!Because, TP!Because
<1>11. /\ Talk!OpenChat <=> TP!OpenChat
       /\ Talk!History <=> TP!History
       /\ Talk!HistoryShown <=> TP!HistoryShown
       /\ Talk!HistoryFails <=> TP!HistoryFails
  BY <1>2, SameLists DEF Talk!OpenChat, TP!OpenChat, Talk!History, TP!History,
     Talk!HistoryShown, TP!HistoryShown, Talk!HistoryFails, TP!HistoryFails,
     Talk!Because, TP!Because
<1>12. /\ Talk!Connect <=> TP!Connect
       /\ Talk!Disconnect <=> TP!Disconnect
       /\ Talk!OtherChat <=> TP!OtherChat
       /\ Talk!PostByOther <=> TP!PostByOther
       /\ Talk!Send <=> TP!Send
  BY <1>6 DEF Talk!Connect, TP!Connect, Talk!Disconnect, TP!Disconnect, Talk!Because, TP!Because,
     Talk!OtherChat, TP!OtherChat, Talk!PostByOther, TP!PostByOther, Talk!Send, TP!Send,
     Talk!Entry, TP!Entry
<1>13. Talk!Deliver <=> TP!Deliver
  BY <1>4, SameLists DEF Talk!Deliver, TP!Deliver, Talk!Because, TP!Because,
     Talk!Overtakes, TP!Overtakes
<1>14. /\ Talk!LoadMore <=> TP!LoadMore
       /\ Talk!Older <=> TP!Older
       /\ Talk!OlderShown <=> TP!OlderShown
       /\ Talk!OlderFails <=> TP!OlderFails
  BY <1>2, <1>4, SameLists DEF Talk!LoadMore, TP!LoadMore, Talk!Older, TP!Older,
     Talk!OlderShown, TP!OlderShown, Talk!OlderFails, TP!OlderFails, Talk!Because, TP!Because
<1>17. \A e : /\ Talk!PublishMessage(e) <=> TP!PublishMessage(e)
              /\ Talk!PublishDeletion(e) <=> TP!PublishDeletion(e)
              /\ Talk!PublishFails(e) <=> TP!PublishFails(e)
  <2>1. \A e : Talk!Publish(e) <=> TP!Publish(e)
    BY DEF Talk!Publish, TP!Publish
  <2>2. \A e : Talk!PublishMessage(e) <=> TP!PublishMessage(e)
    BY <1>4, <1>5, <2>1 DEF Talk!PublishMessage, TP!PublishMessage
  <2>3. \A e : Talk!PublishDeletion(e) <=> TP!PublishDeletion(e)
    BY <1>4, <1>5, <2>1 DEF Talk!PublishDeletion, TP!PublishDeletion
  <2>4. \A e : Talk!PublishFails(e) <=> TP!PublishFails(e)
    BY <1>4 DEF Talk!PublishFails, TP!PublishFails, Talk!Because, TP!Because
  <2> QED BY <2>2, <2>3, <2>4
<1>15. Talk!Next <=> TP!Next
  BY <1>17, <1>7, <1>8, <1>9, <1>10, <1>11, <1>12, <1>13, <1>14 DEF Talk!Next, TP!Next
<1>16. Talk!NoneTwiceNoneMissing <=> TP!NoneTwiceNoneMissing
  BY <1>4 DEF Talk!NoneTwiceNoneMissing, TP!NoneTwiceNoneMissing, Talk!Settled, TP!Settled,
     Talk!Cardinality, TP!Cardinality
<1> QED BY <1>1, <1>3, <1>15, <1>16

TalkInv == part = "talk" => TP!TypeOK /\ TP!TalkInv

\* App.tsx and ChatView.tsx: for any page, messages, sends and order of the events,
\* the list ends with each of the newest messages once, without a deleted one and
\* without a gap, as long as nothing has happened that Conversation names.
THEOREM TalkIsWhole == Spec => []NoneTwiceNoneMissing
<1>0. TP!ConversationAssumption
  BY PartsAssumption, SameTalk DEF PartsAssumption
<1>1. Init => TalkInv
  <2> SUFFICES ASSUME Init, part = "talk" PROVE TP!TypeOK /\ TP!TalkInv
    BY DEF TalkInv
  <2>1. TP!Init
    BY SameTalk DEF Init
  <2> QED BY <1>0, <2>1, TP!TalkStarts
<1>2. TalkInv /\ [Next]_vars => TalkInv'
  <2> SUFFICES ASSUME TalkInv, [Next]_vars, part' = "talk" PROVE TP!TypeOK' /\ TP!TalkInv'
    BY DEF TalkInv
  <2>1. part = "talk"
    BY DEF Next, vars
  <2>2. [TP!Next]_(TP!vars)
    <3>1. CASE Next
      BY <2>1, <3>1, SameTalk DEF Next, Step
    <3>2. CASE UNCHANGED vars
      BY <3>2 DEF vars, TP!vars
    <3> QED BY <3>1, <3>2
  <2> QED BY <1>0, <2>1, <2>2, TP!TalkKeeps DEF TalkInv
<1>3. TalkInv => NoneTwiceNoneMissing
  BY <1>0, TP!TalkIsWhole, SameTalk DEF TalkInv, NoneTwiceNoneMissing
<1> QED BY <1>1, <1>2, <1>3, PTL DEF Spec

------------------------------------------------------------------------------
(* The types of the parts that the proofs above did not need.               *)

\* The composer opens with nothing quoted, sent or recorded.
LEMMA FieldStartsTyped == ASSUME Field!ComposerAssumption, Field!Init PROVE Field!TypeOK
<1>1. /\ v1 \in X /\ v2 = None /\ v3 = None /\ v4 = None /\ v5 = FALSE /\ v6 = 0
      /\ v8 = None /\ v9 = FALSE /\ v12 = 0 /\ v13 = None /\ v14 = FALSE
      /\ v7 = [pc |-> "closed", chat |-> None]
      /\ v10 = [p \in Field!Press |-> [pc |-> "none", chat |-> None]]
      /\ v11 = [n |-> 0, down |-> FALSE]
  BY DEF Field!Init, Field!NoMic
<1>2. None \in Field!Some /\ 0 \in 0 .. MaxPresses
  BY DEF Field!Some, Field!ComposerAssumption
<1>3. v10 \in [Field!Press -> [pc : {"none", "asked", "live", "cancelled"}, chat : Field!Some]]
  BY <1>1, <1>2
<1>4. v11 \in [n : 0 .. MaxPresses, down : BOOLEAN]
  BY <1>1, <1>2
<1> QED BY <1>1, <1>2, <1>3, <1>4 DEF Field!TypeOK

\* A step keeps the types of the composer.
LEMMA FieldTypes ==
  ASSUME Field!ComposerAssumption, Field!TypeOK, [Field!Next]_(Field!vars)
  PROVE  Field!TypeOK'
<1> DEFINE Recs == [pc : {"none", "asked", "live", "cancelled"}, chat : Field!Some]
<1> USE DEF Field!ComposerAssumption
<1>0. /\ v1 \in X /\ {v2, v3, v4, v8, v13} \subseteq Field!Some
      /\ {v5, v9, v14} \subseteq BOOLEAN /\ v6 \in 0 .. MaxPresses
      /\ v7 \in [pc : {"closed", "open", "sending"}, chat : Field!Some]
      /\ v10 \in [Field!Press -> Recs]
      /\ v11 \in [n : 0 .. MaxPresses, down : BOOLEAN] /\ v12 \in 0 .. MaxPresses
  BY DEF Field!TypeOK
<1>s. None \in Field!Some /\ X \subseteq Field!Some
  BY DEF Field!Some
<1>1. ASSUME NEW c \in X, Field!OpenChat(c) \/ Field!Pick(c) PROVE Field!TypeOK'
  <2>1. /\ v1' \in X /\ v2' \in Field!Some /\ v3' \in Field!Some /\ v14' \in BOOLEAN
        /\ v7' \in [pc : {"closed", "open", "sending"}, chat : Field!Some]
    <3>1. CASE Field!OpenChat(c)
      <4>1. /\ v1' = c /\ v2' = None /\ v3' = None /\ v14' \in BOOLEAN
            /\ v7' = [pc |-> "closed", chat |-> None]
        BY <3>1 DEF Field!OpenChat
      <4> QED BY <1>s, <4>1
    <3>2. CASE Field!Pick(c)
      <4>1. /\ v1' = v1 /\ v2' = v2 /\ v3' = v3 /\ v14' = v14
            /\ v7' = [pc |-> "sending", chat |-> c]
        BY <3>2 DEF Field!Pick
      <4> QED BY <1>0, <1>s, <4>1
    <3> QED BY <1>1, <3>1, <3>2
  <2> QED BY <1>0, <2>1, <1>1 DEF Field!OpenChat, Field!Pick, Field!TypeOK, Field!write,
         Field!files, Field!voice
<1>2. CASE Field!Touch \/ Field!CancelLongPress \/ Field!LongPress \/ Field!CloseMenu
           \/ Field!Reply \/ Field!DropReply
  BY <1>0, <1>s, <1>2 DEF Field!Touch, Field!CancelLongPress, Field!LongPress, Field!CloseMenu,
     Field!Reply, Field!DropReply, Field!TypeOK, Field!write, Field!files, Field!voice
<1>3. CASE Field!Forward \/ Field!Forwarded \/ Field!CloseForward
  BY <1>0, <1>s, <1>3 DEF Field!Forward, Field!Forwarded, Field!CloseForward,
     Field!TypeOK, Field!write, Field!files, Field!voice
<1>4. CASE Field!Type \/ Field!Send \/ Field!SendTaken \/ Field!SendRefused
  <2>1. v6' \in 0 .. MaxPresses
    BY <1>0, <1>4 DEF Field!Type, Field!Send, Field!SendTaken, Field!SendRefused
  <2> QED BY <1>0, <1>s, <1>4, <2>1 DEF Field!Type, Field!Send, Field!SendTaken,
         Field!SendRefused, Field!TypeOK, Field!files, Field!voice
<1>5. CASE Field!Attach \/ Field!CloseSheet \/ Field!Upload \/ Field!UploadOver
  BY <1>0, <1>s, <1>5 DEF Field!Attach, Field!CloseSheet, Field!Upload, Field!UploadOver,
     Field!TypeOK, Field!write, Field!voice
<1>6. CASE Field!StartRecording
  <2> DEFINE r == [pc |-> "asked", chat |-> v1]
             n == v11.n + 1
  <2>1. n \in Field!Press /\ n \in 0 .. MaxPresses /\ r \in Recs
    BY <1>0, <1>s, <1>6 DEF Field!StartRecording, Field!Press
  <2>2. v11' = [n |-> n, down |-> TRUE] /\ v10' = [v10 EXCEPT ![n] = r] /\ v14' \in BOOLEAN
    BY <1>6 DEF Field!StartRecording
  <2> HIDE DEF n, r
  <2>3. v10' \in [Field!Press -> Recs]
    BY <1>0, <2>1, <2>2
  <2> HIDE DEF Recs
  <2>4. v10' \in [Field!Press -> [pc : {"none", "asked", "live", "cancelled"}, chat : Field!Some]]
    BY <2>3 DEF Recs
  <2>5. v11' \in [n : 0 .. MaxPresses, down : BOOLEAN]
    BY <2>1, <2>2
  <2> QED BY <1>0, <1>6, <2>2, <2>4, <2>5 DEF Field!StartRecording, Field!TypeOK, Field!write, Field!files
<1>7. ASSUME NEW p \in Field!Press, Field!Granted(p) \/ Field!Refused(p) PROVE Field!TypeOK'
  <2>1. v10[p] \in Recs /\ Field!NoMic \in Recs /\ p \in 0 .. MaxPresses
    BY <1>0, <1>s DEF Field!NoMic, Field!Press
  <2>2. v10' \in [Field!Press -> Recs] /\ v12' \in 0 .. MaxPresses
    BY <1>0, <1>7, <2>1 DEF Field!Granted, Field!Refused
  <2> QED BY <1>0, <1>7, <2>2 DEF Field!Granted, Field!Refused, Field!TypeOK, Field!write, Field!files
<1>8. ASSUME NEW p \in Field!Press, Field!Stopped(p) PROVE Field!TypeOK'
  <2>1. v10[p] \in Recs
    BY <1>0
  <2>2. v13' \in Field!Some /\ v12' = 0
    BY <1>0, <1>8, <2>1 DEF Field!Stopped
  <2> QED BY <1>0, <1>s, <1>8, <2>2 DEF Field!Stopped, Field!NoMic, Field!TypeOK, Field!write,
     Field!files
<1>9. CASE Field!CancelRecording
  <2>1. v12 \in Field!Press /\ v10[v12] \in Recs
    BY <1>0, <1>9 DEF Field!CancelRecording, Field!recording, Field!Press
  <2>2. v10' \in [Field!Press -> Recs]
    BY <1>0, <1>9, <2>1 DEF Field!CancelRecording
  <2> QED BY <1>0, <1>9, <2>2 DEF Field!CancelRecording, Field!TypeOK, Field!write, Field!files
<1>10. CASE Field!Release \/ Field!SoundOver
  BY <1>0, <1>s, <1>10 DEF Field!Release, Field!SoundOver, Field!TypeOK, Field!write, Field!files
<1>11. CASE UNCHANGED Field!vars
  BY <1>0, <1>11 DEF Field!vars, Field!TypeOK
<1> QED BY <1>1, <1>2, <1>3, <1>4, <1>5, <1>6, <1>7, <1>8, <1>9, <1>10, <1>11 DEF Field!Next

------------------------------------------------------------------------------
\* The window of a new post: there is room for the post being created.
FormTyped ==
  /\ Form!TypeOK
  /\ v3[1] + v3[2] <= MaxNew
  /\ v2.pc = "create" => v3[1] + v3[2] < MaxNew
  /\ v2.pc = "upload" => v3[1] > 0

\* The window of a new post opens before any is published.
LEMMA FormStartsTyped == ASSUME Form!MaxPostsAssumption, Form!Init PROVE FormTyped
<1>1. /\ v1 = 0 /\ v3 = <<0, 0>> /\ v4 = FALSE
      /\ v2 = [pc |-> "idle", modal |-> 0, media |-> FALSE]
  BY DEF Form!Init, Form!NoSubmit
<1>2. 0 \in 0 .. MaxNew /\ 0 + 0 <= MaxNew
  BY DEF Form!MaxPostsAssumption
<1>3. v3[1] = 0 /\ v3[2] = 0 /\ v3 \in (0 .. MaxNew) \X (0 .. MaxNew)
  BY <1>1, <1>2
<1>4. v2 \in [pc : {"idle", "create", "upload", "over"}, modal : 0 .. 2, media : BOOLEAN]
  BY <1>1
<1>5. v3[1] + v3[2] <= MaxNew /\ v2.pc = "idle" /\ v1 \in 0 .. 2
  BY <1>1, <1>2, <1>3
<1> QED BY <1>1, <1>3, <1>4, <1>5 DEF Form!TypeOK, FormTyped

\* A step keeps the types of the window of a new post.
LEMMA FormTypes ==
  ASSUME Form!MaxPostsAssumption, FormTyped, [Form!Next]_(Form!vars)
  PROVE  FormTyped'
<1> DEFINE Submits == [pc : {"idle", "create", "upload", "over"}, modal : 0 .. 2, media : BOOLEAN]
<1> USE DEF Form!MaxPostsAssumption
<1>0. /\ v1 \in 0 .. 2 /\ v3 \in (0 .. MaxNew) \X (0 .. MaxNew) /\ v2 \in Submits /\ v4 \in BOOLEAN
      /\ v3[1] + v3[2] <= MaxNew
      /\ v2.pc = "create" => v3[1] + v3[2] < MaxNew
      /\ v2.pc = "upload" => v3[1] > 0
  BY DEF FormTyped, Form!TypeOK
<1>m. MaxNew \in Nat
  OBVIOUS
<1>p. PICK a \in 0 .. MaxNew, b \in 0 .. MaxNew : v3 = <<a, b>>
  BY <1>0
<1>a. ASSUME NEW c \in Nat, NEW d \in Nat, v3' = <<c, d>>, c + d <= MaxNew, v2' \in Submits,
             v1' \in 0 .. 2, v4' \in BOOLEAN,
             v2'.pc = "create" => c + d < MaxNew, v2'.pc = "upload" => c > 0
      PROVE  FormTyped'
  <2>1. c \in 0 .. MaxNew /\ d \in 0 .. MaxNew
    BY <1>a
  <2> QED BY <1>a, <2>1 DEF FormTyped, Form!TypeOK
<1>b. [v3 EXCEPT ![1] = @ + 1] = <<a + 1, b>> /\ [v3 EXCEPT ![2] = @ + 1] = <<a, b + 1>>
      /\ v3[1] = a /\ v3[2] = b /\ a \in Nat /\ b \in Nat
  BY <1>p
<1>1. CASE Form!Open \/ Form!Close \/ UNCHANGED Form!vars
  BY <1>0, <1>p, <1>b, <1>1, <1>a DEF Form!Open, Form!Close, Form!vars
<1>2. ASSUME NEW media \in BOOLEAN, Form!Submit(media) PROVE FormTyped'
  BY <1>0, <1>p, <1>b, <1>2, <1>a DEF Form!Submit
<1>3. CASE Form!Created
  <2>1. /\ v2' = [v2 EXCEPT !.pc = IF v2.media THEN "upload" ELSE "over"] /\ v2.pc = "create"
        /\ v3' = IF v2.media THEN <<a + 1, b>> ELSE <<a, b + 1>>
        /\ v4' = v4 /\ v1' = v1
    BY <1>3, <1>b DEF Form!Created
  <2>2. v2' \in Submits /\ v2'.pc = IF v2.media THEN "upload" ELSE "over"
    BY <1>0, <2>1
  <2>3. a + b < MaxNew
    BY <1>0, <1>b, <2>1
  <2>4. CASE v2.media
    <3>1. v3' = <<a + 1, b>> /\ v2'.pc = "upload" /\ a + 1 \in Nat /\ a + 1 + b <= MaxNew /\ a + 1 > 0
      BY <1>b, <1>m, <2>1, <2>2, <2>3, <2>4
    <3> QED BY <1>0, <1>b, <2>1, <2>2, <3>1, <1>a
  <2>5. CASE ~v2.media
    <3>1. v3' = <<a, b + 1>> /\ v2'.pc = "over" /\ b + 1 \in Nat /\ a + (b + 1) <= MaxNew
      BY <1>b, <1>m, <2>1, <2>2, <2>3, <2>5
    <3> QED BY <1>0, <1>b, <2>1, <2>2, <3>1, <1>a
  <2> QED BY <2>4, <2>5
<1>4. CASE Form!Uploaded
  <2>1. /\ v2' = [v2 EXCEPT !.pc = "over"] /\ v2.pc = "upload"
        /\ v3' = <<a - 1, b + 1>> /\ v4' = v4 /\ v1' = v1
    BY <1>4, <1>b DEF Form!Uploaded
  <2>2. v2' \in Submits /\ v2'.pc = "over"
    BY <1>0, <2>1
  <2>3. a - 1 \in Nat /\ b + 1 \in Nat /\ (a - 1) + (b + 1) <= MaxNew
    BY <1>0, <1>b, <1>m, <2>1
  <2> QED BY <1>0, <2>1, <2>2, <2>3, <1>a
<1>5. CASE Form!Over
  BY <1>0, <1>p, <1>b, <1>5, <1>a DEF Form!Over, Form!NoSubmit
<1>6. CASE Form!SubmitFails \/ Form!Killed
  <2>1. /\ v2' = [pc |-> "idle", modal |-> 0, media |-> FALSE] /\ v3' \in Form!Outcomes
        /\ v2.pc \in {"create", "upload"} /\ v1' \in {v1, 0}
        /\ v4' = (v4 \/ v2.pc = "upload" \/ v3'[1] # v3[1])
    BY <1>6 DEF Form!SubmitFails, Form!Killed, Form!Unanswered, Form!NoSubmit
  <2>2. v2' \in Submits /\ v2'.pc = "idle" /\ v1' \in 0 .. 2 /\ v4' \in BOOLEAN
    BY <1>0, <2>1
  <2>3. CASE v2.pc = "upload"
    <3>1. v3' = <<a, b>> \/ v3' = <<a - 1, b + 1>>
      BY <1>p, <1>b, <2>1, <2>3 DEF Form!Outcomes
    <3>2. /\ a - 1 \in Nat /\ b + 1 \in Nat /\ (a - 1) + (b + 1) <= MaxNew
          /\ a + b <= MaxNew
      BY <1>0, <1>b, <1>m, <2>3
    <3> QED BY <1>b, <2>2, <3>1, <3>2, <1>a
  <2>4. CASE v2.pc = "create"
    <3>1. v3' = <<a, b>> \/ v3' = <<a + 1, b>> \/ v3' = <<a, b + 1>>
      BY <1>p, <1>b, <2>1, <2>4 DEF Form!Outcomes
    <3>2. /\ a + 1 \in Nat /\ b + 1 \in Nat /\ (a + 1) + b <= MaxNew
          /\ a + (b + 1) <= MaxNew /\ a + b <= MaxNew
      BY <1>0, <1>b, <1>m, <2>4
    <3> QED BY <1>b, <2>2, <3>1, <3>2, <1>a
  <2> QED BY <2>1, <2>3, <2>4
<1> QED BY <1>1, <1>2, <1>3, <1>4, <1>5, <1>6 DEF Form!Next

------------------------------------------------------------------------------
\* A card opens before anything is tapped.
LEMMA CardStartsTyped == ASSUME Card!Init PROVE Card!TypeOK
  BY DEF Card!Init, Card!NoCard, Card!NoTap, Card!TypeOK

\* A step keeps the types of the card.
LEMMA CardTypes ==
  ASSUME Card!TypeOK, [Card!Next]_(Card!vars) PROVE Card!TypeOK'
<1>0. /\ v1 \in BOOLEAN /\ v2 \in BOOLEAN /\ v5 \in BOOLEAN
      /\ v3 \in [there : BOOLEAN, on : BOOLEAN] /\ v4 \in [X -> Flags]
  BY DEF Card!TypeOK, Flags
<1>a. ASSUME /\ v1' \in BOOLEAN /\ v2' \in BOOLEAN /\ v5' \in BOOLEAN
             /\ v3' \in [there : BOOLEAN, on : BOOLEAN] /\ v4' \in [X -> Flags]
      PROVE  Card!TypeOK'
  BY <1>a DEF Card!TypeOK, Flags
<1>1. ASSUME NEW fresh \in BOOLEAN, Card!Listed(fresh) PROVE Card!TypeOK'
  BY <1>0, <1>a, <1>1 DEF Card!Listed
<1>2. CASE Card!LeaveList
  <2>1. \A t \in X : [v4[t] EXCEPT !.mine = FALSE] \in Flags
    BY <1>0 DEF Flags
  <2>2. v4' \in [X -> Flags]
    BY <1>2, <2>1 DEF Card!LeaveList
  <2> QED BY <1>0, <1>a, <1>2, <2>2 DEF Card!LeaveList, Card!NoCard
<1>3. ASSUME NEW t \in X, Card!Tap(t) PROVE Card!TypeOK'
  <2>1. [pc |-> "sent", was |-> v3.on, mine |-> TRUE, saw |-> FALSE] \in Flags
    BY <1>0 DEF Flags
  <2>2. v4' \in [X -> Flags]
    BY <1>0, <1>3, <2>1 DEF Card!Tap
  <2> QED BY <1>0, <1>a, <1>3, <2>2 DEF Card!Tap
<1>4. ASSUME NEW t \in X, Card!Toggle(t) PROVE Card!TypeOK'
  <2>1. [v4[t] EXCEPT !.pc = "done"] \in Flags
    BY <1>0 DEF Flags
  <2>2. v4' \in [X -> Flags]
    BY <1>0, <1>4, <2>1 DEF Card!Toggle
  <2>3. v4[t].saw \in BOOLEAN
    BY <1>0 DEF Flags
  <2> QED BY <1>0, <1>a, <1>4, <2>2, <2>3 DEF Card!Toggle
<1>7. ASSUME NEW t \in X, Card!Read(t) PROVE Card!TypeOK'
  <2>1. [v4[t] EXCEPT !.pc = "read", !.saw = v1] \in Flags
    BY <1>0 DEF Flags
  <2>2. v4' = [v4 EXCEPT ![t] = [v4[t] EXCEPT !.pc = "read", !.saw = v1]]
    BY <1>0, <1>7 DEF Card!Read
  <2>3. v4' \in [X -> Flags]
    BY <1>0, <2>1, <2>2
  <2> QED BY <1>0, <1>a, <1>7, <2>3 DEF Card!Read
<1>8. ASSUME NEW t \in X, Card!TapLost(t) PROVE Card!TypeOK'
  <2>1. [v4[t] EXCEPT !.mine = FALSE] \in Flags /\ v4[t].was \in BOOLEAN
    BY <1>0 DEF Flags
  <2>2. v4' = [v4 EXCEPT ![t] = [v4[t] EXCEPT !.mine = FALSE]]
    BY <1>0, <1>8 DEF Card!TapLost
  <2>3. v4' \in [X -> Flags]
    BY <1>0, <2>1, <2>2
  <2> QED BY <1>0, <1>a, <1>8, <2>1, <2>3 DEF Card!TapLost
<1>5. ASSUME NEW t \in X, Card!Toggled(t) \/ Card!TapFails(t) PROVE Card!TypeOK'
  <2>1. v4[t] \in Flags /\ Card!NoTap \in Flags
    BY <1>0 DEF Flags, Card!NoTap
  <2>2. v4' \in [X -> Flags]
    BY <1>0, <1>5, <2>1 DEF Card!Toggled, Card!TapFails
  <2>3. v4[t].was \in BOOLEAN
    BY <2>1 DEF Flags
  <2> QED BY <1>0, <1>a, <1>5, <2>2, <2>3 DEF Card!Toggled, Card!TapFails
<1>6. CASE UNCHANGED Card!vars
  BY <1>0, <1>a, <1>6 DEF Card!vars
<1> QED BY <1>1, <1>2, <1>3, <1>4, <1>5, <1>6, <1>7, <1>8 DEF Card!Next

------------------------------------------------------------------------------
\* The albums: before one is chosen there is nothing to show, to mark or to load.
Album == X \cup {None}
GalleryTyped ==
  /\ v1 \subseteq X /\ v3 \subseteq v1 /\ v2 \in [X -> SUBSET Y]
  /\ v4 \in [open : BOOLEAN, creating : BOOLEAN] /\ v5 \in Album
  /\ v6 \subseteq Y /\ v9 \subseteq Y /\ v10 \subseteq Y
  /\ v8 \in BOOLEAN /\ v11 \in BOOLEAN /\ v14 \in BOOLEAN
  /\ v7 \in [Y -> [pc : {"idle", "asked", "served"}, album : Album, rows : SUBSET Y]]
  /\ v12 \in [pc : {"idle", "ask", "deleting"}, album : Album, todo : SUBSET Y]
  /\ v13 \in [album : Album, files : SUBSET Y]
  /\ v5 = None => v6 = {} /\ v9 = {} /\ v10 = {}
  /\ \A l \in Y : v7[l].pc # "idle" => v5 # None /\ v7[l].album \in X
  /\ v12.pc # "idle" => v5 # None /\ v12.album \in X
  /\ v13 # Gallery!NoUpload => v5 # None /\ v13.album \in X

\* The albums open with none chosen.
LEMMA GalleryStartsTyped == ASSUME Gallery!AlbumsAssumption, Gallery!Init PROVE GalleryTyped
<1>1. /\ v1 \in SUBSET X /\ v2 = [a \in X |-> {}] /\ v3 = v1 /\ v5 = None /\ v6 = {}
      /\ v4 = [open |-> FALSE, creating |-> FALSE]
      /\ v7 = [l \in Y |-> [pc |-> "idle", album |-> None, rows |-> {}]]
      /\ v8 = FALSE /\ v9 = {} /\ v10 = {} /\ v11 = FALSE /\ v14 = FALSE
      /\ v12 = [pc |-> "idle", album |-> None, todo |-> {}]
      /\ v13 = Gallery!NoUpload
  BY DEF Gallery!Init, Gallery!NoLoad, Gallery!NoDelete
<1>2. None \in Album
  BY DEF Album
<1>3. v7 \in [Y -> [pc : {"idle", "asked", "served"}, album : Album, rows : SUBSET Y]]
  BY <1>1, <1>2
<1>4. v12 \in [pc : {"idle", "ask", "deleting"}, album : Album, todo : SUBSET Y] /\ v12.pc = "idle"
  BY <1>1, <1>2
<1>5. v13 \in [album : Album, files : SUBSET Y]
  BY <1>1, <1>2 DEF Gallery!NoUpload
<1>6. \A l \in Y : v7[l].pc = "idle"
  BY <1>1
<1> QED BY <1>1, <1>2, <1>3, <1>4, <1>5, <1>6 DEF GalleryTyped

\* A load for an album that exists is typed.
LEMMA GalleryLoadTyped ==
  ASSUME GalleryTyped, NEW a \in X, Gallery!StartLoad(a), v5' # None
  PROVE  /\ v7' \in [Y -> [pc : {"idle", "asked", "served"}, album : Album, rows : SUBSET Y]]
         /\ \A l \in Y : v7'[l].pc # "idle" => v5' # None /\ v7'[l].album \in X
<1> DEFINE r == [pc |-> "asked", album |-> a, rows |-> {}]
           Load == [pc : {"idle", "asked", "served"}, album : Album, rows : SUBSET Y]
<1>1. PICK l \in Y : v7' = [v7 EXCEPT ![l] = r]
  <2>1. PICK l \in Gallery!Idle : v7' = [v7 EXCEPT ![l] = [Gallery!NoLoad EXCEPT !.pc = "asked", !.album = a]]
    BY DEF Gallery!StartLoad
  <2>2. [Gallery!NoLoad EXCEPT !.pc = "asked", !.album = a] = r
    <3>1. [Gallery!NoLoad EXCEPT !.pc = "asked"] = [pc |-> "asked", album |-> None, rows |-> {}]
      BY DEF Gallery!NoLoad
    <3>2. [[pc |-> "asked", album |-> None, rows |-> {}] EXCEPT !.album = a] = r
      OBVIOUS
    <3> QED BY <3>1, <3>2
  <2>3. l \in Y
    BY DEF Gallery!Idle
  <2> HIDE DEF r
  <2> QED BY <2>1, <2>2, <2>3
<1>2. r \in Load /\ r.album \in X
  BY DEF Album
<1>3. v7 \in [Y -> Load]
  BY DEF GalleryTyped
<1> HIDE DEF r, Load
<1>4. v7' \in [Y -> Load] /\ \A m \in Y : v7'[m] = IF m = l THEN r ELSE v7[m]
  BY <1>1, <1>2, <1>3
<1>5. v7' \in [Y -> [pc : {"idle", "asked", "served"}, album : Album, rows : SUBSET Y]]
  BY <1>4 DEF Load
<1> QED BY <1>2, <1>4, <1>5 DEF GalleryTyped

\* A step keeps the types of the albums, and what they rest on.
LEMMA GalleryTypes ==
  ASSUME Gallery!AlbumsAssumption, GalleryTyped, [Gallery!Next]_(Gallery!vars)
  PROVE  GalleryTyped'
<1> DEFINE Load == [pc : {"idle", "asked", "served"}, album : Album, rows : SUBSET Y]
           Deletion == [pc : {"idle", "ask", "deleting"}, album : Album, todo : SUBSET Y]
           Up == [album : Album, files : SUBSET Y]
<1>0. /\ v1 \subseteq X /\ v3 \subseteq v1 /\ v2 \in [X -> SUBSET Y]
      /\ v4 \in [open : BOOLEAN, creating : BOOLEAN] /\ v5 \in Album
      /\ v6 \subseteq Y /\ v9 \subseteq Y /\ v10 \subseteq Y
      /\ v8 \in BOOLEAN /\ v11 \in BOOLEAN /\ v14 \in BOOLEAN
      /\ v7 \in [Y -> Load] /\ v12 \in Deletion /\ v13 \in Up
      /\ v5 = None => v6 = {} /\ v9 = {} /\ v10 = {}
      /\ \A l \in Y : v7[l].pc # "idle" => v5 # None /\ v7[l].album \in X
      /\ v12.pc # "idle" => v5 # None /\ v12.album \in X
      /\ v13 # Gallery!NoUpload => v5 # None /\ v13.album \in X
  BY DEF GalleryTyped
<1>n. None \notin X /\ Album = X \cup {None}
  BY DEF Gallery!AlbumsAssumption, Album
<1>1. CASE \/ Gallery!OpenSheet \/ Gallery!CloseSheet \/ Gallery!Create \/ Gallery!Created
           \/ Gallery!CreateFails
  <2>1. /\ v2' = v2 /\ v5' = v5 /\ v6' = v6 /\ v7' = v7 /\ v8' = v8 /\ v9' = v9 /\ v10' = v10
        /\ v11' = v11 /\ v12' = v12 /\ v13' = v13 /\ v14' = v14
    BY <1>1 DEF Gallery!OpenSheet, Gallery!CloseSheet, Gallery!Create, Gallery!Created,
       Gallery!CreateFails, Gallery!marks, Gallery!work
  <2>2. v1' \subseteq X /\ v3' \subseteq v1'
    BY <1>0, <1>1 DEF Gallery!OpenSheet, Gallery!CloseSheet, Gallery!Create, Gallery!Created,
       Gallery!CreateFails
  <2>3. v4' \in [open : BOOLEAN, creating : BOOLEAN]
    <3>1. v4' = [v4 EXCEPT !.open = TRUE] \/ v4' = [v4 EXCEPT !.open = FALSE]
          \/ v4' = [v4 EXCEPT !.creating = TRUE] \/ v4' = [v4 EXCEPT !.creating = FALSE]
          \/ v4' = [open |-> FALSE, creating |-> FALSE]
      BY <1>1 DEF Gallery!OpenSheet, Gallery!CloseSheet, Gallery!Create, Gallery!Created,
         Gallery!CreateFails
    <3> DEFINE Sheets == [open : BOOLEAN, creating : BOOLEAN]
    <3>2. v4 \in Sheets
      BY <1>0
    <3>3. [v4 EXCEPT !.open = TRUE] \in Sheets /\ [v4 EXCEPT !.open = FALSE] \in Sheets
      BY <3>2
    <3>4. [v4 EXCEPT !.creating = TRUE] \in Sheets /\ [v4 EXCEPT !.creating = FALSE] \in Sheets
      BY <3>2
    <3>5. [open |-> FALSE, creating |-> FALSE] \in Sheets
      OBVIOUS
    <3> HIDE DEF Sheets
    <3>6. v4' \in Sheets
      BY <3>1, <3>3, <3>4, <3>5, Zenon
    <3> QED BY <3>6 DEF Sheets
  <2>4. Gallery!NoUpload' = Gallery!NoUpload
    BY DEF Gallery!NoUpload
  <2> QED BY <1>0, <2>1, <2>2, <2>3, <2>4 DEF GalleryTyped
<1>2. ASSUME NEW a \in X, Gallery!SelectAlbum(a) PROVE GalleryTyped'
  <2>1. /\ v5' = a /\ v6' = {} /\ v8' = FALSE /\ v9' = {} /\ Gallery!StartLoad(a) /\ v14' \in BOOLEAN
        /\ v1' = v1 /\ v2' = v2 /\ v3' = v3 /\ v4' = v4 /\ v10' = v10 /\ v11' = v11
        /\ v12' = v12 /\ v13' = v13
    BY <1>2 DEF Gallery!SelectAlbum, Gallery!list, Gallery!work
  <2>2. v5' # None /\ v5' \in Album
    BY <1>n, <2>1
  <2> QED BY <1>0, <2>1, <2>2, GalleryLoadTyped DEF GalleryTyped
<1>3. ASSUME NEW l \in Y, Gallery!Served(l) \/ Gallery!Shown(l) \/ Gallery!LoadFails(l)
      PROVE  GalleryTyped'
  <2>1. /\ v1' = v1 /\ v2' = v2 /\ v3' = v3 /\ v4' = v4 /\ v5' = v5 /\ v8' = v8 /\ v9' = v9
        /\ v10' = v10 /\ v11' = v11 /\ v12' = v12 /\ v13' = v13
    BY <1>3 DEF Gallery!Served, Gallery!Shown, Gallery!LoadFails, Gallery!list, Gallery!marks,
       Gallery!work
  <2>2. v14' \in BOOLEAN
    BY <1>0, <1>3 DEF Gallery!Served, Gallery!Shown, Gallery!LoadFails
  <2>3. v7[l] \in Load /\ v7[l].pc # "idle" /\ v7[l].album \in X /\ v5 # None
    BY <1>0, <1>3 DEF Gallery!Served, Gallery!Shown, Gallery!LoadFails
  <2>4. v6' \subseteq Y
    BY <1>0, <1>3, <2>3 DEF Gallery!Served, Gallery!Shown, Gallery!LoadFails
  <2>5. PICK r \in Load : v7' = [v7 EXCEPT ![l] = r] /\ (r.album \in X \/ r.pc = "idle")
    <3>1. CASE Gallery!Served(l)
      <4> DEFINE r == [v7[l] EXCEPT !.pc = "served", !.rows = v2[v7[l].album]]
      <4>1. v7' = [v7 EXCEPT ![l] = r]
        BY <3>1 DEF Gallery!Served
      <4>2. v2[v7[l].album] \in SUBSET Y
        BY <1>0, <2>3
      <4>3. r \in Load
        BY <2>3, <4>2
      <4>4. r.album = v7[l].album
        BY <2>3
      <4> QED BY <2>3, <4>1, <4>3, <4>4
    <3>2. CASE Gallery!Shown(l) \/ Gallery!LoadFails(l)
      <4> DEFINE r == [pc |-> "idle", album |-> None, rows |-> {}]
      <4>1. v7' = [v7 EXCEPT ![l] = r]
        BY <3>2 DEF Gallery!Shown, Gallery!LoadFails, Gallery!NoLoad
      <4>2. r \in Load /\ r.pc = "idle"
        BY <1>n
      <4> QED BY <4>1, <4>2
    <3> QED BY <1>3, <3>1, <3>2
  <2> HIDE DEF Load
  <2>6. v7' \in [Y -> Load] /\ \A m \in Y : v7'[m] = IF m = l THEN r ELSE v7[m]
    BY <1>0, <2>5
  <2>7. \A m \in Y : v7'[m].pc # "idle" => v5 # None /\ v7'[m].album \in X
    BY <1>0, <2>3, <2>5, <2>6
  <2>8. v7' \in [Y -> [pc : {"idle", "asked", "served"}, album : Album, rows : SUBSET Y]]
    BY <2>6 DEF Load
  <2> HIDE DEF Deletion, Up
  <2> QED BY <1>0, <2>1, <2>2, <2>3, <2>4, <2>7, <2>8 DEF GalleryTyped
<1>a. ASSUME /\ v1' = v1 /\ v2' \in [X -> SUBSET Y] /\ v3' = v3 /\ v4' = v4 /\ v5' = v5 /\ v6' = v6
             /\ v7' = v7 /\ v14' \in BOOLEAN
             /\ v8' \in BOOLEAN /\ v9' \subseteq Y /\ v10' \subseteq Y /\ v11' \in BOOLEAN
             /\ v5 = None => v9' = {} /\ v10' = {}
             /\ v12' \in Deletion /\ (v12'.pc # "idle" => v5 # None /\ v12'.album \in X)
             /\ v13' \in Up /\ (v13' # Gallery!NoUpload => v5 # None /\ v13'.album \in X)
      PROVE  GalleryTyped'
  <2>1. Gallery!NoUpload' = Gallery!NoUpload
    BY DEF Gallery!NoUpload
  <2> QED BY <1>0, <1>a, <2>1 DEF GalleryTyped
<1>4. ASSUME NEW m \in Y, Gallery!Touch(m) \/ Gallery!Click(m) PROVE GalleryTyped'
  <2>1. Gallery!Toggled(m) \subseteq Y /\ v5 # None
    BY <1>0, <1>4 DEF Gallery!Toggled, Gallery!Touch, Gallery!Click
  <2> QED BY <1>0, <1>4, <1>a, <2>1 DEF Gallery!Touch, Gallery!Click, Gallery!list, Gallery!work
<1>5. CASE Gallery!LongPress
  <2>1. \A m \in v10 : Gallery!Toggled(m) \subseteq Y
    BY <1>0 DEF Gallery!Toggled
  <2> QED BY <1>0, <1>5, <1>a, <2>1 DEF Gallery!LongPress, Gallery!list, Gallery!work
<1>6. CASE Gallery!TouchEnds \/ Gallery!LeaveSelect
  BY <1>0, <1>6, <1>a DEF Gallery!TouchEnds, Gallery!LeaveSelect, Gallery!list, Gallery!work
<1>7. CASE Gallery!AskDelete
  <2>1. v12' = [pc |-> "ask", album |-> v5, todo |-> v9 \cap v6] /\ v9 # {}
    BY <1>7 DEF Gallery!AskDelete
  <2>2. v5 \in X
    BY <1>0, <1>n, <2>1
  <2>3. v12' \in Deletion /\ v12'.album \in X /\ v5 # None
    BY <1>0, <1>n, <2>1, <2>2
  <2>4. v9' \subseteq Y /\ v10' \subseteq Y /\ (v5 = None => v9' = {} /\ v10' = {})
    BY <1>0, <1>7 DEF Gallery!AskDelete, Gallery!marks
  <2>5. /\ v1' = v1 /\ v2' = v2 /\ v3' = v3 /\ v4' = v4 /\ v5' = v5 /\ v6' = v6 /\ v7' = v7
        /\ v8' = v8 /\ v11' = v11 /\ v13' = v13 /\ v14' = v14
    BY <1>7 DEF Gallery!AskDelete, Gallery!list, Gallery!marks
  <2> HIDE DEF Deletion, Up
  <2> QED BY <1>0, <1>a, <2>3, <2>4, <2>5
<1>8. ASSUME NEW yes \in BOOLEAN, Gallery!Answer(yes) PROVE GalleryTyped'
  <2>1. v12' = (IF yes THEN [v12 EXCEPT !.pc = "deleting"] ELSE [pc |-> "idle", album |-> None, todo |-> {}])
        /\ v12.pc = "ask"
    BY <1>8 DEF Gallery!Answer, Gallery!NoDelete
  <2>2. v12' \in Deletion /\ (v12'.pc # "idle" => v5 # None /\ v12'.album \in X)
    BY <1>0, <1>n, <2>1
  <2> QED BY <1>0, <1>8, <1>a, <2>2 DEF Gallery!Answer, Gallery!list, Gallery!marks
<1>9. ASSUME NEW m \in Y, NEW taken \in BOOLEAN, Gallery!DeleteOne(m, taken) PROVE GalleryTyped'
  <2>1. v12' \in Deletion /\ (v12'.pc # "idle" => v5 # None /\ v12'.album \in X)
    BY <1>0, <1>9 DEF Gallery!DeleteOne
  <2>2. v2' \in [X -> SUBSET Y]
    BY <1>0, <1>9 DEF Gallery!DeleteOne
  <2> QED BY <1>0, <1>9, <1>a, <2>1, <2>2 DEF Gallery!DeleteOne, Gallery!list, Gallery!marks
<1>10. CASE Gallery!DeleteOver
  <2>1. /\ v12' = [pc |-> "idle", album |-> None, todo |-> {}] /\ v8' = FALSE /\ v9' = {}
        /\ Gallery!StartLoad(v12.album) /\ v12.album \in X /\ v5 # None /\ v14' \in BOOLEAN
        /\ v1' = v1 /\ v2' = v2 /\ v3' = v3 /\ v4' = v4 /\ v5' = v5 /\ v6' = v6 /\ v10' = v10
        /\ v11' = v11 /\ v13' = v13
    BY <1>0, <1>10 DEF Gallery!DeleteOver, Gallery!NoDelete, Gallery!list
  <2>2. v12' \in Deletion /\ v12'.pc = "idle"
    BY <1>n, <2>1
  <2>3. v5' # None
    BY <2>1
  <2> QED BY <1>0, <2>1, <2>2, <2>3, GalleryLoadTyped DEF GalleryTyped
<1>11. ASSUME NEW files \in SUBSET Gallery!Unused, Gallery!Upload(files) PROVE GalleryTyped'
  <2>1. files \subseteq Y /\ v5 \in X /\ v13' = [album |-> v5, files |-> files]
    BY <1>0, <1>n, <1>11 DEF Gallery!Upload, Gallery!Unused
  <2>2. v13' \in Up /\ v13'.album \in X /\ v5 # None
    BY <1>n, <2>1
  <2> QED BY <1>0, <1>11, <1>a, <2>2 DEF Gallery!Upload, Gallery!list, Gallery!marks
<1>12. CASE Gallery!Uploaded \/ Gallery!UploadFails
  <2>1. /\ v13' = Gallery!NoUpload /\ v13.album \in X /\ v5 # None /\ v13.files \subseteq Y
        /\ v1' = v1 /\ v3' = v3 /\ v4' = v4 /\ v5' = v5 /\ v6' = v6 /\ v8' = v8 /\ v9' = v9
        /\ v10' = v10 /\ v11' = v11 /\ v12' = v12
    BY <1>0, <1>12 DEF Gallery!Uploaded, Gallery!UploadFails, Gallery!list, Gallery!marks
  <2>2. v13' \in Up
    BY <1>n, <2>1 DEF Gallery!NoUpload
  <2>3. \A S \in SUBSET Y : [v2 EXCEPT ![v13.album] = @ \cup S] \in [X -> SUBSET Y]
    BY <1>0
  <2>4. CASE Gallery!Uploaded
    <3>1. v2' = [v2 EXCEPT ![v13.album] = @ \cup v13.files] /\ Gallery!StartLoad(v13.album)
      BY <2>4 DEF Gallery!Uploaded
    <3>2. v14' \in BOOLEAN
      BY <2>4 DEF Gallery!Uploaded
    <3>3. v2' \in [X -> SUBSET Y]
      BY <2>1, <2>3, <3>1
    <3>4. v5' # None
      BY <2>1
    <3>5. /\ v7' \in [Y -> [pc : {"idle", "asked", "served"}, album : Album, rows : SUBSET Y]]
          /\ \A l \in Y : v7'[l].pc # "idle" => v5' # None /\ v7'[l].album \in X
      BY <2>1, <3>1, <3>4, GalleryLoadTyped
    <3>6. Gallery!NoUpload' = Gallery!NoUpload
      BY DEF Gallery!NoUpload
    <3> QED BY <1>0, <2>1, <2>2, <3>2, <3>3, <3>5, <3>6 DEF GalleryTyped
  <2>5. CASE Gallery!UploadFails
    <3>1. PICK S \in SUBSET Y : v2' = [v2 EXCEPT ![v13.album] = @ \cup S]
      BY <2>1, <2>5 DEF Gallery!UploadFails
    <3>2. v14' \in BOOLEAN
      BY <2>5 DEF Gallery!UploadFails
    <3>3. v2' \in [X -> SUBSET Y]
      BY <2>3, <3>1
    <3>4. v7' = v7 /\ v14' \in BOOLEAN
      BY <2>5, <3>2 DEF Gallery!UploadFails
    <3> QED BY <1>0, <1>a, <2>1, <2>2, <3>3, <3>4
  <2> QED BY <1>12, <2>4, <2>5
<1>13. CASE UNCHANGED Gallery!vars
  BY <1>0, <1>a, <1>13 DEF Gallery!vars
<1> QED BY <1>1, <1>2, <1>3, <1>4, <1>5, <1>6, <1>7, <1>8, <1>9, <1>10, <1>11, <1>12, <1>13 DEF Gallery!Next

\* These are the types Albums names.
LEMMA GalleryTypedIs == ASSUME GalleryTyped PROVE Gallery!TypeOK
  BY DEF GalleryTyped, Gallery!TypeOK, Album

------------------------------------------------------------------------------
\* The pictures start with nothing saved.
LEMMA MediaStartsTyped == ASSUME Media!BoundsAssumption, Media!Init PROVE Media!TypeOK
<1>1. 0 \in 0 .. MaxQueue /\ 1 \in 1 .. MediaDays /\ Media!Empty \in Media!Index
  BY DEF Media!BoundsAssumption, Media!Empty, Media!Index
<1>2. /\ v1 = {} /\ v2 = Media!Empty /\ v3 = {} /\ v4 = {} /\ v5 = FALSE /\ v7 = 0 /\ v10 = {}
      /\ v11 = [k \in X |-> "no"] /\ v12 = {} /\ v13 = 1 /\ v14 = FALSE
      /\ v6 = [pc |-> "idle", added |-> {}, used |-> {}, idx |-> Media!Empty]
      /\ v8 = [pc |-> "idle", ahead |-> 0, idx |-> Media!Empty]
      /\ v9 = [pc |-> "idle", ahead |-> 0]
  BY DEF Media!Init, Media!NoPass, Media!NoSweep, Media!NoClear, Media!NoLoad
<1>3. v6 \in [pc : {"idle", "read", "evict"}, added : SUBSET X, used : SUBSET X, idx : Media!Index]
      /\ v6.pc = "idle"
  BY <1>1, <1>2
<1>4. v8 \in [pc : {"idle", "wait", "delete"}, ahead : 0 .. MaxQueue, idx : Media!Index]
  BY <1>1, <1>2
<1>5. v9 \in [pc : {"idle", "wait"}, ahead : 0 .. MaxQueue]
  BY <1>1, <1>2
<1>6. v11 \in [X -> {"no", "net", "hit", "dead"}]
  BY <1>2
<1> QED BY <1>1, <1>2, <1>3, <1>4, <1>5, <1>6 DEF Media!TypeOK

\* The URLs that are kept, and the loads whose URL is revoked.
LEMMA MediaLiveTyped ==
  ASSUME NEW S \in SUBSET X, NEW ld \in [X -> {"no", "net", "hit", "dead"}], v10 \subseteq X,
         Media!PutLive(S, ld)
  PROVE  v10' \subseteq X /\ v11' \in [X -> {"no", "net", "hit", "dead"}]
<1>1. PICK L \in Media!LiveWith(S) : v10' = L /\ v11' = Media!Revoked(ld, v10 \ L)
  BY DEF Media!PutLive
<1>2. L \subseteq X
  BY DEF Media!LiveWith
<1>3. Media!Revoked(ld, v10 \ L) \in [X -> {"no", "net", "hit", "dead"}]
  BY DEF Media!Revoked
<1> QED BY <1>1, <1>2, <1>3

\* A step keeps the types of the pictures.
LEMMA MediaTypes ==
  ASSUME Media!BoundsAssumption, Media!TypeOK, [Media!Next]_(Media!vars)
  PROVE  Media!TypeOK'
<1> DEFINE Loads == [X -> {"no", "net", "hit", "dead"}]
           Pass == [pc : {"idle", "read", "evict"}, added : SUBSET X, used : SUBSET X,
                    idx : Media!Index]
           Sweep == [pc : {"idle", "wait", "delete"}, ahead : 0 .. MaxQueue, idx : Media!Index]
           Clearing == [pc : {"idle", "wait"}, ahead : 0 .. MaxQueue]
<1>0. /\ v1 \subseteq X /\ v2 \in Media!Index /\ v3 \subseteq X /\ v4 \subseteq X /\ v5 \in BOOLEAN
      /\ v6 \in Pass /\ v7 \in 0 .. MaxQueue /\ (v6.pc # "idle" => v7 > 0)
      /\ v8 \in Sweep /\ v9 \in Clearing /\ v10 \subseteq X /\ v11 \in Loads
      /\ v12 \subseteq X /\ v13 \in 1 .. MediaDays /\ v14 \in BOOLEAN
  BY DEF Media!TypeOK
<1>n. MaxQueue \in Nat \ {0} /\ MediaDays \in Nat \ {0}
  BY DEF Media!BoundsAssumption
<1>e. Media!Empty \in Media!Index
  BY <1>n DEF Media!Empty, Media!Index
<1>a. ASSUME /\ v1' \subseteq X /\ v2' = v2 /\ v3' \subseteq X /\ v4' \subseteq X /\ v5' \in BOOLEAN
             /\ v6' = v6 /\ v7' = v7 /\ v8' = v8 /\ v9' = v9 /\ v10' \subseteq X /\ v11' \in Loads
             /\ v12' \subseteq X /\ v13' \in 1 .. MediaDays /\ v14' \in BOOLEAN
      PROVE  Media!TypeOK'
  BY <1>0, <1>a DEF Media!TypeOK, Media!Index
<1>1. ASSUME NEW k \in X, Media!Found(k) PROVE Media!TypeOK'
  <2>1. [v11 EXCEPT ![k] = "hit"] \in Loads
    BY <1>0
  <2>2. v10' \subseteq X /\ v11' \in Loads
    BY <1>0, <1>1, <2>1, MediaLiveTyped DEF Media!Found
  <2> QED BY <1>0, <1>1, <1>a, <2>2 DEF Media!Found, Media!stored
<1>2. ASSUME NEW k \in X, Media!Downloaded(k) PROVE Media!TypeOK'
  <2>1. [v11 EXCEPT ![k] = "no"] \in Loads
    BY <1>0
  <2>2. v10' \subseteq X /\ v11' \in Loads
    BY <1>0, <1>2, <2>1, MediaLiveTyped DEF Media!Downloaded
  <2> QED BY <1>0, <1>2, <1>a, <2>2 DEF Media!Downloaded, Media!stored, Media!account
<1>3. ASSUME NEW k \in X, \/ Media!NotFound(k) \/ Media!DownloadFails(k) \/ Media!Written(k)
                          \/ Media!WriteFails(k)
      PROVE  Media!TypeOK'
  BY <1>0, <1>3, <1>a DEF Media!NotFound, Media!DownloadFails, Media!Written, Media!WriteFails,
     Media!stored, Media!account
<1>4. ASSUME NEW S \in SUBSET X, Media!Warm(S) PROVE Media!TypeOK'
  <2>1. (S \ v10) \cap v1 \in SUBSET X
    BY <1>0
  <2>2. v10' \subseteq X /\ v11' \in Loads
    BY <1>0, <1>4, <2>1, MediaLiveTyped DEF Media!Warm
  <2> QED BY <1>0, <1>4, <1>a, <2>1, <2>2 DEF Media!Warm, Media!stored
<1>5. CASE Media!NewDay
  BY <1>0, <1>n, <1>5, <1>a DEF Media!NewDay, Media!stored, Media!account, Media!images
<1>6. CASE UNCHANGED Media!vars
  BY <1>0, <1>6, <1>a DEF Media!vars
<1>b. ASSUME /\ v1' \subseteq X /\ v2' \in Media!Index /\ v3' \subseteq X /\ v4' \subseteq X /\ v5' \in BOOLEAN
             /\ v6' \in Pass /\ v7' \in 0 .. MaxQueue /\ (v6'.pc # "idle" => v7' > 0)
             /\ v8' \in Sweep /\ v9' \in Clearing /\ v10' \subseteq X /\ v11' \in Loads
             /\ v12' \subseteq X /\ v13' = v13 /\ v14' \in BOOLEAN
      PROVE  Media!TypeOK'
  <2>1. Media!Index' = Media!Index
    BY DEF Media!Index
  <2> QED BY <1>0, <1>b, <2>1 DEF Media!TypeOK
<1>7. CASE Media!Flush
  <2>1. v7' \in 0 .. MaxQueue /\ v7' > 0
    BY <1>0, <1>n, <1>7 DEF Media!Flush
  <2> QED BY <1>0, <1>7, <1>b, <2>1 DEF Media!Flush, Media!stored, Media!images
<1>p. ASSUME Media!PassOver, v7 > 0
      PROVE  /\ v6' \in Pass /\ v6'.pc = "idle" /\ v7' \in 0 .. MaxQueue
             /\ v8' \in Sweep /\ v9' \in Clearing
  <2>1. /\ v6' = [pc |-> "idle", added |-> {}, used |-> {}, idx |-> Media!Empty] /\ v7' = v7 - 1
        /\ v8' = [v8 EXCEPT !.ahead = IF v8.ahead = 0 THEN 0 ELSE v8.ahead - 1]
        /\ v9' = [v9 EXCEPT !.ahead = IF v9.ahead = 0 THEN 0 ELSE v9.ahead - 1]
    BY <1>p DEF Media!PassOver, Media!NoPass
  <2>2. /\ (IF v8.ahead = 0 THEN 0 ELSE v8.ahead - 1) \in 0 .. MaxQueue
        /\ (IF v9.ahead = 0 THEN 0 ELSE v9.ahead - 1) \in 0 .. MaxQueue
        /\ v7 - 1 \in 0 .. MaxQueue
    BY <1>0, <1>n, <1>p
  <2>3. v6' \in Pass /\ v6'.pc = "idle"
    BY <1>e, <2>1
  <2>4. v8' \in Sweep
    BY <1>0, <2>1, <2>2
  <2>5. v9' \in Clearing
    BY <1>0, <2>1, <2>2
  <2> QED BY <2>1, <2>2, <2>3, <2>4, <2>5
<1>8. CASE Media!NothingToWrite \/ Media!WriteIndex \/ Media!PassFails
  <2>1. Media!PassOver /\ v7 > 0
    BY <1>0, <1>8 DEF Media!NothingToWrite, Media!WriteIndex, Media!PassFails
  <2>2. v6.idx \in Media!Index
    BY <1>0
  <2>3. /\ v1' = v1 /\ v2' \in Media!Index /\ v3' = v3 /\ v4' = v4 /\ v5' = v5 /\ v10' = v10
        /\ v11' = v11 /\ v12' = v12 /\ v13' = v13 /\ v14' \in BOOLEAN
    BY <1>0, <1>8, <2>2 DEF Media!NothingToWrite, Media!WriteIndex, Media!PassFails, Media!stored,
       Media!account, Media!images
  <2> HIDE DEF Loads, Pass, Sweep, Clearing
  <2> QED BY <1>0, <1>b, <1>p, <2>1, <2>3
<1>9. CASE Media!TakeBatch
  <2>1. v6' = [pc |-> "read", added |-> v4, used |-> v3, idx |-> Media!Empty] /\ v7 > 0
    BY <1>9 DEF Media!TakeBatch, Media!NoPass
  <2>2. v6' \in Pass
    BY <1>0, <1>e, <2>1
  <2> QED BY <1>0, <1>9, <1>b, <2>1, <2>2 DEF Media!TakeBatch, Media!stored, Media!images
<1>10. CASE Media!ReadIndex
  <2> DEFINE i == [k \in X |-> IF k \in v6.added \/ (k \in v6.used /\ v2[k] # 0) THEN v13 ELSE v2[k]]
  <2>1. i \in Media!Index
    BY <1>0, <1>n DEF Media!Index
  <2>2. v6' = [v6 EXCEPT !.pc = "evict", !.idx = i] /\ v7 > 0
    BY <1>0, <1>10 DEF Media!ReadIndex
  <2> HIDE DEF i
  <2>3. v6' \in Pass
    BY <1>0, <2>1, <2>2
  <2> QED BY <1>0, <1>10, <1>b, <2>2, <2>3 DEF Media!ReadIndex, Media!stored, Media!account, Media!images
<1>11. ASSUME NEW k \in X, Media!Evict(k) PROVE Media!TypeOK'
  <2>1. [v6.idx EXCEPT ![k] = 0] \in Media!Index
    BY <1>0, Unlisted
  <2>2. v6' \in Pass /\ v7 > 0
    BY <1>0, <1>11, <2>1 DEF Media!Evict
  <2> QED BY <1>0, <1>11, <1>b, <2>2 DEF Media!Evict, Media!account, Media!images
<1>12. ASSUME NEW k \in X, Media!SweepDeletes(k) PROVE Media!TypeOK'
  <2>1. [v8.idx EXCEPT ![k] = 0] \in Media!Index
    BY <1>0, Unlisted
  <2>2. v8' \in Sweep
    BY <1>0, <1>12, <2>1 DEF Media!SweepDeletes
  <2> QED BY <1>0, <1>12, <1>b, <2>2 DEF Media!SweepDeletes, Media!account, Media!images
<1>s. Media!NoSweep \in Sweep /\ Media!NoClear \in Clearing
  <2>1. 0 \in 0 .. MaxQueue
    BY <1>n
  <2> QED BY <1>e, <2>1 DEF Media!NoSweep, Media!NoClear
<1>13. CASE Media!StartSweep
  <2>1. v8' = [pc |-> "wait", ahead |-> v7 + 1, idx |-> Media!Empty] /\ v7' = v7 + 1
        /\ v7 + 1 \in 0 .. MaxQueue /\ v7 + 1 > 0
    BY <1>0, <1>n, <1>13 DEF Media!StartSweep
  <2>2. v8' \in Sweep
    BY <1>e, <2>1
  <2> QED BY <1>0, <1>13, <1>b, <2>1, <2>2 DEF Media!StartSweep, Media!stored, Media!images
<1>14. CASE Media!SweepReads
  <2>1. v8' \in Sweep
    BY <1>0, <1>s, <1>14 DEF Media!SweepReads
  <2> QED BY <1>0, <1>14, <1>b, <2>1 DEF Media!SweepReads, Media!stored, Media!account, Media!images
<1>15. CASE Media!SweepWrites \/ Media!SweepFails
  <2>1. v8.idx \in Media!Index
    BY <1>0
  <2> HIDE DEF Sweep
  <2> QED BY <1>0, <1>s, <1>15, <1>b, <2>1 DEF Media!SweepWrites, Media!SweepFails, Media!stored,
          Media!account, Media!images
<1>16. CASE Media!StartClear
  <2>1. v9' \in Clearing
    BY <1>0, <1>16 DEF Media!StartClear
  <2>2. v11' \in Loads
    BY <1>0, <1>16 DEF Media!StartClear, Media!Revoked
  <2> QED BY <1>0, <1>16, <1>b, <2>1, <2>2 DEF Media!StartClear, Media!stored
<1>17. CASE Media!Clear \/ Media!ClearFails
  BY <1>0, <1>e, <1>s, <1>17, <1>b DEF Media!Clear, Media!ClearFails, Media!stored, Media!account,
     Media!images
<1>18. CASE Media!Restart
  <2>1. v6' \in Pass /\ v6'.pc = "idle"
    BY <1>e, <1>18 DEF Media!Restart, Media!NoPass
  <2>2. v11' \in Loads
    BY <1>18 DEF Media!Restart, Media!NoLoad
  <2>3. v7' \in 0 .. MaxQueue /\ v14' \in BOOLEAN
    BY <1>n, <1>18 DEF Media!Restart
  <2> QED BY <1>0, <1>s, <1>18, <1>b, <2>1, <2>2, <2>3 DEF Media!Restart, Media!stored
<1> QED BY <1>1, <1>2, <1>3, <1>4, <1>5, <1>6, <1>7, <1>8, <1>9, <1>10, <1>11, <1>12, <1>13, <1>14,
           <1>15, <1>16, <1>17, <1>18 DEF Media!Next

------------------------------------------------------------------------------
\* The list of posts: every post in it is one of the server's, and an answer is a
\* page.
Numbers == 1 .. MaxPosts
Asked == [pc : {"idle", "asked", "served"}, text : Sought, reset : BOOLEAN, offset : Nat,
          items : Posts!Pages, before : SUBSET X, over : BOOLEAN]
PostsTyped ==
  /\ v1 \in [Sought -> Seq(Numbers)] /\ v2 \in Sought /\ v3 \in BOOLEAN
  /\ v4 \in Seq(Numbers) /\ v5 \in Nat /\ v6 \in BOOLEAN /\ v7 \in BOOLEAN
  /\ v8 \in [X -> Asked] /\ v9 \in Posts!Pages \cup {Posts!NoPage}
  /\ v10 \in Sought /\ v11 \in BOOLEAN

\* The pages are the lists of posts that are no longer than one.
LEMMA PagesAreSeqs ==
  /\ \A p \in Posts!Pages : p \in Seq(Numbers)
  /\ \A p \in Seq(Numbers) : Len(p) <= PostsPage => p \in Posts!Pages
  /\ <<>> \in Posts!Pages
<1>0. PostsPage \in Nat
  BY BoundsAreNumbers
<1>1. Posts!Pages = UNION {[1 .. m -> Numbers] : m \in 0 .. PostsPage}
  BY DEF Posts!Pages, Posts!SeqOf, Numbers
<1>2. ASSUME NEW p \in Posts!Pages PROVE p \in Seq(Numbers)
  <2>1. PICK m \in 0 .. PostsPage : p \in [1 .. m -> Numbers]
    BY <1>1
  <2> QED BY <2>1
<1>3. ASSUME NEW p \in Seq(Numbers), Len(p) <= PostsPage PROVE p \in Posts!Pages
  <2>1. Len(p) \in 0 .. PostsPage /\ p \in [1 .. Len(p) -> Numbers]
    BY <1>0, <1>3
  <2> QED BY <1>1, <2>1
<1>4. <<>> \in Seq(Numbers) /\ Len(<<>>) <= PostsPage
  BY <1>0
<1> QED BY <1>2, <1>3, <1>4

\* The answer to a load is a page.
LEMMA PageIsOne ==
  ASSUME NEW s \in Seq(Numbers), NEW n \in Nat PROVE Posts!PageAt(s, n) \in Posts!Pages
<1> DEFINE e == IF n + PostsPage < Len(s) THEN n + PostsPage ELSE Len(s)
<1>1. n + 1 \in Int /\ e \in Int /\ \A i \in n + 1 .. e : s[i] \in Numbers
  BY BoundsAreNumbers
<1>2. Posts!PageAt(s, n) = SubSeq(s, n + 1, e)
  BY DEF Posts!PageAt
<1>3. PostsPage \in Nat /\ e <= n + PostsPage
  BY BoundsAreNumbers
<1> HIDE DEF e
<1>4. SubSeq(s, n + 1, e) \in Seq(Numbers)
  BY <1>1, SubSeqProperties, Zenon
<1>5. Len(SubSeq(s, n + 1, e)) = IF n + 1 <= e THEN e - (n + 1) + 1 ELSE 0
  BY <1>1, SubSeqProperties
<1>6. Len(SubSeq(s, n + 1, e)) <= PostsPage
  BY <1>1, <1>3, <1>5
<1> QED BY <1>2, <1>4, <1>6, PagesAreSeqs

\* The record of a load at rest.
LEMMA IdleIsAsked == Posts!Idle \in Asked
  BY PagesAreSeqs DEF Asked, Sought, Posts!Idle

\* The list is empty when it opens, and nothing is asked for yet.
LEMMA PostsStartTyped == ASSUME Posts!Init PROVE PostsTyped
<1>1. /\ v1 = [w \in Sought |-> <<>>]
      /\ v2 = None /\ v3 = FALSE /\ v4 = <<>> /\ v5 = 0 /\ v6 = TRUE /\ v7 = FALSE
      /\ v8 = [l \in X |-> Posts!Idle] /\ v9 = Posts!NoPage /\ v10 = None /\ v11 = FALSE
  BY DEF Posts!Init, Sought
<1>2. <<>> \in Seq(Numbers) /\ 0 \in Nat /\ None \in Sought
  BY DEF Sought
<1>3. v1 \in [Sought -> Seq(Numbers)]
  BY <1>1, <1>2
<1> QED BY <1>1, <1>2, <1>3, IdleIsAsked DEF PostsTyped

\* A step keeps the types of the list of posts.
LEMMA PostsTypes == ASSUME PostsTyped, [Posts!Next]_(Posts!vars) PROVE PostsTyped'
<1>0. /\ v1 \in [Sought -> Seq(Numbers)] /\ v2 \in Sought /\ v3 \in BOOLEAN
      /\ v4 \in Seq(Numbers) /\ v5 \in Nat /\ v6 \in BOOLEAN /\ v7 \in BOOLEAN
      /\ v8 \in [X -> Asked] /\ v9 \in Posts!Pages \cup {Posts!NoPage}
      /\ v10 \in Sought /\ v11 \in BOOLEAN
  BY DEF PostsTyped
<1>p. Asked' = Asked /\ Posts!Pages' = Posts!Pages /\ Posts!NoPage' = Posts!NoPage
      /\ Numbers' = Numbers /\ Sought' = Sought
  BY Zenon DEF Asked, Posts!Pages, Posts!SeqOf, Posts!NoPage, Numbers, Sought
<1>a. ASSUME /\ v1' \in [Sought -> Seq(Numbers)] /\ v2' \in Sought /\ v3' \in BOOLEAN
             /\ v4' \in Seq(Numbers) /\ v5' \in Nat /\ v6' \in BOOLEAN /\ v7' \in BOOLEAN
             /\ v8' \in [X -> Asked] /\ v9' \in Posts!Pages \cup {Posts!NoPage}
             /\ v10' \in Sought /\ v11' \in BOOLEAN
      PROVE  PostsTyped'
  BY <1>a, <1>p, Zenon DEF PostsTyped
<1>1. ASSUME NEW l \in X, Posts!Mount(l) \/ Posts!Debounced(l) \/ Posts!More(l)
      PROVE  PostsTyped'
  <2>1. PICK r \in BOOLEAN : Posts!Begin(l, r) /\ v5' \in Nat /\ v3' \in BOOLEAN
    <3>1. CASE Posts!Mount(l)
      <4>1. Posts!Begin(l, TRUE) /\ v5' = 0 /\ v3' = TRUE
        BY <3>1, Zenon DEF Posts!Mount
      <4> QED BY <4>1
    <3>2. CASE Posts!Debounced(l)
      <4>1. Posts!Begin(l, TRUE) /\ v5' = 0 /\ v3' = FALSE
        BY <3>2, Zenon DEF Posts!Debounced
      <4> QED BY <4>1
    <3>3. CASE Posts!More(l)
      <4>1. Posts!Begin(l, FALSE) /\ v5' = v5 /\ v3' = v3
        BY <3>3 DEF Posts!More
      <4> QED BY <1>0, <4>1
    <3> QED BY <1>1, <3>1, <3>2, <3>3
  <2> DEFINE n == [pc |-> "asked", text |-> v2, reset |-> r, offset |-> IF r THEN 0 ELSE v5,
                   items |-> <<>>, before |-> Posts!InFlight, over |-> FALSE]
  <2>2. /\ v7' = TRUE /\ v8' = [v8 EXCEPT ![l] = n] /\ v1' = v1 /\ v2' = v2 /\ v4' = v4
        /\ v6' = v6 /\ v9' = v9 /\ v10' = v10
    BY <2>1 DEF Posts!Begin
  <2>3. v11' \in BOOLEAN
    BY <2>1, Zenon DEF Posts!Begin
  <2>4. n \in Asked
    <3>1. (IF r THEN 0 ELSE v5) \in Nat
      BY <1>0
    <3>2. Posts!InFlight \in SUBSET X
      BY DEF Posts!InFlight
    <3> QED BY <1>0, <3>1, <3>2, PagesAreSeqs DEF Asked
  <2> HIDE DEF n
  <2>5. v8' \in [X -> Asked]
    BY <1>0, <2>2, <2>4
  <2> QED BY <1>0, <1>a, <2>1, <2>2, <2>3, <2>5
<1>2. ASSUME NEW l \in X, Posts!Serve(l) PROVE PostsTyped'
  <2> DEFINE g == Posts!PageAt(v1[v8[l].text], v8[l].offset)
             n == [v8[l] EXCEPT !.pc = "served", !.items = g]
  <2>1. /\ v8' = [v8 EXCEPT ![l] = n] /\ v1' = v1 /\ v2' = v2 /\ v3' = v3 /\ v4' = v4
        /\ v5' = v5 /\ v6' = v6 /\ v7' = v7 /\ v9' = v9 /\ v10' = v10 /\ v11' = v11
    BY <1>2 DEF Posts!Serve, Posts!screen
  <2>2. v8[l] \in Asked
    BY <1>0
  <2>3. g \in Posts!Pages
    <3>1. v8[l].offset \in Nat
      BY <2>2 DEF Asked
    <3>2. v1[v8[l].text] \in Seq(Numbers)
      BY <1>0, <2>2 DEF Asked
    <3> QED BY <3>1, <3>2, PageIsOne
  <2> HIDE DEF g
  <2>4. n \in Asked
    BY <2>2, <2>3 DEF Asked
  <2> HIDE DEF n
  <2>5. v8' \in [X -> Asked]
    BY <1>0, <2>1, <2>4
  <2> QED BY <1>0, <1>a, <2>1, <2>5
<1>3. ASSUME NEW l \in X, Posts!ShowSaved(l) PROVE PostsTyped'
  <2>1. /\ v4' = v9 /\ v5' = Len(v9) /\ v6' = (Len(v9) = PostsPage) /\ v10' = v8[l].text
        /\ v9 # Posts!NoPage
        /\ v1' = v1 /\ v2' = v2 /\ v3' = v3 /\ v7' = v7 /\ v9' = v9
    BY <1>3 DEF Posts!ShowSaved, Posts!Apply
  <2>2. v11' \in BOOLEAN
    BY <1>3, Zenon DEF Posts!ShowSaved
  <2>3. v9 \in Seq(Numbers)
    BY <1>0, <2>1, PagesAreSeqs
  <2>4. Len(v9) \in Nat /\ (Len(v9) = PostsPage) \in BOOLEAN
    BY <2>3
  <2>5. v10' \in Sought
    BY <1>0, <2>1 DEF Asked
  <2>6. v8' \in [X -> Asked]
    <3>1. v8' = [m \in X |-> [v8[m] EXCEPT !.over = @ \/ ~v8[m].reset]]
      BY <1>3 DEF Posts!ShowSaved
    <3>2. ASSUME NEW m \in X PROVE [v8[m] EXCEPT !.over = @ \/ ~v8[m].reset] \in Asked
      <4>1. v8[m] \in Asked
        BY <1>0
      <4> QED BY <4>1 DEF Asked
    <3> QED BY <3>1, <3>2
  <2> QED BY <1>0, <1>a, <2>1, <2>2, <2>3, <2>4, <2>5, <2>6
<1>4. ASSUME NEW l \in X, Posts!Answer(l) PROVE PostsTyped'
  <2>1. v8[l] \in Asked /\ v8[l].text \in Sought /\ v8[l].items \in Posts!Pages
    BY <1>0 DEF Asked
  <2>2. /\ v8' = [m \in X |-> IF m = l THEN Posts!Idle ELSE
                   [v8[m] EXCEPT !.before = @ \ {l}, !.over = @ \/ Posts!Overtaken(l, m)]]
        /\ v7' = FALSE /\ v1' = v1 /\ v2' = v2 /\ v3' = v3
        /\ v6' = (Len(v8[l].items) = PostsPage)
    BY <1>4 DEF Posts!Answer, Posts!Apply
  <2>a. v11' \in BOOLEAN
    BY <1>4, Zenon DEF Posts!Answer
  <2>3. v9' \in {v8[l].items, v9}
    BY <1>4, Zenon DEF Posts!Answer
  <2>4. \/ v4' = v8[l].items /\ v5' = Len(v8[l].items) /\ v10' = v8[l].text
        \/ v4' = v4 \o v8[l].items /\ v5' = v5 + Len(v8[l].items) /\ v10' = v10
    BY <1>4 DEF Posts!Answer, Posts!Apply
  <2>5. v8' \in [X -> Asked]
    <3>1. ASSUME NEW m \in X
          PROVE  [v8[m] EXCEPT !.before = @ \ {l}, !.over = @ \/ Posts!Overtaken(l, m)]
                   \in Asked
      <4>1. v8[m] \in Asked
        BY <1>0
      <4>2. v8[m].before \ {l} \in SUBSET X
        BY <4>1 DEF Asked
      <4>3. (v8[m].over \/ Posts!Overtaken(l, m)) \in BOOLEAN
        OBVIOUS
      <4> QED BY <4>1, <4>2, <4>3 DEF Asked
    <3> QED BY <2>2, <3>1, IdleIsAsked
  <2>6. v8[l].items \in Seq(Numbers)
    BY <2>1, PagesAreSeqs
  <2>7. Len(v8[l].items) \in Nat /\ v4 \o v8[l].items \in Seq(Numbers)
    BY <1>0, <2>6
  <2>8. v4' \in Seq(Numbers)
    BY <2>4, <2>6, <2>7
  <2>9. v5' \in Nat
    BY <1>0, <2>4, <2>7
  <2>10. v10' \in Sought /\ v6' \in BOOLEAN /\ v9' \in Posts!Pages \cup {Posts!NoPage}
    BY <1>0, <2>1, <2>2, <2>3, <2>4
  <2> QED BY <1>0, <1>a, <2>a, <2>2, <2>5, <2>8, <2>9, <2>10
<1>5. ASSUME NEW l \in X, Posts!Fails(l) PROVE PostsTyped'
  <2>1. /\ v8' = [m \in X |-> IF m = l THEN Posts!Idle ELSE
                   [v8[m] EXCEPT !.before = @ \ {l}]]
        /\ v7' = FALSE /\ v11' = TRUE
        /\ v1' = v1 /\ v2' = v2 /\ v3' = v3 /\ v4' = v4 /\ v5' = v5 /\ v6' = v6
        /\ v9' = v9 /\ v10' = v10
    BY <1>5 DEF Posts!Fails, Posts!screen
  <2>2. v8' \in [X -> Asked]
    <3>1. ASSUME NEW m \in X PROVE [v8[m] EXCEPT !.before = @ \ {l}] \in Asked
      <4>1. v8[m] \in Asked
        BY <1>0
      <4>2. v8[m].before \ {l} \in SUBSET X
        BY <4>1 DEF Asked
      <4> QED BY <4>1, <4>2 DEF Asked
    <3> QED BY <2>1, <3>1, IdleIsAsked
  <2> QED BY <1>0, <1>a, <2>1, <2>2
<1>6. ASSUME NEW w \in Sought, Posts!Type(w) PROVE PostsTyped'
  <2>1. /\ v2' = w /\ v3' = TRUE /\ v1' = v1 /\ v4' = v4 /\ v5' = v5 /\ v6' = v6
        /\ v7' = v7 /\ v8' = v8 /\ v9' = v9 /\ v10' = v10 /\ v11' = v11
    BY <1>6 DEF Posts!Type, Posts!screen
  <2> QED BY <1>0, <1>a, <2>1
<1>7. ASSUME NEW n \in Numbers, Posts!Appears(n) \/ Posts!Vanishes(n) PROVE PostsTyped'
  <2>1. /\ v2' = v2 /\ v3' = v3 /\ v4' = v4 /\ v5' = v5 /\ v6' = v6 /\ v7' = v7 /\ v8' = v8
        /\ v9' = v9 /\ v10' = v10
    BY <1>7 DEF Posts!Appears, Posts!Vanishes, Posts!Changed, Posts!screen
  <2>2. v11' \in BOOLEAN
    BY <1>7 DEF Posts!Appears, Posts!Vanishes, Posts!Changed
  <2>3. v1' \in [Sought -> Seq(Numbers)]
    <3>1. Numbers \in SUBSET Nat
      BY BoundsAreNumbers DEF Numbers
    <3> QED BY <1>0, <1>7, <3>1, ServerKeepsLists
  <2> QED BY <1>0, <1>a, <2>1, <2>2, <2>3
<1>8. CASE UNCHANGED Posts!vars
  BY <1>0, <1>a, <1>8 DEF Posts!vars
<1>9. CASE Posts!Next
  BY <1>1, <1>2, <1>3, <1>4, <1>5, <1>6, <1>7, <1>9, Zenon DEF Posts!Next, Sought, Numbers
<1> QED BY <1>8, <1>9

\* These are the types Feed names.
LEMMA PostsTypedIs == ASSUME PostsTyped PROVE Posts!TypeOK
  BY Zenon DEF PostsTyped, Posts!TypeOK, Sought, Numbers, Asked

------------------------------------------------------------------------------
\* The types of both instances of Conversation are one.
LEMMA SameTalkTypes == Talk!TypeOK <=> TP!TypeOK
<1>1. Talk!Numbers = TP!Numbers /\ Talk!Causes = TP!Causes
  BY DEF Talk!Numbers, TP!Numbers, Talk!Causes, TP!Causes
<1>2. Talk!Item = TP!Item /\ Talk!Event = TP!Event
  BY <1>1 DEF Talk!Item, TP!Item, Talk!Event, TP!Event
<1> QED BY <1>1, <1>2, Zenon DEF Talk!TypeOK, TP!TypeOK

\* What a state of each part is: its types, with what keeps them so.
PartTyped ==
  /\ part \in {"data", "media", "pairs", "talk", "field", "gallery", "posts", "card",
               "thread", "form"}
  /\ part = "data" => DataInv
  /\ part = "media" => Media!TypeOK
  /\ part = "pairs" => PairsHold
  /\ part = "talk" => TP!TypeOK /\ TP!TalkInv
  /\ part = "field" => Field!TypeOK
  /\ part = "gallery" => GalleryTyped
  /\ part = "posts" => PostsTyped
  /\ part = "card" => Card!TypeOK
  /\ part = "thread" => Thread!TypeOK
  /\ part = "form" => FormTyped

\* Whatever the client does, in whichever part, its state has the types the modules
\* name: for any number of keys, devices, albums, loads and taps.
THEOREM TypesAreKept == Spec => []TypeOK
<1>0. /\ Data!BoundsAssumption /\ Media!BoundsAssumption /\ Pairs!MaxPairsAssumption
      /\ TP!ConversationAssumption /\ Field!ComposerAssumption /\ Gallery!AlbumsAssumption
      /\ Thread!PostThreadAssumption /\ Form!MaxPostsAssumption
  BY PartsAssumption, SameTalk DEF PartsAssumption
<1>1. Init => PartTyped
  <2> SUFFICES ASSUME Init PROVE PartTyped
    OBVIOUS
  <2>1. part \in {"data", "media", "pairs", "talk", "field", "gallery", "posts", "card",
                  "thread", "form"}
    BY DEF Init
  <2>2. /\ part = "data" => Data!Init
        /\ part = "media" => Media!Init
        /\ part = "pairs" => Pairs!Init
        /\ part = "talk" => TP!Init
        /\ part = "field" => Field!Init
        /\ part = "gallery" => Gallery!Init
        /\ part = "posts" => Posts!Init
        /\ part = "card" => Card!Init
        /\ part = "thread" => Thread!Init
        /\ part = "form" => Form!Init
    BY SameTalk DEF Init
  <2> QED BY <1>0, <2>1, <2>2, DataStarts, MediaStartsTyped, PairsStart, TP!TalkStarts,
          FieldStartsTyped, GalleryStartsTyped, PostsStartTyped, CardStartsTyped,
          ThreadStartsTyped, FormStartsTyped DEF PartTyped
<1>2. PartTyped /\ [Next]_vars => PartTyped'
  <2> SUFFICES ASSUME PartTyped, [Next]_vars PROVE PartTyped'
    OBVIOUS
  <2>1. part' = part
    BY DEF Next, vars
  <2>2. /\ part = "data" => [Data!Next]_(Data!vars)
        /\ part = "media" => [Media!Next]_(Media!vars)
        /\ part = "pairs" => [Pairs!Next]_(Pairs!vars)
        /\ part = "talk" => [TP!Next]_(TP!vars)
        /\ part = "field" => [Field!Next]_(Field!vars)
        /\ part = "gallery" => [Gallery!Next]_(Gallery!vars)
        /\ part = "posts" => [Posts!Next]_(Posts!vars)
        /\ part = "card" => [Card!Next]_(Card!vars)
        /\ part = "thread" => [Thread!Next]_(Thread!vars)
        /\ part = "form" => [Form!Next]_(Form!vars)
    <3>1. CASE Next
      BY <3>1, SameTalk DEF Next, Step
    <3>2. CASE UNCHANGED vars
      BY <3>2 DEF vars, Data!vars, Media!vars, Pairs!vars, TP!vars, Field!vars, Gallery!vars,
         Posts!vars, Card!vars, Thread!vars, Thread!server, Thread!field, Form!vars
    <3> QED BY <3>1, <3>2
  <2>3. part = "data" => DataInv'
    BY <1>0, <2>2, DataTypes, DataKeeps DEF PartTyped, DataInv, Data!InOrder
  <2>4. part = "pairs" => PairsHold'
    BY <1>0, <2>2, PairsStayHeld DEF PartTyped
  <2>5. part = "talk" => TP!TypeOK' /\ TP!TalkInv'
    BY <1>0, <2>2, TP!TalkKeeps DEF PartTyped
  <2>6. /\ part = "media" => Media!TypeOK'
        /\ part = "field" => Field!TypeOK'
        /\ part = "gallery" => GalleryTyped'
    BY <1>0, <2>2, MediaTypes, FieldTypes, GalleryTypes DEF PartTyped
  <2>7. /\ part = "posts" => PostsTyped'
        /\ part = "card" => Card!TypeOK'
        /\ part = "thread" => Thread!TypeOK'
        /\ part = "form" => FormTyped'
    BY <1>0, <2>2, PostsTypes, CardTypes, ThreadTypes, FormTypes DEF PartTyped
  <2> QED BY <2>1, <2>3, <2>4, <2>5, <2>6, <2>7 DEF PartTyped
<1>3. PartTyped => TypeOK
  <2>1. ASSUME PartTyped
        PROVE  /\ part = "data" => Data!TypeOK
               /\ part = "pairs" => Pairs!TypeOK
               /\ part = "talk" => Talk!TypeOK
               /\ part = "gallery" => Gallery!TypeOK
               /\ part = "posts" => Posts!TypeOK
               /\ part = "thread" => Thread!TypeOK
               /\ part = "form" => Form!TypeOK
    BY <2>1, SameTalkTypes, GalleryTypedIs, PostsTypedIs
       DEF PartTyped, DataInv, PairsHold, FormTyped
  <2> QED BY <2>1 DEF PartTyped, TypeOK
<1> QED BY <1>1, <1>2, <1>3, PTL DEF Spec
==============================================================================
