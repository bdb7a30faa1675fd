-------------------------- MODULE ClientAuthProofs --------------------------
(***************************************************************************)
(* Proofs about ClientAuth for any accounts, any number of calls of the    *)
(* client at once and any bound on the pairs: its types, and by one        *)
(* inductive invariant (IInv) that a queued call always has a refresh to   *)
(* wait for, that the client by itself never uses a refresh token twice,   *)
(* that only a stale answer brings a session back after a log-out, and     *)
(* what it takes to lose one.                                              *)
(***************************************************************************)
EXTENDS ClientAuth, FiniteSetTheorems, TLAPS

------------------------------------------------------------------------------
(* The inductive invariant.                                                *)

\* What a slot holds at each phase.
Sound(r) ==
  /\ r.pair # 0 => r.phase \in {"back", "refreshed"} /\ r.ans = "ok"
  /\ r.ans = "ok" /\ r.phase = "refreshed" => r.pair # 0
  /\ r.ans = "ok" /\ r.phase = "back" /\ r.kind \notin {"start", "unlock", "logout"}
       => r.pair # 0
  /\ r.phase \in {"refreshed", "woken"} => r.ans \in {"ok", "refused", "error", "gate", "lost"}
  /\ r.kind \in {"login", "enter"} => r.who \in Users
  /\ r.kind = "login" => r.phase \in {"idle", "out", "back"}

SlotsSound == \A s \in Slots : Sound(slot[s])

\* The single flight of tryRefresh.
OneRefresher ==
  /\ \A s, t \in Refresher : s = t
  /\ (\E s \in Slots : slot[s].phase = "queued") => Refresher # {}

\* A call that began after the log-out carries nothing of the session.
Bare(r) ==
  r.phase # "idle" /\ ~r.old =>
    /\ r.kind \in {"start", "unlock", "session", "login"} /\ r.tok = 0
    /\ r.phase \notin {"refreshing", "refreshed"}
    /\ r.ans = "ok" => r.phase = "back" /\ r.kind # "session"

SignedOut ==
  left /\ blame # "stale" =>
    /\ user = None /\ cached = None /\ store = 0 /\ ticket = None
    /\ \A s \in Slots : Bare(slot[s])

\* A pair on its way to the device is stored nowhere else, and the stored token
\* was exchanged only if the answer is on its way.
Brings(r) == r.pair # 0 /\ (r.kind = "login" \/ r.phase = "refreshed")
Exchanged(r) == r.phase = "refreshed" /\ r.ans = "ok"

Unspent ==
  blame = "none" =>
    /\ store \in spent => \E s \in Slots : Exchanged(slot[s])
    /\ \A s \in Slots : slot[s].phase = "refreshing" => slot[s].tok \notin spent
    /\ \A s \in Slots : Brings(slot[s]) =>
         /\ slot[s].pair \notin spent /\ slot[s].pair # store
         /\ \A t \in Slots \ {s} :
              /\ slot[t].phase = "refreshing" => slot[t].tok # slot[s].pair
              /\ Brings(slot[t]) => slot[t].pair # slot[s].pair

IInv == TypeOK /\ SlotsSound /\ OneRefresher /\ SignedOut /\ Unspent

------------------------------------------------------------------------------
(* Slots and pairs.                                                        *)

\* What becomes of the slots when that of s gets another value.
Put(s, r) ==
  /\ slot' \in [Slots -> Slot]
  /\ \A t \in Slots : {slot'[t].tok, slot'[t].pair} \subseteq Minted' \cup {0}
  /\ slot'[s] = r
  /\ \A t \in Slots \ {s} : slot'[t] = slot[t]

\* The requests the client builds are requests.
LEMMA SlotTypes ==
  /\ Idle \in Slot /\ Idle.tok = 0 /\ Idle.pair = 0 /\ Sound(Idle) /\ Bare(Idle)
  /\ Idle.phase = "idle" /\ Idle.ans = "none"
  /\ \A k \in Kinds, u \in Who, n \in 0 .. MaxTok, p, o \in BOOLEAN :
       LET r == Sent(k, u, n, p, o) IN
       /\ r \in Slot
       /\ r.kind = k /\ r.who = u /\ r.phase = "out" /\ r.ans = "none"
       /\ r.tok = n /\ r.pair = 0 /\ r.old = o
  BY MaxTokAssumption DEF Idle, Sent, Slot, Kinds, Phases, Answers, Who, Sound, Bare

\* A slot given a request that is one.
LEMMA PutType ==
  ASSUME TypeOK, NEW s \in Slots, NEW r \in Slot, slot' = [slot EXCEPT ![s] = r],
         Minted \subseteq Minted', {r.tok, r.pair} \subseteq Minted' \cup {0}
  PROVE  Put(s, r)
  BY DEF TypeOK, Put

\* A new pair belongs to its user and is none of those issued before.
LEMMA MintType ==
  ASSUME TypeOK, NEW u \in Users, NEW n \in Tok, Mint(u, n)
  PROVE  /\ n \notin Minted /\ Minted' = Minted \cup {n}
         /\ Minted' = 1 .. Cardinality(Minted') /\ Minted' \subseteq Tok
         /\ \A i \in Minted' : owner'[i] \in Users
  <1>1. IsFiniteSet(Minted) /\ Cardinality(Minted) \in Nat
    <2>1. IsFiniteSet(Tok)
      BY FS_Interval, MaxTokAssumption DEF Tok
    <2> QED BY <2>1, FS_Subset, FS_CardinalityType DEF TypeOK
  <1>2. n \notin Minted /\ Minted' = Minted \cup {n}
    BY <1>1 DEF TypeOK, Mint, Minted
  <1>3. Cardinality(Minted') = n
    BY <1>1, <1>2, FS_AddElement DEF Mint
  <1>4. Minted' = 1 .. n
    BY <1>1, <1>2 DEF Mint, TypeOK
  <1>5. \A i \in Minted' : owner'[i] \in Users
    BY <1>2 DEF Mint, TypeOK, Minted
  <1> QED BY <1>2, <1>3, <1>4, <1>5 DEF TypeOK, Mint

\* The server answers the request or the refresh of a slot.
LEMMA AnswerType ==
  ASSUME TypeOK, NEW s \in Slots, NEW a \in Answers, NEW n \in Minted' \cup {0},
         Minted \subseteq Minted', Minted' \subseteq Tok,
         NEW p \in {"back", "refreshed"},
         p = "back" => Answer(s, a, n), p = "refreshed" => Refreshed(s, a, n)
  PROVE  \E r \in Slot :
           /\ Put(s, r)
           /\ r.kind = slot[s].kind /\ r.who = slot[s].who /\ r.old = slot[s].old
           /\ r.phase = p /\ r.ans = a /\ r.pair = n /\ r.tok = 0
  <1> DEFINE r == [slot[s] EXCEPT !.phase = p, !.ans = a, !.pair = n, !.tok = 0]
  <1>1. slot' = [slot EXCEPT ![s] = r]
    <2>1. CASE p = "back"
      BY <2>1 DEF Answer
    <2>2. CASE p = "refreshed"
      BY <2>2 DEF Refreshed
    <2> QED BY <2>1, <2>2
  <1>2. /\ r \in Slot
        /\ r.kind = slot[s].kind /\ r.who = slot[s].who /\ r.old = slot[s].old
        /\ r.phase = p /\ r.ans = a /\ r.pair = n /\ r.tok = 0
    <2>1. slot[s] \in Slot /\ n \in 0 .. MaxTok /\ 0 \in 0 .. MaxTok
      BY MaxTokAssumption DEF TypeOK, Tok
    <2> QED BY <2>1 DEF Slot, Phases
  <1>3. Put(s, r)
    <2> HIDE DEF r
    <2> QED BY <1>1, <1>2, PutType
  <1> QED BY <1>2, <1>3

\* A call is over, or its next request goes out.
LEMMA DoneType ==
  ASSUME TypeOK, NEW s \in Slots, Done(s), UNCHANGED owner
  PROVE  Put(s, Idle)
  <1>1. Idle \in Slot /\ {Idle.tok, Idle.pair} \subseteq Minted' \cup {0}
    BY SlotTypes
  <1>2. slot' = [slot EXCEPT ![s] = Idle] /\ Minted \subseteq Minted'
    BY DEF Done, Minted
  <1> QED BY <1>1, <1>2, PutType

\* The next request of a call is a request.
LEMMA ThenType ==
  ASSUME TypeOK, NEW s \in Slots, NEW k \in Kinds, NEW u \in Who,
         NEW n \in Minted \cup {0}, NEW p \in BOOLEAN, Then(s, k, u, n, p), UNCHANGED owner
  PROVE  \E r \in Slot :
           /\ Put(s, r)
           /\ r.kind = k /\ r.who = u /\ r.phase = "out" /\ r.ans = "none"
           /\ r.tok = n /\ r.pair = 0 /\ r.old = slot[s].old
  <1> DEFINE r == Sent(k, u, n, p, slot[s].old)
  <1>1. n \in 0 .. MaxTok /\ slot[s].old \in BOOLEAN
    BY MaxTokAssumption DEF TypeOK, Tok, Slot
  <1>2. /\ r \in Slot
        /\ r.kind = k /\ r.who = u /\ r.phase = "out" /\ r.ans = "none"
        /\ r.tok = n /\ r.pair = 0 /\ r.old = slot[s].old
    BY <1>1, SlotTypes
  <1>3. Put(s, r)
    <2>1. slot' = [slot EXCEPT ![s] = r]
      BY DEF Then
    <2> HIDE DEF r
    <2> QED BY <2>1, <1>2, PutType DEF Minted
  <1> QED BY <1>2, <1>3

------------------------------------------------------------------------------
(* A step of one slot, invariant by invariant.                             *)

\* The other slots keep what they hold.
LEMMA PutSound ==
  ASSUME SlotsSound, NEW s \in Slots, NEW r, Put(s, r), Sound(r)
  PROVE  SlotsSound'
  BY DEF SlotsSound, Put, Sound

\* The slot was and is the one that refreshes, or neither, and does not queue.
LEMMA PutRefresher ==
  ASSUME OneRefresher, NEW s \in Slots, NEW r, Put(s, r),
         r.phase \in {"refreshing", "refreshed"} <=> slot[s].phase \in {"refreshing", "refreshed"},
         r.phase # "queued"
  PROVE  OneRefresher'
  <1>1. Refresher' = Refresher
    BY DEF Refresher, Put
  <1>2. \A t \in Slots : slot'[t].phase = "queued" => slot[t].phase = "queued"
    BY DEF Put
  <1> QED BY <1>1, <1>2 DEF OneRefresher

\* After the log-out a slot may change to one that carries nothing.
LEMMA PutBare ==
  ASSUME SignedOut, NEW s \in Slots, NEW r, Put(s, r),
         left' /\ blame' # "stale" =>
           /\ left /\ blame # "stale"
           /\ user' = None /\ cached' = None /\ store' = 0 /\ ticket' = None
           /\ Bare(r)
  PROVE  SignedOut'
  BY DEF SignedOut, Put, Bare

\* Nothing is exchanged, and a pair that sets out is a new one.
LEMMA PutUnspent ==
  ASSUME Unspent, TypeOK, NEW s \in Slots, NEW r, Put(s, r), UNCHANGED spent,
         blame' = "none" => blame = "none" /\ ~Exchanged(slot[s]),
         store' \in {store, 0} \/ (store' = slot[s].pair /\ Brings(slot[s])),
         r.phase # "refreshing", Brings(r) => r.pair \notin Minted
  PROVE  Unspent'
  <1> SUFFICES ASSUME blame' = "none" PROVE Unspent'
    BY DEF Unspent
  <1>1. blame = "none" /\ 0 \notin spent /\ spent \subseteq Minted
    BY DEF TypeOK, Tok
  <1>2. store' \in spent' => \E t \in Slots : Exchanged(slot'[t])
    BY <1>1 DEF Unspent, Put
  <1>3. \A t \in Slots : slot'[t].phase = "refreshing" => slot'[t].tok \notin spent'
    BY <1>1 DEF Unspent, Put
  <1>4. ASSUME NEW t \in Slots, Brings(slot'[t])
        PROVE  /\ slot'[t].pair \notin spent' /\ slot'[t].pair # store'
               /\ \A u \in Slots \ {t} :
                    /\ slot'[u].phase = "refreshing" => slot'[u].tok # slot'[t].pair
                    /\ Brings(slot'[u]) => slot'[u].pair # slot'[t].pair
    <2>0. /\ slot'[t].pair # 0 /\ store \in Minted \cup {0}
          /\ \A u \in Slots : {slot[u].tok, slot[u].pair} \subseteq Minted \cup {0}
      BY <1>4 DEF Brings, TypeOK
    <2>1. CASE t = s
      <3>1. slot'[t].pair \notin Minted
        BY <1>4, <2>1 DEF Put
      <3> QED BY <1>1, <2>0, <2>1, <3>1 DEF Put
    <2>2. CASE t # s
      <3>1. slot'[t] = slot[t] /\ slot[t].pair \in Minted
        BY <2>0, <2>2 DEF Put
      <3>2. slot'[t].pair \notin spent' /\ slot'[t].pair # store'
        BY <1>1, <1>4, <2>0, <2>2, <3>1 DEF Unspent
      <3>3. ASSUME NEW u \in Slots \ {t}
            PROVE  /\ slot'[u].phase = "refreshing" => slot'[u].tok # slot'[t].pair
                   /\ Brings(slot'[u]) => slot'[u].pair # slot'[t].pair
        <4>1. CASE u = s
          BY <3>1, <4>1 DEF Put
        <4>2. CASE u # s
          BY <1>1, <1>4, <3>1, <4>2 DEF Unspent, Put
        <4> QED BY <4>1, <4>2
      <3> QED BY <3>2, <3>3
    <2> QED BY <2>1, <2>2
  <1> QED BY <1>2, <1>3, <1>4 DEF Unspent

------------------------------------------------------------------------------
(* The server and the network.                                             *)

\* The parts of the invariant that speak of slots.
SlotInv == SlotsSound /\ OneRefresher /\ SignedOut /\ Unspent

\* The slots hold requests, about pairs that were issued.
Typed == /\ slot \in [Slots -> Slot]
         /\ \A s \in Slots : {slot[s].tok, slot[s].pair} \subseteq Minted \cup {0}

\* A request is answered: with a token or a pair if it is granted one.
LEMMA AnswerKeeps ==
  ASSUME IInv, NEW s \in Slots, NEW a \in Answers, NEW n \in Minted' \cup {0},
         Answer(s, a, n), slot[s].phase \in {"out", "back"},
         Minted \subseteq Minted', Minted' \subseteq Tok,
         UNCHANGED <<spent, device, screen, history>>,
         n # 0 <=> a = "ok" /\ slot[s].kind \notin {"start", "unlock", "logout"},
         slot[s].kind = "login" => n \notin Minted,
         slot[s].kind = "session" /\ a = "ok" => slot[s].tok # 0
  PROVE  Typed' /\ SlotInv'
<1>1. PICK r \in Slot :
           /\ Put(s, r)
           /\ r.kind = slot[s].kind /\ r.who = slot[s].who /\ r.old = slot[s].old
           /\ r.phase = "back" /\ r.ans = a /\ r.pair = n /\ r.tok = 0
  <2>1. TypeOK
    BY DEF IInv
  <2> QED BY <2>1, AnswerType
<1>2. Sound(slot[s])
  BY DEF IInv, SlotsSound
<1>3. Sound(r)
  BY <1>1, <1>2 DEF Sound
<1>4. SlotsSound'
  BY <1>1, <1>3, PutSound DEF IInv
<1>5. OneRefresher'
  BY <1>1, PutRefresher DEF IInv
<1>6. SignedOut'
  <2>1. left' = left /\ blame' = blame /\ user' = user /\ cached' = cached
        /\ store' = store /\ ticket' = ticket
    BY DEF device, screen, history
  <2>2. left /\ blame # "stale" => Bare(r)
    BY <1>1 DEF IInv, SignedOut, Bare
  <2> QED BY <1>1, <2>1, <2>2, PutBare DEF IInv, SignedOut
<1>7. Unspent'
  <2>1. blame' = blame /\ store' = store /\ ~Exchanged(slot[s])
    BY DEF device, history, Exchanged
  <2>2. r.phase # "refreshing" /\ (Brings(r) => r.pair \notin Minted)
    BY <1>1 DEF Brings
  <2> QED BY <1>1, <2>1, <2>2, PutUnspent DEF IInv
<1> QED BY <1>1, <1>4, <1>5, <1>6, <1>7 DEF Put, Typed, SlotInv

\* A refresh is answered, or its answer is lost.
LEMMA RefreshedKeeps ==
  ASSUME IInv, NEW s \in Slots, NEW a \in {"ok", "refused", "error", "gate", "lost"},
         NEW n \in Minted' \cup {0}, Refreshed(s, a, n), slot[s].phase \in {"refreshing", "refreshed"},
         Minted \subseteq Minted', Minted' \subseteq Tok,
         UNCHANGED <<device, screen, left>>,
         n # 0 <=> a = "ok", n \notin Minted,
         \/ spent' = spent
         \/ n # 0 /\ slot[s].phase = "refreshing" /\ spent' = spent \cup {slot[s].tok},
         blame' = "none" => blame = "none" /\ ~Exchanged(slot[s]),
         blame' # "stale" => blame # "stale"
  PROVE  Typed' /\ SlotInv'
<1>1. PICK r \in Slot :
           /\ Put(s, r)
           /\ r.kind = slot[s].kind /\ r.who = slot[s].who /\ r.old = slot[s].old
           /\ r.phase = "refreshed" /\ r.ans = a /\ r.pair = n /\ r.tok = 0
  <2>1. TypeOK /\ a \in Answers
    BY DEF IInv, Answers
  <2> QED BY <2>1, AnswerType
<1>2. Sound(slot[s])
  BY DEF IInv, SlotsSound
<1>3. Sound(r)
  BY <1>1, <1>2 DEF Sound
<1>4. SlotsSound'
  BY <1>1, <1>3, PutSound DEF IInv
<1>5. OneRefresher'
  BY <1>1, PutRefresher DEF IInv
<1>6. SignedOut'
  <2>1. left' = left /\ user' = user /\ cached' = cached /\ store' = store /\ ticket' = ticket
    BY DEF device, screen
  <2>2. left /\ blame # "stale" => Bare(r)
    BY <1>1 DEF IInv, SignedOut, Bare
  <2> QED BY <1>1, <2>1, <2>2, PutBare DEF IInv, SignedOut
<1>7. Unspent'
  <2> SUFFICES ASSUME blame' = "none" PROVE Unspent'
    BY DEF Unspent
  <2>0. /\ Unspent /\ blame = "none" /\ ~Exchanged(slot[s]) /\ store' = store
        /\ spent \subseteq Minted /\ store \in Minted \cup {0} /\ 0 \notin Minted
        /\ \A t \in Slots : {slot[t].tok, slot[t].pair} \subseteq Minted \cup {0}
    BY DEF IInv, device, TypeOK, Tok
  <2>1. \A t \in Slots \ {s} : slot[t].phase \notin {"refreshing", "refreshed"}
    BY DEF IInv, OneRefresher, Refresher
  <2>2. store' \in spent' => \E t \in Slots : Exchanged(slot'[t])
    <3>1. CASE n # 0
      BY <1>1, <3>1 DEF Put, Exchanged
    <3>2. CASE n = 0
      BY <2>0, <2>1, <3>2 DEF Unspent, Exchanged
    <3> QED BY <3>1, <3>2
  <2>3. \A t \in Slots : slot'[t].phase # "refreshing"
    BY <1>1, <2>1 DEF Put
  <2>4. ASSUME NEW t \in Slots, Brings(slot'[t])
        PROVE  /\ slot'[t].pair \notin spent' /\ slot'[t].pair # store'
               /\ \A u \in Slots \ {t} : Brings(slot'[u]) => slot'[u].pair # slot'[t].pair
    <3>1. CASE t = s
      <4>1. slot'[t].pair = n /\ n # 0
        BY <1>1, <2>4, <3>1 DEF Put, Brings
      <4> QED BY <1>1, <2>0, <3>1, <4>1 DEF Put
    <3>2. CASE t # s
      <4>1. slot'[t] = slot[t] /\ Brings(slot[t]) /\ slot[t].pair # 0
        BY <1>1, <2>4, <3>2 DEF Put, Brings
      <4>2. slot[t].pair \notin spent /\ slot[t].pair # store
        BY <2>0, <4>1 DEF Unspent
      <4>3. slot[s].phase = "refreshing" => slot[s].tok # slot[t].pair
        BY <2>0, <3>2, <4>1 DEF Unspent
      <4>4. \A u \in Slots \ {t} : Brings(slot'[u]) => slot'[u].pair # slot'[t].pair
        <5>1. ASSUME NEW u \in Slots \ {t}, Brings(slot'[u]) PROVE slot'[u].pair # slot'[t].pair
          <6>1. CASE u = s
            BY <1>1, <2>0, <4>1, <6>1 DEF Put
          <6>2. CASE u # s
            BY <1>1, <2>0, <4>1, <5>1, <6>2 DEF Put, Unspent
          <6> QED BY <6>1, <6>2
        <5> QED BY <5>1
      <4> QED BY <2>0, <4>1, <4>2, <4>3, <4>4
    <3> QED BY <3>1, <3>2
  <2> QED BY <2>2, <2>3, <2>4 DEF Unspent
<1> QED BY <1>1, <1>4, <1>5, <1>6, <1>7 DEF Put, Typed, SlotInv

\* What the server keeps of its tokens.
ServerType == /\ Minted = 1 .. Cardinality(Minted) /\ Minted \subseteq Tok
              /\ \A n \in Minted : owner[n] \in Users
              /\ live \subseteq Minted /\ fresh \subseteq Minted /\ spent \subseteq Minted
              /\ gateValid \in BOOLEAN

\* What the client keeps, and the history of both.
DeviceType == /\ store \in Minted \cup {0} /\ gateTok \in BOOLEAN
              /\ ticket \in Who /\ cached \in Who
              /\ user \in Who /\ gateOk \in {"unknown", "open", "shut"} /\ loading \in BOOLEAN
              /\ left \in BOOLEAN /\ blame \in {"none", "lost", "stale"}

\* The invariant by the state it speaks of, before and after a step.
LEMMA Parts ==
  /\ IInv <=> ServerType /\ DeviceType /\ Typed /\ SlotInv
  /\ IInv' <=> ServerType' /\ DeviceType' /\ Typed' /\ SlotInv'
  BY DEF IInv, TypeOK, ServerType, DeviceType, Typed, SlotInv

\* Whatever the server does with a request or a refresh.
LEMMA ServeKeeps ==
  ASSUME IInv, NEW s \in Slots, Serve(s) PROVE IInv'
<1>0. /\ UNCHANGED <<device, screen, left>> /\ TypeOK /\ ServerType /\ DeviceType
      /\ 0 \notin Minted /\ slot[s].tok \in Minted \cup {0} /\ Sound(slot[s])
  BY Parts DEF Serve, IInv, ServerType, Tok, Typed, SlotsSound, TypeOK
<1>d. blame' = blame => (Minted \subseteq Minted' => DeviceType')
  BY <1>0 DEF DeviceType, device, screen
<1>1. CASE Denied(s)
  <2>1. Answer(s, "gate", 0) /\ slot[s].phase = "out" /\ UNCHANGED <<server, blame>>
    BY <1>1 DEF Denied
  <2>2. Typed' /\ SlotInv'
    BY <1>0, <2>1, AnswerKeeps DEF server, history, Minted, Answers, ServerType
  <2> QED BY <1>0, <1>d, <2>1, <2>2, Parts DEF server, ServerType, Minted
<1>2. CASE Failed(s)
  <2>1. Answer(s, "error", 0) /\ slot[s].phase = "out" /\ UNCHANGED <<server, blame>>
    BY <1>2 DEF Failed
  <2>2. Typed' /\ SlotInv'
    BY <1>0, <2>1, AnswerKeeps DEF server, history, Minted, Answers, ServerType
  <2> QED BY <1>0, <1>d, <2>1, <2>2, Parts DEF server, ServerType, Minted
<1>3. CASE ServeGate(s)
  <2> DEFINE a == IF slot[s].kind = "unlock" \/ slot[s].pass THEN "ok" ELSE "shut"
  <2>1. /\ Answer(s, a, 0) /\ slot[s].phase = "out" /\ slot[s].kind \in {"start", "unlock"}
        /\ UNCHANGED <<owner, live, fresh, spent, blame>> /\ gateValid' \in BOOLEAN
    BY <1>0, <1>3 DEF ServeGate, ServerType
  <2>2. a \in Answers /\ a \in {"ok", "shut"}
    BY DEF Answers
  <2>3. Typed' /\ SlotInv'
    <3> HIDE DEF a
    <3> QED BY <1>0, <2>1, <2>2, AnswerKeeps DEF history, Minted, ServerType
  <2> QED BY <1>0, <1>d, <2>1, <2>3, Parts DEF ServerType, Minted
<1>4. CASE ServeLogin(s)
  <2>1. PICK n \in Tok :
          /\ Mint(slot[s].who, n)
          /\ live' = live \cup {n} /\ fresh' = fresh \cup {n}
          /\ Answer(s, "ok", n)
    BY <1>4 DEF ServeLogin
  <2>2. slot[s].phase = "out" /\ slot[s].kind = "login" /\ UNCHANGED <<spent, gateValid, blame>>
    BY <1>4 DEF ServeLogin
  <2>3. slot[s].who \in Users
    BY <1>0, <2>2 DEF Sound
  <2>4. /\ n \notin Minted /\ Minted' = Minted \cup {n}
        /\ Minted' = 1 .. Cardinality(Minted') /\ Minted' \subseteq Tok
        /\ \A i \in Minted' : owner'[i] \in Users
    BY <1>0, <2>1, <2>3, MintType
  <2>5. Typed' /\ SlotInv'
    BY <1>0, <2>1, <2>2, <2>4, AnswerKeeps DEF history, Answers, Tok
  <2> QED BY <1>0, <1>d, <2>1, <2>2, <2>4, <2>5, Parts DEF ServerType
<1>5. CASE ServeLogout(s)
  <2>1. /\ Answer(s, "ok", 0) /\ slot[s].phase = "out" /\ slot[s].kind = "logout"
        /\ UNCHANGED <<owner, spent, gateValid, blame>>
        /\ live' \subseteq live /\ fresh' \subseteq fresh
    BY <1>5 DEF ServeLogout
  <2>2. Typed' /\ SlotInv'
    BY <1>0, <2>1, AnswerKeeps DEF history, Minted, Answers, ServerType
  <2> QED BY <1>0, <1>d, <2>1, <2>2, Parts DEF ServerType, Minted
<1>6. CASE ServeCall(s)
  <2>1. /\ slot[s].phase = "out" /\ slot[s].kind \notin {"start", "unlock", "login", "logout"}
        /\ UNCHANGED <<owner, spent, gateValid, blame>>
        /\ live' \subseteq live /\ fresh' \subseteq fresh
    BY <1>6 DEF ServeCall
  <2>2. \/ slot[s].tok \in Minted /\ Answer(s, "ok", slot[s].tok)
        \/ Answer(s, "401", 0)
    BY <1>0, <1>6 DEF ServeCall, ServerType
  <2>3. CASE slot[s].tok \in Minted /\ Answer(s, "ok", slot[s].tok)
    <3>1. Typed' /\ SlotInv'
      BY <1>0, <2>1, <2>3, AnswerKeeps DEF history, Minted, Answers, ServerType
    <3> QED BY <1>0, <1>d, <2>1, <3>1, Parts DEF ServerType, Minted
  <2>4. CASE Answer(s, "401", 0)
    <3>1. Typed' /\ SlotInv'
      BY <1>0, <2>1, <2>4, AnswerKeeps DEF history, Minted, Answers, ServerType
    <3> QED BY <1>0, <1>d, <2>1, <3>1, Parts DEF ServerType, Minted
  <2> QED BY <2>2, <2>3, <2>4
<1>7. CASE ServeRefresh(s)
  <2>1. slot[s].phase = "refreshing" /\ UNCHANGED <<gateValid, blame>> /\ ~Exchanged(slot[s])
    BY <1>7 DEF ServeRefresh, Exchanged
  <2>2. \/ \E a \in {"gate", "error", "refused"} :
             /\ Refreshed(s, a, 0) /\ UNCHANGED <<owner, spent>>
             /\ live' \subseteq live /\ fresh' \subseteq fresh
        \/ /\ slot[s].tok \in live
           /\ \E n \in Tok :
                /\ Mint(owner[slot[s].tok], n)
                /\ live' = (live \ {slot[s].tok}) \cup {n}
                /\ fresh' = fresh \cup {n}
                /\ spent' = spent \cup {slot[s].tok}
                /\ Refreshed(s, "ok", n)
    BY <1>7 DEF ServeRefresh
  <2>3. ASSUME NEW a \in {"gate", "error", "refused"},
               Refreshed(s, a, 0), UNCHANGED <<owner, spent>>,
               live' \subseteq live, fresh' \subseteq fresh
        PROVE  IInv'
    <3>1. Typed' /\ SlotInv'
      BY <1>0, <2>1, <2>3, RefreshedKeeps DEF Minted, Answers, ServerType
    <3> QED BY <1>0, <1>d, <2>1, <2>3, <3>1, Parts DEF ServerType, Minted
  <2>4. ASSUME NEW n \in Tok, slot[s].tok \in live, Mint(owner[slot[s].tok], n),
               live' = (live \ {slot[s].tok}) \cup {n}, fresh' = fresh \cup {n},
               spent' = spent \cup {slot[s].tok}, Refreshed(s, "ok", n)
        PROVE  IInv'
    <3>1. owner[slot[s].tok] \in Users
      BY <1>0, <2>4 DEF ServerType
    <3>2. /\ n \notin Minted /\ Minted' = Minted \cup {n}
          /\ Minted' = 1 .. Cardinality(Minted') /\ Minted' \subseteq Tok
          /\ \A i \in Minted' : owner'[i] \in Users
      BY <1>0, <2>4, <3>1, MintType
    <3>3. Typed' /\ SlotInv'
      BY <1>0, <2>1, <2>4, <3>2, RefreshedKeeps DEF Answers, Tok
    <3> QED BY <1>0, <1>d, <2>1, <2>4, <3>2, <3>3, Parts DEF ServerType
  <2> QED BY <2>2, <2>3, <2>4
<1> QED BY <1>1, <1>2, <1>3, <1>4, <1>5, <1>6, <1>7 DEF Serve

\* A lost answer is no answer, and the loss of a granted refresh is remembered.
LEMMA LoseKeeps ==
  ASSUME IInv, NEW s \in Slots, Lose(s) PROVE IInv'
<1>0. /\ UNCHANGED <<server, device, screen, left>> /\ TypeOK /\ ServerType /\ DeviceType
      /\ ServerType' /\ Minted' = Minted /\ 0 \notin Minted /\ Sound(slot[s])
      /\ blame \in {"none", "lost", "stale"}
  BY Parts DEF Lose, IInv, ServerType, Tok, SlotsSound, server, Minted, TypeOK
<1>1. CASE slot[s].phase \in {"out", "back"} /\ Answer(s, "lost", 0) /\ UNCHANGED blame
  <2>1. Typed' /\ SlotInv'
    BY <1>0, <1>1, AnswerKeeps DEF server, history, Answers, ServerType
  <2> QED BY <1>0, <1>1, <2>1, Parts DEF DeviceType, device, screen
<1>2. ASSUME slot[s].phase \in {"refreshing", "refreshed"}, NEW a \in {"lost", "error"},
             Refreshed(s, a, 0), blame' = LostIf(slot[s].pair # 0)
      PROVE  IInv'
  <2>1. /\ blame' = "none" => blame = "none" /\ ~Exchanged(slot[s])
        /\ blame' # "stale" => blame # "stale"
        /\ blame' \in {"none", "lost", "stale"}
    BY <1>0, <1>2 DEF LostIf, Exchanged, Sound
  <2>2. Typed' /\ SlotInv'
    BY <1>0, <1>2, <2>1, RefreshedKeeps DEF server, Answers, ServerType
  <2> QED BY <1>0, <2>1, <2>2, Parts DEF DeviceType, device, screen
<1> QED BY <1>1, <1>2 DEF Lose

------------------------------------------------------------------------------
(* The client.                                                             *)

\* A call begins, sends its next request or ends.
LEMMA CallKeeps ==
  ASSUME IInv, NEW s \in Slots, NEW r, Put(s, r), UNCHANGED server, DeviceType',
         slot[s].phase \in {"idle", "back", "woken"},
         r.phase \in {"idle", "out"}, r.pair = 0, Sound(r),
         blame' = "none" => blame = "none",
         store' \in {store, 0} \/ (store' = slot[s].pair /\ Brings(slot[s])),
         left' /\ blame' # "stale" =>
           /\ left /\ blame # "stale"
           /\ user' = None /\ cached' = None /\ store' = 0 /\ ticket' = None
           /\ Bare(r)
  PROVE  IInv'
<1>1. SlotsSound'
  BY PutSound DEF IInv
<1>2. OneRefresher'
  BY PutRefresher DEF IInv
<1>3. SignedOut'
  BY PutBare DEF IInv
<1>4. Unspent'
  <2>1. ~Exchanged(slot[s]) /\ r.phase # "refreshing" /\ ~Brings(r) /\ UNCHANGED spent
    BY DEF Exchanged, Brings, server
  <2> QED BY <2>1, PutUnspent DEF IInv
<1>5. Typed' /\ ServerType'
  BY Parts DEF Put, Typed, ServerType, server, Minted
<1> QED BY <1>1, <1>2, <1>3, <1>4, <1>5, Parts DEF SlotInv

\* A call the person or a timer begins carries what is stored.
LEMMA BeginKeeps ==
  ASSUME IInv, NEW s \in Slots, NEW k \in Kinds, NEW u \in Who, Begin(s, k, u),
         k \notin {"enter"}, k = "login" => u \in Users,
         user = None => k \in {"unlock", "login"}
  PROVE  IInv'
<1> DEFINE r == Sent(k, u, store, Passes, FALSE)
<1>0. /\ TypeOK /\ DeviceType /\ store \in 0 .. MaxTok /\ Passes \in BOOLEAN
      /\ slot' = [slot EXCEPT ![s] = r] /\ slot[s].phase = "idle"
      /\ UNCHANGED <<server, device, screen, history>>
  BY Parts, MaxTokAssumption DEF IInv, Begin, TypeOK, Passes, Tok
<1>1. /\ r \in Slot
      /\ r.kind = k /\ r.who = u /\ r.phase = "out" /\ r.ans = "none"
      /\ r.tok = store /\ r.pair = 0 /\ r.old = FALSE
  BY <1>0, MaxTokAssumption DEF Sent, Slot, Phases, Answers
<1> HIDE DEF r
<1>2. Put(s, r)
  BY <1>0, <1>1, PutType DEF server, Minted, TypeOK
<1>3. Sound(r)
  BY <1>1 DEF Sound
<1>4. DeviceType' /\ blame' = blame /\ store' = store
  BY <1>0 DEF DeviceType, device, screen, history, server, Minted
<1>5. left' /\ blame' # "stale" =>
           /\ left /\ blame # "stale"
           /\ user' = None /\ cached' = None /\ store' = 0 /\ ticket' = None
           /\ Bare(r)
  BY <1>0, <1>1 DEF IInv, SignedOut, Bare, device, screen, history
<1> QED BY <1>0, <1>1, <1>2, <1>3, <1>4, <1>5, CallKeeps

\* Everything the person and the timers begin.
LEMMA PersonKeeps ==
  ASSUME IInv, NEW s \in Slots, Person(s) PROVE IInv'
<1>1. ASSUME NEW u \in Users, LogIn(s, u) PROVE IInv'
  BY <1>1, BeginKeeps DEF LogIn, Kinds, Who
<1>2. CASE Unlock(s)
  BY <1>2, BeginKeeps DEF Unlock, Kinds, Who
<1>3. CASE Poll(s)
  BY <1>3, BeginKeeps DEF Poll, Kinds, Who
<1>4. CASE LogOut(s)
  BY <1>4, BeginKeeps DEF LogOut, Inside, Kinds, Who
<1>5. CASE DeleteAccount(s)
  BY <1>5, BeginKeeps DEF DeleteAccount, Inside, Kinds, Who
<1> QED BY <1>1, <1>2, <1>3, <1>4, <1>5 DEF Person

\* A request goes out again.
LEMMA RetryKeeps ==
  ASSUME IInv, NEW s \in Slots, Retry(s) PROVE IInv'
<1> DEFINE r == [slot[s] EXCEPT !.phase = "out", !.ans = "none", !.again = TRUE, !.tok = store]
<1>0. /\ TypeOK /\ DeviceType /\ slot[s] \in Slot /\ store \in 0 .. MaxTok /\ Sound(slot[s])
      /\ slot' = [slot EXCEPT ![s] = r] /\ slot[s].phase = "woken" /\ slot[s].ans = "ok"
      /\ UNCHANGED <<server, device, screen, history>>
  BY Parts, MaxTokAssumption DEF IInv, Retry, TypeOK, Tok, SlotsSound
<1>1. /\ r \in Slot
      /\ r.kind = slot[s].kind /\ r.who = slot[s].who /\ r.phase = "out" /\ r.ans = "none"
      /\ r.tok = store /\ r.pair = slot[s].pair /\ r.old = slot[s].old
  BY <1>0 DEF Slot, Phases, Answers
<1> HIDE DEF r
<1>2. r.pair = 0 /\ Sound(r)
  BY <1>0, <1>1 DEF Sound
<1>3. Put(s, r)
  BY <1>0, <1>1, <1>2, PutType DEF server, Minted, TypeOK
<1>4. DeviceType' /\ blame' = blame /\ store' = store
  BY <1>0 DEF DeviceType, device, screen, history, server, Minted
<1>5. left' /\ blame' # "stale" =>
           /\ left /\ blame # "stale"
           /\ user' = None /\ cached' = None /\ store' = 0 /\ ticket' = None
           /\ Bare(r)
  BY <1>0, <1>1 DEF IInv, SignedOut, Bare, device, screen, history
<1> QED BY <1>0, <1>1, <1>2, <1>3, <1>4, <1>5, CallKeeps

\* A call becomes the one that refreshes, queues behind it, or has nothing to
\* refresh.
LEMMA TryRefreshKeeps ==
  ASSUME IInv, NEW s \in Slots, TryRefresh(s) PROVE IInv'
<1>0. /\ TypeOK /\ ServerType /\ DeviceType /\ slot[s] \in Slot /\ Sound(slot[s])
      /\ slot[s].phase = "back" /\ slot[s].ans = "401" /\ slot[s].kind # "login"
      /\ slot[s].pair = 0
      /\ UNCHANGED <<server, device, screen, history>>
  BY Parts DEF IInv, TryRefresh, Retries, TypeOK, SlotsSound, Sound
<1>a. /\ DeviceType' /\ ServerType' /\ blame' = blame /\ store' = store
      /\ spent' = spent /\ Minted' = Minted
  BY <1>0 DEF DeviceType, ServerType, device, screen, history, server, Minted
<1>1. CASE Refresher # {} \/ store = 0
  <2>1. \E ph \in {"queued", "woken"}, a \in {"none", "refused"} :
          /\ slot' = [slot EXCEPT ![s] = [slot[s] EXCEPT !.phase = ph, !.ans = a]]
          /\ ph = "queued" => a = "none" /\ Refresher # {}
          /\ ph = "woken" => a = "refused"
    <3>1. CASE Refresher # {}
      BY <3>1 DEF TryRefresh
    <3>2. CASE Refresher = {} /\ store = 0
      BY <3>2 DEF TryRefresh
    <3> QED BY <1>1, <3>1, <3>2
  <2>2. PICK ph \in {"queued", "woken"}, a \in {"none", "refused"} :
          /\ slot' = [slot EXCEPT ![s] = [slot[s] EXCEPT !.phase = ph, !.ans = a]]
          /\ ph = "queued" => a = "none" /\ Refresher # {}
          /\ ph = "woken" => a = "refused"
    BY <2>1
  <2> DEFINE r == [slot[s] EXCEPT !.phase = ph, !.ans = a]
  <2>3. /\ r \in Slot /\ r.phase = ph /\ r.ans = a
        /\ r.kind = slot[s].kind /\ r.who = slot[s].who
        /\ r.tok = slot[s].tok /\ r.pair = 0 /\ r.old = slot[s].old
    BY <1>0 DEF Slot, Phases, Answers
  <2>4. slot' = [slot EXCEPT ![s] = r]
    BY <2>2
  <2> HIDE DEF r
  <2>5. Put(s, r)
    BY <1>0, <1>a, <2>3, <2>4, PutType DEF TypeOK
  <2>6. SlotsSound'
    <3>1. Sound(r)
      BY <1>0, <2>2, <2>3 DEF Sound
    <3> QED BY <2>5, <3>1, PutSound DEF IInv
  <2>7. OneRefresher'
    <3>1. Refresher' = Refresher
      BY <1>0, <2>3, <2>5 DEF Refresher, Put
    <3>2. ASSUME NEW t \in Slots, slot'[t].phase = "queued" PROVE Refresher # {}
      <4>1. CASE t = s
        BY <2>2, <2>3, <2>5, <3>2, <4>1 DEF Put
      <4>2. CASE t # s
        BY <2>5, <3>2, <4>2 DEF Put, IInv, OneRefresher
      <4> QED BY <4>1, <4>2
    <3> QED BY <3>1, <3>2 DEF IInv, OneRefresher
  <2>8. SignedOut'
    <3>1. left /\ blame # "stale" => Bare(r)
      BY <1>0, <2>2, <2>3 DEF IInv, SignedOut, Bare
    <3> QED BY <1>0, <1>a, <2>5, <3>1, PutBare DEF IInv, SignedOut, device, screen, history
  <2>9. Unspent'
    <3>1. ~Exchanged(slot[s]) /\ r.phase # "refreshing" /\ ~Brings(r)
      BY <1>0, <2>3 DEF Exchanged, Brings
    <3> QED BY <1>0, <1>a, <2>5, <3>1, PutUnspent DEF IInv
  <2> QED BY <1>a, <2>5, <2>6, <2>7, <2>8, <2>9, Parts DEF SlotInv, Typed, Put
<1>2. CASE Refresher = {} /\ store # 0
  <2> DEFINE r == [slot[s] EXCEPT !.phase = "refreshing", !.ans = "none", !.tok = store]
  <2>1. slot' = [slot EXCEPT ![s] = r]
    BY <1>2 DEF TryRefresh
  <2>2. store \in 0 .. MaxTok
    BY <1>0, MaxTokAssumption DEF TypeOK, Tok
  <2>3. /\ r \in Slot /\ r.phase = "refreshing" /\ r.ans = "none"
        /\ r.kind = slot[s].kind /\ r.who = slot[s].who
        /\ r.tok = store /\ r.pair = 0 /\ r.old = slot[s].old
    BY <1>0, <2>2 DEF Slot, Phases, Answers
  <2> HIDE DEF r
  <2>5. Put(s, r)
    BY <1>0, <1>a, <2>1, <2>3, PutType DEF TypeOK
  <2>6. SlotsSound'
    <3>1. Sound(r)
      BY <1>0, <2>3 DEF Sound
    <3> QED BY <2>5, <3>1, PutSound DEF IInv
  <2>7. OneRefresher'
    <3>1. Refresher' = {s}
      BY <1>2, <2>3, <2>5 DEF Refresher, Put
    <3> QED BY <3>1 DEF OneRefresher
  <2>8. SignedOut'
    BY <1>0, <1>2 DEF IInv, SignedOut, device, screen, history
  <2>9. Unspent'
    <3> SUFFICES ASSUME blame' = "none" PROVE Unspent'
      BY DEF Unspent
    <3>0. \A t \in Slots : slot[t].phase \notin {"refreshing", "refreshed"}
      BY <1>2 DEF Refresher
    <3>1. Unspent /\ blame = "none" /\ store \notin spent
      BY <1>a, <3>0 DEF IInv, Unspent, Exchanged
    <3>2. ~Brings(r)
      BY <2>3 DEF Brings
    <3>3. \A t \in Slots : slot'[t].phase = "refreshing" => t = s /\ slot'[t].tok = store
      BY <2>3, <2>5, <3>0 DEF Put
    <3>4. \A t \in Slots : Brings(slot'[t]) => Brings(slot[t]) /\ slot'[t] = slot[t]
      BY <2>5, <3>2 DEF Put
    <3> QED BY <1>a, <3>1, <3>3, <3>4 DEF Unspent
  <2> QED BY <1>a, <2>5, <2>6, <2>7, <2>8, <2>9, Parts DEF SlotInv, Typed, Put
<1> QED BY <1>1, <1>2

\* The outcome of the refresh is stored and given to everyone who waits.
LEMMA RefreshOverKeeps ==
  ASSUME IInv, NEW s \in Slots, RefreshOver(s) PROVE IInv'
<1> DEFINE a == slot[s].ans
<1>0. /\ TypeOK /\ ServerType /\ DeviceType /\ Sound(slot[s])
      /\ slot[s].phase = "refreshed" /\ UNCHANGED <<server, ticket, cached, user, loading, left>>
      /\ store' = (IF a = "ok" THEN slot[s].pair ELSE store)
      /\ blame' = StaleIf(a = "ok" /\ slot[s].old)
      /\ slot' = [t \in Slots |->
           IF t = s \/ slot[t].phase = "queued"
             THEN [slot[t] EXCEPT !.phase = "woken", !.ans = a, !.pair = 0] ELSE slot[t]]
  BY Parts DEF IInv, RefreshOver, SlotsSound
<1>1. /\ ServerType' /\ Minted' = Minted /\ spent' = spent /\ left' = left
      /\ user' = user /\ cached' = cached /\ ticket' = ticket
      /\ left \in BOOLEAN
      /\ \A t \in Slots : {slot[t].tok, slot[t].pair} \subseteq Minted \cup {0}
  BY <1>0 DEF ServerType, server, Minted, TypeOK
<1>b. /\ \A t \in Slots : slot[t] \in Slot /\ Sound(slot[t])
      /\ a \in Answers /\ 0 \in 0 .. MaxTok
  <2>1. \A t \in Slots : slot[t] \in Slot /\ Sound(slot[t])
    BY DEF TypeOK, IInv, SlotsSound
  <2> QED BY <2>1, MaxTokAssumption DEF Slot
<1>2. DeviceType'
  <2>1. store' \in Minted' \cup {0} /\ blame' \in {"none", "lost", "stale"}
    BY <1>0, <1>1 DEF DeviceType, StaleIf
  <2>2. gateTok' \in BOOLEAN /\ gateOk' \in {"unknown", "open", "shut"}
    BY <1>0 DEF RefreshOver, DeviceType
  <2> QED BY <1>0, <1>1, <2>1, <2>2 DEF DeviceType
<1>3. a \in {"ok", "refused", "error", "gate", "lost"}
  BY <1>0 DEF Sound
<1>4. \A t \in Slots :
        slot'[t] = IF t = s \/ slot[t].phase = "queued"
                     THEN [slot[t] EXCEPT !.phase = "woken", !.ans = a, !.pair = 0] ELSE slot[t]
  BY <1>0
<1> HIDE DEF a
<1>5. ASSUME NEW t \in Slots, t = s \/ slot[t].phase = "queued"
      PROVE  /\ slot'[t] \in Slot /\ slot'[t].phase = "woken" /\ slot'[t].ans = a
             /\ slot'[t].pair = 0 /\ slot'[t].tok = slot[t].tok
             /\ slot'[t].kind = slot[t].kind /\ slot'[t].who = slot[t].who
             /\ slot'[t].old = slot[t].old
  <2>1. slot'[t] = [slot[t] EXCEPT !.phase = "woken", !.ans = a, !.pair = 0]
    BY <1>4, <1>5
  <2> QED BY <1>b, <2>1 DEF Slot, Phases
<1>6. \A t \in Slots : ~(t = s \/ slot[t].phase = "queued") => slot'[t] = slot[t]
  BY <1>4
<1>7. \A t \in Slots \ {s} : slot[t].phase \notin {"refreshing", "refreshed"}
  BY <1>0 DEF IInv, OneRefresher, Refresher
<1>8. \A t \in Slots : slot'[t].phase \notin {"refreshing", "refreshed", "queued"}
  BY <1>5, <1>6, <1>7
<1>9. Typed'
  <2>1. slot' \in [Slots -> Slot]
    <3>1. \A t \in Slots : slot'[t] \in Slot
      BY <1>b, <1>5, <1>6
    <3> QED BY <1>0, <3>1
  <2>2. ASSUME NEW t \in Slots PROVE {slot'[t].tok, slot'[t].pair} \subseteq Minted' \cup {0}
    <3>1. CASE t = s \/ slot[t].phase = "queued"
      BY <1>1, <1>5, <3>1
    <3>2. CASE ~(t = s \/ slot[t].phase = "queued")
      BY <1>1, <1>6, <3>2
    <3> QED BY <3>1, <3>2
  <2> QED BY <2>1, <2>2 DEF Typed
<1>10. SlotsSound'
  <2>1. ASSUME NEW t \in Slots PROVE Sound(slot'[t])
    <3>1. CASE t = s \/ slot[t].phase = "queued"
      <4>1. /\ Sound(slot[t]) /\ slot[t].phase \in {"refreshed", "queued"}
            /\ slot'[t].phase = "woken" /\ slot'[t].ans = a /\ slot'[t].pair = 0
            /\ slot'[t].kind = slot[t].kind /\ slot'[t].who = slot[t].who
        BY <1>0, <1>b, <1>5, <3>1
      <4> QED BY <1>3, <4>1 DEF Sound
    <3>2. CASE ~(t = s \/ slot[t].phase = "queued")
      BY <1>b, <1>6, <3>2
    <3> QED BY <3>1, <3>2
  <2> QED BY <2>1 DEF SlotsSound, Sound
<1>11. OneRefresher'
  <2>1. Refresher' = {}
    BY <1>8 DEF Refresher
  <2> QED BY <1>8, <2>1 DEF OneRefresher
<1>12. SignedOut'
  <2> SUFFICES ASSUME left', blame' # "stale" PROVE SignedOut'
    BY DEF SignedOut
  <2>1. left = TRUE /\ blame # "stale" /\ ~(a = "ok" /\ slot[s].old)
    BY <1>0, <1>1 DEF StaleIf
  <2>2. /\ user = None /\ cached = None /\ store = 0 /\ ticket = None
        /\ \A t \in Slots : Bare(slot[t])
    BY <2>1 DEF IInv, SignedOut
  <2>3. a # "ok" /\ slot[s].old
    BY <1>0, <2>1, <2>2 DEF Bare
  <2>4. ASSUME NEW t \in Slots PROVE Bare(slot'[t])
    <3>1. CASE t = s
      BY <1>5, <2>3, <3>1 DEF Bare
    <3>2. CASE t # s /\ slot[t].phase = "queued"
      BY <1>5, <2>2, <2>3, <3>2 DEF Bare
    <3>3. CASE t # s /\ slot[t].phase # "queued"
      BY <1>6, <2>2, <3>3
    <3> QED BY <3>1, <3>2, <3>3
  <2> QED BY <1>0, <1>1, <2>2, <2>3, <2>4 DEF SignedOut, Bare
<1>13. Unspent'
  <2> SUFFICES ASSUME blame' = "none" PROVE Unspent'
    BY DEF Unspent
  <2>1. blame = "none"
    BY <1>0 DEF StaleIf
  <2>2. \A t \in Slots : Brings(slot'[t]) => Brings(slot[t]) /\ slot'[t] = slot[t] /\ t # s
    BY <1>5, <1>6 DEF Brings
  <2>3. store' \notin spent'
    <3>1. CASE a = "ok"
      <4>1. Brings(slot[s]) /\ store' = slot[s].pair
        BY <1>0, <3>1 DEF Brings, Sound, a
      <4> QED BY <1>1, <2>1, <4>1 DEF IInv, Unspent
    <3>2. CASE a # "ok"
      <4>1. \A t \in Slots : ~Exchanged(slot[t])
        BY <1>7, <3>2 DEF Exchanged, a
      <4> QED BY <1>0, <1>1, <2>1, <3>2, <4>1 DEF IInv, Unspent, a
    <3> QED BY <3>1, <3>2
  <2>4. ASSUME NEW t \in Slots, Brings(slot'[t])
        PROVE  /\ slot'[t].pair \notin spent' /\ slot'[t].pair # store'
               /\ \A u \in Slots \ {t} : Brings(slot'[u]) => slot'[u].pair # slot'[t].pair
    <3>1. Brings(slot[t]) /\ slot'[t] = slot[t] /\ t # s
      BY <2>2, <2>4
    <3>2. /\ slot[t].pair \notin spent /\ slot[t].pair # store
          /\ \A u \in Slots \ {t} : Brings(slot[u]) => slot[u].pair # slot[t].pair
      BY <2>1, <3>1 DEF IInv, Unspent
    <3>3. slot[t].pair # store'
      <4>1. a = "ok" => Brings(slot[s])
        BY <1>0 DEF Brings, Sound, a
      <4> QED BY <1>0, <3>1, <3>2, <4>1 DEF a
    <3> QED BY <1>1, <2>2, <3>1, <3>2, <3>3
  <2> QED BY <1>8, <2>3, <2>4 DEF Unspent
<1> QED BY <1>1, <1>2, <1>9, <1>10, <1>11, <1>12, <1>13, Parts DEF SlotInv

------------------------------------------------------------------------------
(* The end of a call.                                                      *)

\* What every end has in common: the call goes on or is over, the server is not
\* touched, and the history takes the blame of a stale answer.
Goes(s, r) ==
  /\ Put(s, r)
  /\ r.phase \in {"idle", "out"} /\ r.pair = 0 /\ Sound(r)
  /\ r.phase = "idle" \/ r.old = slot[s].old

\* A call that is over.
LEMMA DoneGoes ==
  ASSUME IInv, NEW s \in Slots, Done(s), UNCHANGED owner
  PROVE  Goes(s, Idle) /\ Bare(Idle)
  BY DoneType, SlotTypes DEF Goes, IInv

\* A call that goes on.
LEMMA ThenGoes ==
  ASSUME IInv, NEW s \in Slots, NEW k \in Kinds \ {"login"}, NEW u \in Who,
         k = "enter" => u \in Users,
         NEW n \in Minted \cup {0}, NEW p \in BOOLEAN, Then(s, k, u, n, p), UNCHANGED owner
  PROVE  \E r : Goes(s, r) /\ r.kind = k /\ r.tok = n /\ r.ans = "none" /\ r.phase = "out"
                /\ r.old = slot[s].old
<1>1. TypeOK
  BY DEF IInv
<1>2. PICK r \in Slot :
           /\ Put(s, r)
           /\ r.kind = k /\ r.who = u /\ r.phase = "out" /\ r.ans = "none"
           /\ r.tok = n /\ r.pair = 0 /\ r.old = slot[s].old
  BY <1>1, ThenType
<1>3. Sound(r)
  BY <1>2 DEF Sound
<1> QED BY <1>2, <1>3 DEF Goes

\* Nothing of a session comes from a call that began after the log-out.
LEMMA StaleOnly ==
  ASSUME IInv, NEW s \in Slots, Ended(s), left, blame # "stale", ~slot[s].old
  PROVE  /\ slot[s].kind \in {"start", "unlock", "session", "login"}
         /\ slot[s].kind = "session" => ~Got(s)
<1>1. Bare(slot[s]) /\ Sound(slot[s]) /\ slot[s].phase \in {"back", "woken"}
  BY DEF IInv, SignedOut, SlotsSound, Ended
<1> QED BY <1>1 DEF Bare, Got

\* A call that ends keeps the invariant, if what it does to the device and the
\* screen is typed, and blamed when it is stale.
LEMMA GoesKeeps ==
  ASSUME IInv, NEW s \in Slots, Ended(s), NEW r, Goes(s, r),
         UNCHANGED <<server, left>>, DeviceType', store' = store,
         blame' = StaleIf(TRUE) \/ blame' = blame,
         left /\ blame' # "stale" =>
           /\ user' = None /\ cached' = None /\ ticket' = None
           /\ slot[s].old \/ Bare(r)
  PROVE  IInv'
<1>1. slot[s].phase \in {"idle", "back", "woken"}
  BY DEF Ended
<1>2. Put(s, r) /\ r.phase \in {"idle", "out"} /\ r.pair = 0 /\ Sound(r) /\ UNCHANGED server
  BY DEF Goes
<1>3. blame' = "none" => blame = "none"
  BY DEF StaleIf
<1>4. left' /\ blame' # "stale" =>
           /\ left /\ blame # "stale"
           /\ user' = None /\ cached' = None /\ store' = 0 /\ ticket' = None
           /\ Bare(r)
  <2>1. blame' # "stale" => blame # "stale"
    BY DEF StaleIf
  <2>2. left /\ blame # "stale" => store = 0
    BY DEF IInv, SignedOut
  <2>3. slot[s].old => Bare(r)
    BY DEF Goes, Bare
  <2> QED BY <2>1, <2>2, <2>3
<1> QED BY <1>1, <1>2, <1>3, <1>4, CallKeeps

\* What the ends of calls need of the types.
LEMMA EndTypes ==
  ASSUME IInv, NEW s \in Slots
  PROVE  /\ TypeOK /\ DeviceType /\ store \in Minted \cup {0} /\ 0 \in Minted \cup {0}
         /\ None \in Who /\ slot[s].who \in Who /\ Passes \in BOOLEAN /\ gateValid \in BOOLEAN
         /\ slot[s].pair # 0 => owner[slot[s].pair] \in Users
         /\ Got(s) /\ slot[s].kind \notin {"start", "unlock", "logout"}
              => slot[s].pair # 0 /\ slot[s].pair \in Minted /\ owner[slot[s].pair] \in Users
         /\ Users \subseteq Who
         /\ left /\ blame # "stale"
              => user = None /\ cached = None /\ store = 0 /\ ticket = None
<1>1. TypeOK /\ DeviceType /\ Sound(slot[s]) /\ slot[s] \in Slot
  BY Parts DEF IInv, SlotsSound, TypeOK
<1>2. store \in Minted \cup {0} /\ Passes \in BOOLEAN /\ gateValid \in BOOLEAN
  BY <1>1 DEF TypeOK, Passes
<1>3. slot[s].who \in Who
  BY <1>1 DEF Slot
<1>4. slot[s].pair # 0 => slot[s].pair \in Minted /\ owner[slot[s].pair] \in Users
  BY <1>1 DEF TypeOK
<1>5. Got(s) /\ slot[s].kind \notin {"start", "unlock", "logout"} => slot[s].pair # 0
  BY <1>1 DEF Got, Sound
<1> QED BY <1>1, <1>2, <1>3, <1>4, <1>5 DEF Who, IInv, SignedOut

\* The first request of a start.
LEMMA StartKeeps ==
  ASSUME IInv, NEW s \in Slots, Start(s) PROVE IInv'
<1>0. /\ Ended(s) /\ slot[s].kind = "start" /\ UNCHANGED <<server, device, user, history>>
      /\ UNCHANGED owner
  BY DEF Start, server
<1>1. DeviceType'
  <2>1. gateOk' \in {"unknown", "open", "shut"} /\ loading' \in BOOLEAN
    BY EndTypes DEF Start, DeviceType
  <2> QED BY <1>0, <2>1, EndTypes DEF DeviceType, device, history, Minted
<1>2. \E r : Goes(s, r) /\ (left /\ blame # "stale" => slot[s].old \/ Bare(r))
  <2>1. CASE Done(s)
    BY <1>0, <2>1, DoneGoes
  <2>2. CASE Then(s, "session", None, store, Passes)
    <3>1. \E r : Goes(s, r) /\ r.kind = "session" /\ r.tok = store /\ r.ans = "none"
                 /\ r.phase = "out"
      BY <1>0, <2>2, EndTypes, ThenGoes DEF Kinds
    <3> QED BY <3>1, EndTypes DEF Bare
  <2> QED BY <2>1, <2>2 DEF Start
<1> QED BY <1>0, <1>1, <1>2, EndTypes, GoesKeeps DEF device, history

\* The answer of the gate.
LEMMA UnlockedKeeps ==
  ASSUME IInv, NEW s \in Slots, Unlocked(s) PROVE IInv'
<1>0. /\ Ended(s) /\ slot[s].kind = "unlock"
      /\ UNCHANGED <<server, store, ticket, cached, user, loading, history>> /\ UNCHANGED owner
  BY DEF Unlocked, server
<1>1. DeviceType'
  <2>1. gateOk' \in {"unknown", "open", "shut"} /\ gateTok' \in BOOLEAN
    BY EndTypes DEF Unlocked, DeviceType
  <2> QED BY <1>0, <2>1, EndTypes DEF DeviceType, history, Minted
<1>2. \E r : Goes(s, r) /\ (left /\ blame # "stale" => slot[s].old \/ Bare(r))
  <2>1. CASE Done(s)
    BY <1>0, <2>1, DoneGoes
  <2>2. CASE Then(s, "session", None, store, gateValid)
    <3>1. \E r : Goes(s, r) /\ r.kind = "session" /\ r.tok = store /\ r.ans = "none"
                 /\ r.phase = "out"
      BY <1>0, <2>2, EndTypes, ThenGoes DEF Kinds
    <3> QED BY <3>1, EndTypes DEF Bare
  <2> QED BY <2>1, <2>2 DEF Unlocked
<1> QED BY <1>0, <1>1, <1>2, EndTypes, GoesKeeps DEF history

\* What a request brings back to the door.
LEMMA DoorType ==
  ASSUME IInv, NEW s \in Slots, Door(s)
  PROVE  gateTok' \in BOOLEAN /\ gateOk' \in {"unknown", "open", "shut"}
  BY EndTypes DEF Door, DeviceType

\* The session found out, its ticket fetched: the person is in, or was not.
LEMMA EnterKeeps ==
  ASSUME IInv, NEW s \in Slots, NEW u \in Who, Ended(s), Enter(s, u), Door(s),
         UNCHANGED <<server, store, left>>, ticket' \in Who,
         slot[s].old \/ ~(left /\ blame # "stale")
  PROVE  IInv'
<1>1. Goes(s, Idle) /\ Bare(Idle) /\ blame' = StaleIf(slot[s].old)
  BY DoneGoes DEF Enter, server
<1>2. DeviceType'
  <2>1. user' \in Who /\ cached' \in Who /\ loading' \in BOOLEAN
    BY EndTypes DEF Enter
  <2>2. blame' \in {"none", "lost", "stale"}
    BY <1>1, EndTypes DEF StaleIf, DeviceType
  <2> QED BY <2>1, <2>2, EndTypes, DoorType DEF DeviceType, server, Minted
<1>3. /\ blame' = StaleIf(TRUE) \/ blame' = blame
      /\ left /\ blame' # "stale" => FALSE
  BY <1>1 DEF StaleIf
<1> QED BY <1>1, <1>2, <1>3, GoesKeeps

\* getMe of the start.
LEMMA SessionKeeps ==
  ASSUME IInv, NEW s \in Slots, Session(s) PROVE IInv'
<1>0. /\ Ended(s) /\ slot[s].kind = "session" /\ Door(s)
      /\ UNCHANGED <<server, store, ticket, left>> /\ UNCHANGED owner
  BY DEF Session, server
<1>1. CASE Got(s)
  <2>1. owner[slot[s].pair] \in Users /\ (slot[s].old \/ ~(left /\ blame # "stale"))
    BY <1>0, <1>1, EndTypes, StaleOnly
  <2>2. CASE Enter(s, owner[slot[s].pair])
    <3>1. ticket' \in Who
      BY <1>0, EndTypes DEF DeviceType
    <3> QED BY <1>0, <2>1, <2>2, <3>1, EndTypes, EnterKeeps
  <2>3. CASE /\ Then(s, "ticket1", owner[slot[s].pair], store, Passes)
             /\ UNCHANGED <<user, cached, loading, blame>>
    <3>1. \E r : Goes(s, r)
      <4>1. "ticket1" \in Kinds \ {"login"} /\ "ticket1" # "enter"
        BY DEF Kinds
      <4>2. /\ owner[slot[s].pair] \in Who /\ store \in Minted \cup {0}
            /\ Passes \in BOOLEAN
        BY <2>1, EndTypes
      <4> QED BY <1>0, <2>3, <4>1, <4>2, ThenGoes
    <3>2. DeviceType'
      <4>1. /\ UNCHANGED <<store, ticket, cached, user, loading, left, blame>>
            /\ Minted' = Minted
        BY <1>0, <2>3 DEF server, Minted
      <4>2. /\ store \in Minted \cup {0} /\ ticket \in Who /\ cached \in Who
            /\ user \in Who /\ loading \in BOOLEAN /\ left \in BOOLEAN
            /\ blame \in {"none", "lost", "stale"}
        BY EndTypes, <1>0 DEF DeviceType
      <4>3. gateTok' \in BOOLEAN /\ gateOk' \in {"unknown", "open", "shut"}
        BY <1>0, EndTypes, DoorType
      <4> QED BY <4>1, <4>2, <4>3 DEF DeviceType
    <3> QED BY <1>0, <2>1, <2>3, <3>1, <3>2, EndTypes, GoesKeeps
  <2> QED BY <1>1, <2>2, <2>3 DEF Session
<1>2. CASE ~Got(s)
  <2>1. /\ Done(s) /\ loading' = FALSE /\ blame' = StaleIf(slot[s].old /\ user' # user)
        /\ user' \in {user, cached, None} /\ cached' \in {cached, None}
    BY <1>2 DEF Session, UserThen
  <2>2. Goes(s, Idle) /\ Bare(Idle)
    BY <1>0, <2>1, DoneGoes
  <2>3. DeviceType'
    <3>1. user' \in Who /\ cached' \in Who /\ blame' \in {"none", "lost", "stale"}
      BY <2>1, EndTypes DEF StaleIf, DeviceType
    <3> QED BY <1>0, <2>1, <3>1, EndTypes, DoorType DEF DeviceType, Minted
  <2>4. /\ blame' = StaleIf(TRUE) \/ blame' = blame
        /\ blame' # "stale" => blame # "stale"
    BY <2>1 DEF StaleIf
  <2> QED BY <1>0, <2>1, <2>2, <2>3, <2>4, EndTypes, GoesKeeps
<1> QED BY <1>1, <1>2

\* The ticket of the start.
LEMMA SessionTicketKeeps ==
  ASSUME IInv, NEW s \in Slots, SessionTicket(s) PROVE IInv'
<1>0. /\ Ended(s) /\ slot[s].kind = "ticket1" /\ Door(s) /\ Enter(s, slot[s].who)
      /\ UNCHANGED <<server, store, left>>
      /\ ticket' = IF Got(s) THEN owner[slot[s].pair] ELSE ticket
  BY DEF SessionTicket
<1>1. slot[s].old \/ ~(left /\ blame # "stale")
  BY <1>0, StaleOnly
<1>2. ticket' \in Who
  BY <1>0, EndTypes DEF DeviceType
<1> QED BY <1>0, <1>1, <1>2, EndTypes, EnterKeeps

\* The answer of the log-in, whose pair is stored.
LEMMA LoggedInKeeps ==
  ASSUME IInv, NEW s \in Slots, LoggedIn(s) PROVE IInv'
<1>0. /\ Ended(s) /\ slot[s].kind = "login" /\ Door(s)
      /\ UNCHANGED <<server, ticket, cached, user, loading, blame>> /\ UNCHANGED owner
  BY DEF LoggedIn, server
<1>1. CASE Got(s)
  <2>1. /\ store' = slot[s].pair /\ left' = FALSE
        /\ Then(s, "profile", slot[s].who, slot[s].pair, Passes)
    BY <1>1 DEF LoggedIn
  <2>2. PICK r : Goes(s, r)
    BY <1>0, <1>1, <2>1, EndTypes, ThenGoes DEF Kinds
  <2>3. DeviceType'
    BY <1>0, <1>1, <2>1, EndTypes, DoorType DEF DeviceType, server, Minted
  <2>4. Brings(slot[s]) /\ slot[s].phase \in {"idle", "back", "woken"}
    BY <1>0, <1>1, EndTypes DEF Brings, Got
  <2> QED BY <1>0, <2>1, <2>2, <2>3, <2>4, CallKeeps DEF Goes
<1>2. CASE ~Got(s)
  <2>1. Goes(s, Idle) /\ Bare(Idle) /\ UNCHANGED <<store, left>>
    BY <1>0, <1>2, DoneGoes DEF LoggedIn
  <2>2. DeviceType'
    BY <1>0, <2>1, EndTypes, DoorType DEF DeviceType, server, Minted
  <2> QED BY <1>0, <2>1, <2>2, EndTypes, GoesKeeps
<1> QED BY <1>1, <1>2

\* What an end that may find the session expired does to the screen.
LEMMA ExpiryType ==
  ASSUME IInv, NEW s \in Slots, UNCHANGED <<server, loading, left>>, Door(s),
         store' \in Minted \cup {0}, ticket' \in Who,
         user' = UserThen(s) \/ user' = slot[s].who, cached' = CachedThen(s),
         blame' \in {"none", "lost", "stale"}
  PROVE  /\ DeviceType'
         /\ left /\ blame # "stale" => cached' = None /\ (user' = UserThen(s) => user' = None)
<1>1. user' \in Who /\ cached' \in Who
  BY EndTypes DEF UserThen, CachedThen, DeviceType
<1> QED BY <1>1, EndTypes, DoorType DEF DeviceType, server, Minted, UserThen, CachedThen

\* getMe after the log-in.
LEMMA ProfileLoadedKeeps ==
  ASSUME IInv, NEW s \in Slots, ProfileLoaded(s) PROVE IInv'
<1>0. /\ Ended(s) /\ slot[s].kind = "profile" /\ Door(s)
      /\ user' = UserThen(s) /\ cached' = CachedThen(s)
      /\ UNCHANGED <<server, store, ticket, loading, history>> /\ UNCHANGED owner
      /\ left' = left /\ blame' = blame
  BY DEF ProfileLoaded, server, history
<1>1. \E r : Goes(s, r)
  <2>1. CASE Got(s)
    BY <1>0, <2>1, EndTypes, ThenGoes DEF ProfileLoaded, Kinds
  <2>2. CASE ~Got(s)
    BY <1>0, <2>2, DoneGoes DEF ProfileLoaded
  <2> QED BY <2>1, <2>2
<1>2. DeviceType'
  BY <1>0, EndTypes, ExpiryType DEF DeviceType
<1>3. left /\ blame' # "stale" =>
        /\ user' = None /\ cached' = None /\ ticket' = None /\ slot[s].old
  BY <1>0, EndTypes, ExpiryType, StaleOnly DEF DeviceType
<1> QED BY <1>0, <1>1, <1>2, <1>3, GoesKeeps

\* The ticket after the log-in, and the screen.
LEMMA EnterLoginKeeps ==
  ASSUME IInv, NEW s \in Slots, EnterLogin(s) PROVE IInv'
<1>0. /\ Ended(s) /\ slot[s].kind = "enter" /\ Door(s)
      /\ user' = slot[s].who /\ cached' = CachedThen(s)
      /\ blame' = StaleIf(slot[s].old)
      /\ ticket' = (IF Got(s) THEN owner[slot[s].pair] ELSE ticket)
      /\ Done(s) /\ UNCHANGED <<server, store, loading, left>> /\ UNCHANGED owner
  BY DEF EnterLogin, server
<1>1. Goes(s, Idle) /\ Bare(Idle)
  BY <1>0, DoneGoes
<1>2. blame' \in {"none", "lost", "stale"} /\ ticket' \in Who
  BY <1>0, EndTypes DEF StaleIf, DeviceType
<1>3. DeviceType'
  BY <1>0, <1>2, EndTypes, ExpiryType
<1>4. /\ blame' = StaleIf(TRUE) \/ blame' = blame
      /\ ~(left /\ blame' # "stale")
  BY <1>0, StaleOnly DEF StaleIf
<1> QED BY <1>0, <1>1, <1>3, <1>4, GoesKeeps

\* The answer of a poll.
LEMMA PolledKeeps ==
  ASSUME IInv, NEW s \in Slots, Polled(s) PROVE IInv'
<1>0. /\ Ended(s) /\ slot[s].kind = "poll" /\ Door(s) /\ Done(s)
      /\ user' = UserThen(s) /\ cached' = CachedThen(s)
      /\ blame' = StaleIf(slot[s].old /\ Got(s))
      /\ ticket' \in {ticket} \cup {owner[n] : n \in {slot[s].pair} \ {0}}
      /\ UNCHANGED <<server, store, loading, left>> /\ UNCHANGED owner
  BY DEF Polled, server
<1>1. Goes(s, Idle) /\ Bare(Idle)
  BY <1>0, DoneGoes
<1>2. blame' \in {"none", "lost", "stale"} /\ ticket' \in Who
  BY <1>0, EndTypes DEF StaleIf, DeviceType
<1>3. DeviceType' /\ (left /\ blame # "stale" => user' = None /\ cached' = None)
  BY <1>0, <1>2, EndTypes, ExpiryType
<1>4. ticket' # ticket => Got(s)
  <2>1. Sound(slot[s]) /\ slot[s].phase \in {"back", "woken"}
    BY <1>0 DEF IInv, SlotsSound, Ended
  <2> QED BY <1>0, <2>1 DEF Sound, Got
<1>5. /\ blame' = StaleIf(TRUE) \/ blame' = blame
      /\ left /\ blame' # "stale" => blame # "stale" /\ slot[s].old /\ ~Got(s)
  BY <1>0, StaleOnly DEF StaleIf
<1> QED BY <1>0, <1>1, <1>3, <1>4, <1>5, EndTypes, GoesKeeps

\* The answer of the deletion, which goes on with the log-out.
LEMMA DeletedKeeps ==
  ASSUME IInv, NEW s \in Slots, Deleted(s) PROVE IInv'
<1>0. /\ Ended(s) /\ slot[s].kind = "delete" /\ Door(s)
      /\ user' = UserThen(s) /\ cached' = CachedThen(s)
      /\ UNCHANGED <<server, loading, history>> /\ UNCHANGED owner
      /\ left' = left /\ blame' = blame
      /\ store' \in {store, 0} /\ ticket' \in {ticket, None}
      /\ Then(s, "logout", None, 0, Passes) \/ Done(s)
  BY DEF Deleted, server, history, ForgetTokens
<1>1. PICK r : Goes(s, r)
  <2>1. CASE Then(s, "logout", None, 0, Passes)
    BY <1>0, <2>1, EndTypes, ThenGoes DEF Kinds
  <2>2. CASE Done(s)
    BY <1>0, <2>2, DoneGoes
  <2> QED BY <1>0, <2>1, <2>2
<1>2. /\ DeviceType'
      /\ left /\ blame # "stale" => user' = None /\ cached' = None /\ ticket' = None
  <2>1. store' \in Minted \cup {0} /\ ticket' \in Who /\ blame' \in {"none", "lost", "stale"}
    BY <1>0, EndTypes DEF DeviceType
  <2> QED BY <1>0, <2>1, EndTypes, ExpiryType
<1>3. left /\ blame # "stale" => slot[s].old /\ store = 0
  BY <1>0, StaleOnly, EndTypes
<1>4. slot[s].phase \in {"idle", "back", "woken"}
  BY <1>0 DEF Ended
<1>5. left' /\ blame' # "stale" =>
           /\ left /\ blame # "stale"
           /\ user' = None /\ cached' = None /\ store' = 0 /\ ticket' = None
           /\ Bare(r)
  BY <1>0, <1>1, <1>2, <1>3 DEF Goes, Bare
<1> QED BY <1>0, <1>1, <1>2, <1>4, <1>5, CallKeeps DEF Goes

\* The log-out: every other call becomes one from before it.
LEMMA LoggedOutKeeps ==
  ASSUME IInv, NEW s \in Slots, LoggedOut(s) PROVE IInv'
<1>0. /\ TypeOK /\ ServerType /\ Door(s) /\ Ended(s)
      /\ store' = 0 /\ ticket' = None /\ cached' = None /\ user' = None /\ left' = TRUE
      /\ blame' = blame /\ loading' = loading /\ UNCHANGED server
      /\ slot' = [t \in Slots |-> IF t = s THEN Idle
                    ELSE [slot[t] EXCEPT !.old = slot[t].phase # "idle"]]
  BY Parts DEF LoggedOut, ForgetTokens, IInv
<1>1. ServerType' /\ Minted' = Minted /\ spent' = spent /\ 0 \notin spent
  BY <1>0 DEF ServerType, server, Minted, Tok
<1>2. DeviceType'
  BY <1>0, EndTypes, DoorType DEF DeviceType
<1>3. slot'[s] = Idle
  BY <1>0
<1>4. ASSUME NEW t \in Slots, t # s
      PROVE  /\ slot'[t] \in Slot /\ (slot[t].phase # "idle" => slot'[t].old = TRUE)
             /\ slot'[t].kind = slot[t].kind /\ slot'[t].phase = slot[t].phase
             /\ slot'[t].who = slot[t].who /\ slot'[t].tok = slot[t].tok
             /\ slot'[t].ans = slot[t].ans /\ slot'[t].pair = slot[t].pair
  <2>1. slot[t] \in Slot /\ (slot[t].phase # "idle") \in BOOLEAN
    BY <1>0 DEF TypeOK
  <2>2. slot'[t] = [slot[t] EXCEPT !.old = slot[t].phase # "idle"]
    BY <1>0, <1>4
  <2>3. slot'[t] \in Slot /\ (slot[t].phase # "idle" => slot'[t].old = TRUE)
    BY <2>1, <2>2 DEF Slot
  <2>4. /\ slot'[t].kind = slot[t].kind /\ slot'[t].phase = slot[t].phase
        /\ slot'[t].who = slot[t].who /\ slot'[t].tok = slot[t].tok
        /\ slot'[t].ans = slot[t].ans /\ slot'[t].pair = slot[t].pair
    BY <2>1, <2>2 DEF Slot
  <2> QED BY <2>3, <2>4
<1>5. Typed'
  <2>1. \A t \in Slots : slot'[t] \in Slot /\ {slot'[t].tok, slot'[t].pair} \subseteq Minted' \cup {0}
    <3>1. ASSUME NEW t \in Slots, t # s
          PROVE  slot'[t] \in Slot /\ {slot'[t].tok, slot'[t].pair} \subseteq Minted' \cup {0}
      <4>1. slot[t].tok \in Minted \cup {0} /\ slot[t].pair \in Minted \cup {0}
        BY <1>0 DEF TypeOK
      <4>2. slot'[t] \in Slot /\ slot'[t].tok = slot[t].tok /\ slot'[t].pair = slot[t].pair
        BY <1>4, <3>1
      <4> QED BY <1>1, <4>1, <4>2
    <3>2. slot'[s] \in Slot /\ {slot'[s].tok, slot'[s].pair} \subseteq Minted' \cup {0}
      BY <1>3, SlotTypes
    <3> QED BY <3>1, <3>2
  <2> QED BY <1>0, <2>1 DEF Typed
<1>6. SlotsSound'
  <2>1. ASSUME NEW t \in Slots PROVE Sound(slot'[t])
    <3>1. CASE t = s
      BY <1>3, <3>1, SlotTypes
    <3>2. CASE t # s
      <4>1. Sound(slot[t])
        BY DEF IInv, SlotsSound
      <4> QED BY <1>4, <3>2, <4>1 DEF Sound
    <3> QED BY <3>1, <3>2
  <2> QED BY <2>1 DEF SlotsSound, Sound
<1>7. \A t \in Slots : slot'[t].phase \in {"refreshing", "refreshed", "queued"}
        => t # s /\ slot'[t].phase = slot[t].phase
  BY <1>3, <1>4, SlotTypes
<1>8. OneRefresher'
  <2>1. slot[s].phase \notin {"refreshing", "refreshed"}
    BY <1>0 DEF Ended
  <2>2. Refresher' = Refresher
    <3>1. slot'[s].phase = "idle"
      BY <1>3, SlotTypes
    <3>2. \A t \in Slots \ {s} : slot'[t].phase = slot[t].phase
      BY <1>4
    <3> QED BY <2>1, <3>1, <3>2 DEF Refresher
  <2> QED BY <1>7, <2>2 DEF IInv, OneRefresher
<1>9. SignedOut'
  <2>1. \A t \in Slots : Bare(slot'[t])
    <3>1. Bare(slot'[s])
      BY <1>3, SlotTypes
    <3>2. \A t \in Slots \ {s} : Bare(slot'[t])
      BY <1>4 DEF Bare
    <3> QED BY <3>1, <3>2
  <2> QED BY <1>0, <2>1 DEF SignedOut, Bare
<1>10. Unspent'
  <2> SUFFICES ASSUME blame = "none" PROVE Unspent'
    BY <1>0 DEF Unspent
  <2>1. \A t \in Slots : Brings(slot'[t]) => t # s /\ Brings(slot[t])
    BY <1>3, <1>4, SlotTypes DEF Brings
  <2>2. \A t \in Slots : slot'[t].phase = "refreshing" => slot'[t].tok \notin spent'
    BY <1>1, <1>4, <1>7 DEF IInv, Unspent
  <2>3. ASSUME NEW t \in Slots, Brings(slot'[t])
        PROVE  /\ slot'[t].pair \notin spent' /\ slot'[t].pair # store'
               /\ \A u \in Slots \ {t} :
                    /\ slot'[u].phase = "refreshing" => slot'[u].tok # slot'[t].pair
                    /\ Brings(slot'[u]) => slot'[u].pair # slot'[t].pair
    <3>1. t # s /\ Brings(slot[t]) /\ slot'[t].pair = slot[t].pair /\ slot[t].pair # 0
      BY <1>4, <2>1, <2>3 DEF Brings
    <3>2. /\ slot[t].pair \notin spent
          /\ \A u \in Slots \ {t} :
               /\ slot[u].phase = "refreshing" => slot[u].tok # slot[t].pair
               /\ Brings(slot[u]) => slot[u].pair # slot[t].pair
      BY <3>1 DEF IInv, Unspent
    <3>3. ASSUME NEW u \in Slots \ {t}
          PROVE  /\ slot'[u].phase = "refreshing" => slot'[u].tok # slot'[t].pair
                 /\ Brings(slot'[u]) => slot'[u].pair # slot'[t].pair
      BY <1>4, <1>7, <2>1, <3>1, <3>2
    <3> QED BY <1>0, <1>1, <3>1, <3>2, <3>3
  <2> QED BY <1>0, <1>1, <2>2, <2>3 DEF Unspent
<1> QED BY <1>1, <1>2, <1>5, <1>6, <1>8, <1>9, <1>10, Parts DEF SlotInv

\* However a call ends.
LEMMA FinishKeeps ==
  ASSUME IInv, NEW s \in Slots, Finish(s) PROVE IInv'
  BY StartKeeps, UnlockedKeeps, SessionKeeps, SessionTicketKeeps, LoggedInKeeps,
     ProfileLoadedKeeps, EnterLoginKeeps, PolledKeeps, LoggedOutKeeps, DeletedKeeps
     DEF Finish

------------------------------------------------------------------------------
(* Time, a restart, the beginning.                                         *)

\* An access token or the gate pass runs out.
LEMMA ExpiryKeeps ==
  ASSUME IInv, AccessExpires \/ GateExpires PROVE IInv'
<1>1. CASE AccessExpires
  <2>1. /\ fresh' = {} /\ slot' = slot
        /\ UNCHANGED <<owner, live, spent, gateValid, device, screen, history>>
    BY <1>1 DEF AccessExpires
  <2>2. ServerType' /\ DeviceType' /\ Typed'
    BY <2>1, Parts DEF ServerType, DeviceType, Typed, Minted, device, screen, history
  <2>3. SlotInv'
    <3>1. SlotsSound' /\ OneRefresher'
      BY <2>1, Parts DEF SlotInv, SlotsSound, Sound, OneRefresher, Refresher
    <3>2. SignedOut'
      BY <2>1, Parts DEF SlotInv, SignedOut, Bare, device, screen, history
    <3>3. Unspent'
      BY <2>1, Parts DEF SlotInv, Unspent, Brings, Exchanged, device, history
    <3> QED BY <3>1, <3>2, <3>3 DEF SlotInv
  <2> QED BY <2>2, <2>3, Parts
<1>2. CASE GateExpires
  <2>1. /\ slot' = [s \in Slots |-> [slot[s] EXCEPT !.pass = FALSE]] /\ gateValid' = FALSE
        /\ UNCHANGED <<owner, live, fresh, spent, device, screen, history>> /\ Typed /\ SlotInv
    BY <1>2, Parts DEF GateExpires
  <2>2. ServerType' /\ DeviceType' /\ Minted' = Minted
    BY <2>1, Parts DEF ServerType, DeviceType, Minted, device, screen, history
  <2>3. ASSUME NEW t \in Slots
        PROVE  /\ slot'[t] \in Slot /\ slot'[t].old = slot[t].old
               /\ slot'[t].kind = slot[t].kind /\ slot'[t].phase = slot[t].phase
               /\ slot'[t].who = slot[t].who /\ slot'[t].tok = slot[t].tok
               /\ slot'[t].ans = slot[t].ans /\ slot'[t].pair = slot[t].pair
    <3>1. slot[t] \in Slot /\ slot'[t] = [slot[t] EXCEPT !.pass = FALSE]
      BY <2>1 DEF Typed
    <3> QED BY <3>1 DEF Slot
  <2>4. Typed'
    BY <2>1, <2>2, <2>3 DEF Typed
  <2>5. SlotsSound'
    <3>1. \A t \in Slots : Sound(slot'[t])
      BY <2>1, <2>3 DEF SlotInv, SlotsSound, Sound
    <3> QED BY <3>1 DEF SlotsSound, Sound
  <2>6. OneRefresher'
    <3>1. Refresher' = Refresher
      BY <2>3 DEF Refresher
    <3> QED BY <2>1, <2>3, <3>1 DEF SlotInv, OneRefresher
  <2>7. SignedOut'
    <3>1. /\ SignedOut /\ left' = left /\ blame' = blame /\ user' = user
          /\ cached' = cached /\ store' = store /\ ticket' = ticket
      BY <2>1 DEF SlotInv, device, screen, history
    <3>2. \A t \in Slots : Bare(slot[t]) => Bare(slot'[t])
      BY <2>3 DEF Bare
    <3> QED BY <3>1, <3>2 DEF SignedOut, Bare
  <2>8. Unspent'
    <3>1. Unspent /\ blame' = blame /\ store' = store /\ spent' = spent
      BY <2>1 DEF SlotInv, device, history
    <3>2. \A t \in Slots : /\ Brings(slot'[t]) <=> Brings(slot[t])
                           /\ Exchanged(slot'[t]) <=> Exchanged(slot[t])
      BY <2>3 DEF Brings, Exchanged
    <3>3. blame' = "none" => (store' \in spent' => \E t \in Slots : Exchanged(slot'[t]))
      BY <3>1, <3>2 DEF Unspent, Exchanged
    <3>4. blame' = "none" => \A t \in Slots : slot'[t].phase = "refreshing" => slot'[t].tok \notin spent'
      BY <2>3, <3>1 DEF Unspent
    <3>5. ASSUME blame' = "none", NEW t \in Slots, Brings(slot'[t])
          PROVE  /\ slot'[t].pair \notin spent' /\ slot'[t].pair # store'
                 /\ \A u \in Slots \ {t} :
                      /\ slot'[u].phase = "refreshing" => slot'[u].tok # slot'[t].pair
                      /\ Brings(slot'[u]) => slot'[u].pair # slot'[t].pair
      <4>1. /\ slot[t].pair \notin spent /\ slot[t].pair # store
            /\ \A u \in Slots \ {t} :
                 /\ slot[u].phase = "refreshing" => slot[u].tok # slot[t].pair
                 /\ Brings(slot[u]) => slot[u].pair # slot[t].pair
        BY <3>1, <3>2, <3>5 DEF Unspent
      <4> QED BY <2>3, <3>1, <3>2, <4>1
    <3> QED BY <3>3, <3>4, <3>5 DEF Unspent
  <2> QED BY <2>2, <2>4, <2>5, <2>6, <2>7, <2>8, Parts DEF SlotInv
<1> QED BY <1>1, <1>2

\* The slots when one call has just been started and no other runs.
LEMMA OnlyStart ==
  ASSUME NEW s \in Slots, NEW n \in Minted' \cup {0}, n \in 0 .. MaxTok, NEW p \in BOOLEAN,
         slot' = [t \in Slots |-> IF t = s THEN Sent("start", None, n, p, FALSE) ELSE Idle]
  PROVE  /\ Typed' /\ SlotsSound' /\ OneRefresher'
         /\ \A t \in Slots : /\ slot'[t].phase # "refreshing" /\ ~Brings(slot'[t])
                             /\ n = 0 => Bare(slot'[t])
<1> DEFINE r == Sent("start", None, n, p, FALSE)
<1>1. /\ r \in Slot /\ r.kind = "start" /\ r.phase = "out" /\ r.ans = "none"
      /\ r.tok = n /\ r.pair = 0
  BY MaxTokAssumption DEF Sent, Slot, Phases, Answers, Kinds, Who
<1> HIDE DEF r
<1>2. \A t \in Slots : slot'[t] = r \/ slot'[t] = Idle
  BY DEF r
<1>a. Sound(r) /\ (n = 0 => Bare(r))
  <2>1. Sound(r)
    BY <1>1 DEF Sound
  <2>2. n = 0 => Bare(r)
    BY <1>1 DEF Bare
  <2> QED BY <2>1, <2>2
<1>3. \A t \in Slots : /\ slot'[t] \in Slot /\ Sound(slot'[t])
                       /\ slot'[t].phase \in {"idle", "out"} /\ slot'[t].pair = 0
                       /\ slot'[t].tok \in {n, 0}
                       /\ n = 0 => Bare(slot'[t])
  <2>1. /\ Idle \in Slot /\ Idle.tok = 0 /\ Idle.pair = 0 /\ Sound(Idle) /\ Bare(Idle)
        /\ Idle.phase = "idle"
    BY SlotTypes
  <2> QED BY <1>1, <1>2, <1>a, <2>1
<1>4. Typed'
  BY <1>3 DEF Typed
<1>5. SlotsSound'
  BY <1>3 DEF SlotsSound, Sound
<1>6. OneRefresher'
  BY <1>3 DEF OneRefresher, Refresher
<1>7. \A t \in Slots : slot'[t].phase # "refreshing" /\ ~Brings(slot'[t])
  BY <1>3 DEF Brings
<1> QED BY <1>3, <1>4, <1>5, <1>6, <1>7

\* The process starts again with what the device stored.
LEMMA RestartKeeps ==
  ASSUME IInv, Restart PROVE IInv'
<1>1. PICK s \in Slots : slot' = [t \in Slots |->
          IF t = s THEN Sent("start", None, store, Passes, FALSE) ELSE Idle]
  BY DEF Restart
<1>2. /\ user' = None /\ gateOk' = "unknown" /\ loading' = TRUE
      /\ blame' = LostIf(\E t \in Refresher : slot[t].pair # 0)
      /\ UNCHANGED <<server, device, left>> /\ ServerType /\ DeviceType /\ SlotInv
  BY Parts DEF Restart
<1>3. ServerType' /\ DeviceType' /\ Minted' = Minted /\ spent' = spent /\ store' = store
  BY <1>2 DEF ServerType, DeviceType, server, device, Minted, LostIf, Who
<1>4. store \in Minted' \cup {0} /\ store \in 0 .. MaxTok /\ Passes \in BOOLEAN
  BY <1>2, <1>3, MaxTokAssumption DEF DeviceType, ServerType, Tok, Passes
<1>5. /\ Typed' /\ SlotsSound' /\ OneRefresher'
      /\ \A t \in Slots : /\ slot'[t].phase # "refreshing" /\ ~Brings(slot'[t])
                          /\ store = 0 => Bare(slot'[t])
  BY <1>1, <1>4, OnlyStart
<1>6. SignedOut'
  <2>1. blame' # "stale" => blame # "stale"
    BY <1>2 DEF LostIf
  <2> QED BY <1>2, <1>5, <2>1 DEF SlotInv, SignedOut, device, Bare
<1>7. Unspent'
  <2>1. blame' = "none" => blame = "none" /\ \A t \in Refresher : slot[t].pair = 0
    BY <1>2 DEF LostIf
  <2>2. blame' = "none" => \A t \in Slots : ~Exchanged(slot[t])
    BY <1>2, <2>1 DEF SlotInv, SlotsSound, Sound, Exchanged, Refresher
  <2>3. blame' = "none" => store' \notin spent'
    BY <1>2, <1>3, <2>1, <2>2 DEF SlotInv, Unspent
  <2> QED BY <1>5, <2>3 DEF Unspent
<1> QED BY <1>3, <1>5, <1>6, <1>7, Parts DEF SlotInv

\* The invariant holds at the start of the program.
LEMMA InitInv == Init => IInv
<1> SUFFICES ASSUME Init PROVE IInv
  OBVIOUS
<1>1. PICK s \in Slots :
        slot = [t \in Slots |-> IF t = s THEN Sent("start", None, 0, FALSE, FALSE) ELSE Idle]
  BY DEF Init
<1> DEFINE r == Sent("start", None, 0, FALSE, FALSE)
<1>2. /\ r \in Slot /\ r.kind = "start" /\ r.phase = "out" /\ r.ans = "none"
      /\ r.tok = 0 /\ r.pair = 0
  BY MaxTokAssumption DEF Sent, Slot, Phases, Answers, Kinds, Who
<1> HIDE DEF r
<1>3. \A t \in Slots : slot[t] = r \/ slot[t] = Idle
  BY <1>1 DEF r
<1>4. \A t \in Slots : /\ slot[t] \in Slot /\ Sound(slot[t]) /\ slot[t].tok = 0
                       /\ slot[t].phase \in {"idle", "out"} /\ slot[t].pair = 0
  BY <1>2, <1>3, SlotTypes DEF Sound
<1>5. /\ owner = <<>> /\ live = {} /\ fresh = {} /\ spent = {} /\ gateValid = FALSE
      /\ store = 0 /\ gateTok = FALSE /\ ticket = None /\ cached = None
      /\ user = None /\ gateOk = "unknown" /\ loading = TRUE /\ left = FALSE /\ blame = "none"
  BY DEF Init
<1>6. ServerType
  <2>1. Minted = {} /\ Cardinality(Minted) = 0
    BY <1>5, FS_EmptySet DEF Minted
  <2>2. 1 .. 0 = {}
    OBVIOUS
  <2>3. Minted = 1 .. Cardinality(Minted)
    BY <2>1, <2>2
  <2> QED BY <1>5, <2>1, <2>3 DEF ServerType
<1>7. DeviceType
  BY <1>5 DEF DeviceType, Who
<1>8. Typed
  <2>1. slot \in [Slots -> Slot]
    BY <1>1, <1>4
  <2> QED BY <1>4, <2>1 DEF Typed
<1>9. SlotInv
  <2>1. SlotsSound
    BY <1>4 DEF SlotsSound
  <2>2. OneRefresher
    BY <1>4 DEF OneRefresher, Refresher
  <2>3. SignedOut
    BY <1>5 DEF SignedOut
  <2>4. Unspent
    BY <1>4, <1>5 DEF Unspent, Brings
  <2> QED BY <2>1, <2>2, <2>3, <2>4 DEF SlotInv
<1> QED BY <1>6, <1>7, <1>8, <1>9, Parts

\* Every step keeps it.
LEMMA NextInv == IInv /\ [Next]_vars => IInv'
<1> SUFFICES ASSUME IInv, [Next]_vars PROVE IInv'
  OBVIOUS
<1>1. ASSUME NEW s \in Slots, Person(s) PROVE IInv'
  BY <1>1, PersonKeeps
<1>2. ASSUME NEW s \in Slots, Network(s) PROVE IInv'
  BY <1>2, ServeKeeps, LoseKeeps DEF Network
<1>3. ASSUME NEW s \in Slots, Client(s) PROVE IInv'
  BY <1>3, TryRefreshKeeps, RefreshOverKeeps, RetryKeeps, FinishKeeps DEF Client
<1>4. CASE AccessExpires \/ GateExpires
  BY <1>4, ExpiryKeeps
<1>5. CASE Restart
  BY <1>5, RestartKeeps
<1>6. CASE UNCHANGED vars
  <2>1. ServerType' /\ DeviceType' /\ Typed'
    BY <1>6, Parts DEF vars, server, device, screen, history, ServerType, DeviceType, Typed, Minted
  <2>2. SlotsSound' /\ OneRefresher'
    BY <1>6 DEF vars, IInv, SlotsSound, Sound, OneRefresher, Refresher
  <2>3. SignedOut'
    BY <1>6 DEF vars, device, screen, history, IInv, SignedOut, Bare
  <2>4. Unspent'
    BY <1>6 DEF vars, server, device, history, IInv, Unspent, Brings, Exchanged
  <2> QED BY <2>1, <2>2, <2>3, <2>4, Parts DEF SlotInv
<1> QED BY <1>1, <1>2, <1>3, <1>4, <1>5, <1>6 DEF Next

\* The invariant holds in every reachable state.
LEMMA Invariance == Spec => []IInv
  BY InitInv, NextInv, PTL DEF Spec

------------------------------------------------------------------------------
(* The theorems.                                                           *)

\* Every pair, slot and stored value stays what its name says, however the
\* calls of the client, the server and the timers interleave.
THEOREM TypeCorrect == Spec => []TypeOK
<1>1. IInv => TypeOK
  BY DEF IInv
<1> QED BY <1>1, Invariance, PTL

\* tryRefresh: a call waits only while exactly one refresh is running.
THEOREM QueueIsWoken == Spec => []QueueHasRefresher
<1>1. IInv => QueueHasRefresher
  <2> SUFFICES ASSUME IInv, \E s \in Slots : slot[s].phase = "queued"
               PROVE  Cardinality(Refresher) = 1
    BY DEF QueueHasRefresher
  <2>1. PICK s \in Refresher : TRUE
    BY DEF IInv, OneRefresher
  <2>2. Refresher = {s}
    BY <2>1 DEF IInv, OneRefresher
  <2> QED BY <2>2, FS_Singleton
<1> QED BY <1>1, Invariance, PTL

\* The client alone never presents a refresh token a second time.
THEOREM NoSelfReuseHolds == Spec => []NoSelfReuse
<1>1. IInv => NoSelfReuse
  BY DEF IInv, Unspent, NoSelfReuse
<1> QED BY <1>1, Invariance, PTL

\* After the log-out only an answer that was already on its way brings anything
\* of the session back.
THEOREM SignedOutStays == Spec => []OnlyStaleAnswersReturn
<1>1. IInv => OnlyStaleAnswersReturn
  BY DEF IInv, SignedOut, OnlyStaleAnswersReturn
<1> QED BY <1>1, Invariance, PTL

\* A call that ends is not left as it was.
LEMMA FinishMoves ==
  ASSUME TypeOK, NEW s \in Slots, Finish(s) PROVE Ended(s) /\ slot'[s] # slot[s]
<1>0. slot \in [Slots -> Slot]
  BY DEF TypeOK
<1>1. Ended(s) => slot[s].phase \in {"back", "woken"}
  BY DEF Ended
<1>2. Done(s) => slot'[s].phase = "idle"
  BY <1>0, SlotTypes DEF Done
<1>3. ASSUME NEW k, NEW u, NEW n, NEW p, Then(s, k, u, n, p) PROVE slot'[s].phase = "out"
  BY <1>0, <1>3 DEF Then, Sent
<1>4. CASE Start(s)
  BY <1>1, <1>2, <1>3, <1>4 DEF Start
<1>5. CASE Unlocked(s)
  BY <1>1, <1>2, <1>3, <1>5 DEF Unlocked
<1>6. CASE Session(s)
  BY <1>1, <1>2, <1>3, <1>6 DEF Session, Enter
<1>7. CASE SessionTicket(s)
  BY <1>1, <1>2, <1>7 DEF SessionTicket, Enter
<1>8. CASE LoggedIn(s)
  BY <1>1, <1>2, <1>3, <1>8 DEF LoggedIn
<1>9. CASE ProfileLoaded(s)
  BY <1>1, <1>2, <1>3, <1>9 DEF ProfileLoaded
<1>10. CASE EnterLogin(s)
  BY <1>1, <1>2, <1>10 DEF EnterLogin
<1>11. CASE Polled(s)
  BY <1>1, <1>2, <1>11 DEF Polled
<1>12. CASE LoggedOut(s)
  BY <1>0, <1>1, <1>12, SlotTypes DEF LoggedOut
<1>13. CASE Deleted(s)
  BY <1>1, <1>2, <1>3, <1>13 DEF Deleted
<1> QED BY <1>4, <1>5, <1>6, <1>7, <1>8, <1>9, <1>10, <1>11, <1>12, <1>13 DEF Finish

\* A step that puts the person out is a restart, or the end of a call that
\* justifies it.
Reason == \E s \in Slots :
            /\ slot'[s] # slot[s]
            /\ \/ slot[s].kind = "logout"
               \/ slot[s].ans \in {"refused", "error"}
               \/ slot[s].kind = "ticket1"
               \/ (slot[s].kind = "session" /\ slot[s].ans = "ok")

\* The end of a call that puts the person out.
LEMMA PutOut ==
  ASSUME IInv, NEW s \in Slots, Finish(s), user # None, user' = None
  PROVE  \/ slot[s].kind = "logout"
         \/ slot[s].ans \in {"refused", "error"}
         \/ slot[s].kind = "ticket1"
         \/ (slot[s].kind = "session" /\ slot[s].ans = "ok")
<1>0. Ended(s) /\ Sound(slot[s])
  BY FinishMoves DEF IInv, SlotsSound
<1>1. Expired(s) => slot[s].ans \in {"refused", "error"}
  BY <1>0 DEF Expired, Ended, Sound
<1>2. UserThen(s) = None => Expired(s)
  BY DEF UserThen
<1>3. CASE Start(s) \/ Unlocked(s) \/ LoggedIn(s)
  BY <1>3 DEF Start, Unlocked, LoggedIn
<1>4. CASE Session(s)
  BY <1>1, <1>2, <1>4 DEF Session, Got
<1>5. CASE SessionTicket(s) \/ LoggedOut(s)
  BY <1>5 DEF SessionTicket, LoggedOut
<1>6. CASE ProfileLoaded(s) \/ Polled(s) \/ Deleted(s)
  BY <1>1, <1>2, <1>6 DEF ProfileLoaded, Polled, Deleted
<1>7. CASE EnterLogin(s)
  BY <1>0, <1>7, NoneAssumption DEF EnterLogin, Sound
<1> QED BY <1>3, <1>4, <1>5, <1>6, <1>7 DEF Finish

\* Nobody loses the session to a broken connection or a shut door.
THEOREM SessionIsKept == Spec => SessionKept
<1>1. ASSUME IInv, Next, user # None, user' = None PROVE Restart \/ Reason
  <2>1. ASSUME NEW s \in Slots, Person(s) PROVE FALSE
    BY <1>1, <2>1 DEF Person, LogIn, Unlock, Poll, LogOut, DeleteAccount, Begin, screen
  <2>2. ASSUME NEW s \in Slots, Network(s) PROVE FALSE
    BY <1>1, <2>2 DEF Network, Serve, Lose, screen
  <2>3. ASSUME NEW s \in Slots, Client(s) PROVE Reason
    <3>1. ~TryRefresh(s) /\ ~RefreshOver(s) /\ ~Retry(s)
      BY <1>1 DEF TryRefresh, RefreshOver, Retry, screen
    <3>2. Finish(s)
      BY <2>3, <3>1 DEF Client
    <3> QED BY <1>1, <3>2, FinishMoves, PutOut DEF Reason, IInv
  <2>4. ~AccessExpires /\ ~GateExpires
    BY <1>1 DEF AccessExpires, GateExpires, screen
  <2> QED BY <1>1, <2>1, <2>2, <2>3, <2>4 DEF Next
<1>2. IInv /\ [Next]_vars => [user # None /\ user' = None => Restart \/ Reason]_vars
  BY <1>1
<1> QED BY <1>2, Invariance, PTL DEF Spec, SessionKept, Reason
==============================================================================
