--------------------------- MODULE SessionsProofs ---------------------------
(***************************************************************************)
(* Proofs about Sessions, for every number of accounts, requests, tokens   *)
(* and seconds.  What depends on the keys of Redis staying for as long as  *)
(* they were set for assumes ~Evicts.                                      *)
(***************************************************************************)
EXTENDS Sessions, TLAPS

-----------------------------------------------------------------------------
\* The inductive invariant, by parts.

\* The token a request works on has been issued.
ReqIssued ==
  \A s \in Slots : req[s].pc # "idle" => req[s].tok[1] \in Issued

\* Nothing is issued in the future.
IssuedInThePast == now \in Nat \ {0} /\ \A p \in Issued : pairs[p].iat <= now

\* A REVOKED status is in the history.
StatusMeansRevoked ==
  \A t \in Token : status[t].val = "revoked" => t \in revoked

\* An epoch key holds the second of the last cut.
EpochMeansCut ==
  \A u \in Users : /\ cut[u] <= now
                   /\ epoch[u].at # 0 => epoch[u].at = cut[u]

\* The REVOKED status of a token is there until the token's expiry.
RevokedKeyLasts ==
  \A t \in revoked :
    /\ t[1] \in Issued
    /\ \/ status[t].val = "revoked" /\ Exp(t) <= status[t].until
       \/ Exp(t) <= now

\* The epoch is there until every token from before it has expired.
EpochKeyLasts ==
  \A u \in Users : cut[u] # 0 =>
    \/ epoch[u].at = cut[u] /\ epoch[u].until = cut[u] + RefreshTTL
    \/ cut[u] + RefreshTTL <= now

\* An account that was gone when a pair was issued is gone for good, and no
\* request exchanges such a pair.
GoneForGood ==
  /\ \A p \in Issued : pairs[p].gone => pairs[p].sub \notin users
  /\ \A s \in Slots : req[s].pc \in {"checked", "verified", "rotated"}
                        => ~pairs[req[s].tok[1]].gone
  /\ \A p \in Issued : pairs[p].via < p

-----------------------------------------------------------------------------
\* The shape of a step: how it may change what the server remembers.

\* IssuePair adds one pair at the end and touches no key of an earlier pair.
LEMMA IssueFacts ==
  ASSUME TypeOK, NEW u \in Users, NEW via \in 0 .. MaxPairs, IssuePair(u, via)
  PROVE  LET new == Len(pairs) + 1 IN
         /\ new \in PairId
         /\ pairs' \in Seq(Pair)
         /\ Len(pairs') = new /\ new <= MaxPairs
         /\ Issued' = Issued \cup {new} /\ new \notin Issued
         /\ \A p \in Issued : pairs'[p] = pairs[p]
         /\ pairs'[new] = [sub |-> u, iat |-> now, via |-> via,
                           gone |-> u \notin users]
         /\ status' \in [Token -> [val : {"none", "active", "revoked"},
                                   until : Nat]]
         /\ \A t \in Token : t[1] # new => status'[t] = status[t]
         /\ \A t \in Token : status'[t].val = "revoked" => status'[t] = status[t]
<1> DEFINE rec == [sub |-> u, iat |-> now, via |-> via, gone |-> u \notin users]
           new == Len(pairs) + 1
           key == [val |-> "active", until |-> now + RefreshTTL]
<1>1. pairs \in Seq(Pair) /\ Len(pairs) \in Nat /\ new \in PairId
  BY BoundAssumption DEF TypeOK, IssuePair, PairId
<1>2. rec \in Pair
  BY DEF TypeOK, Pair
<1>3. pairs' = Append(pairs, rec)
  BY DEF IssuePair
<1>4. /\ pairs' \in Seq(Pair)
      /\ Len(pairs') = new
      /\ \A p \in Issued : pairs'[p] = pairs[p]
      /\ pairs'[new] = rec
  BY <1>1, <1>2, <1>3 DEF Issued
<1>4a. Issued' = Issued \cup {new} /\ new \notin Issued /\ new <= MaxPairs
  BY <1>1, <1>4, BoundAssumption DEF Issued, PairId
<1>5. key \in [val : {"none", "active", "revoked"}, until : Nat]
  BY TTLAssumption DEF TypeOK
<1>6. status' = status \/ status' = [status EXCEPT ![<<new, "refresh">>] = key]
  BY DEF IssuePair
<1>7. <<new, "refresh">> \in Token
  BY <1>1 DEF Token, Kind
<1>8. status' \in [Token -> [val : {"none", "active", "revoked"}, until : Nat]]
  BY <1>5, <1>6, <1>7 DEF TypeOK
<1>9. \A t \in Token : t # <<new, "refresh">> => status'[t] = status[t]
  BY <1>6 DEF TypeOK
<1>10. status' = status \/ status'[<<new, "refresh">>].val = "active"
  BY <1>6, <1>7 DEF TypeOK
<1> HIDE DEF rec, key
<1>11. \A t \in Token : t[1] # new => status'[t] = status[t]
  BY <1>9
<1>12. \A t \in Token : status'[t].val = "revoked" => status'[t] = status[t]
  BY <1>9, <1>10
<1> QED BY <1>1, <1>4, <1>4a, <1>8, <1>11, <1>12 DEF rec
\* The pair a token belongs to exists, is the user's, and has its times.
LEMMA TokenFacts ==
  ASSUME TypeOK, NEW t \in Token, t[1] \in Issued
  PROVE  /\ pairs[t[1]] \in Pair
         /\ Sub(t) \in Users
         /\ Iat(t) \in Nat
         /\ Exp(t) \in Nat
         /\ Iat(t) < Exp(t)
         /\ Exp(t) <= Iat(t) + RefreshTTL
<1>1. pairs[t[1]] \in Pair
  BY DEF TypeOK, Issued
<1>2. TTL(t[2]) \in Nat /\ 0 < TTL(t[2]) /\ TTL(t[2]) <= RefreshTTL
  BY TTLAssumption DEF TTL
<1> QED BY <1>1, <1>2, TTLAssumption DEF Pair, Sub, Iat, Exp

\* A token of a pair and a kind.
LEMMA PairTokens ==
  \A p \in PairId, k \in Kind : <<p, k>> \in Token /\ <<p, k>>[1] = p /\ <<p, k>>[2] = k
BY DEF Token

LEMMA IssuedIds == TypeOK => Issued \subseteq PairId
BY BoundAssumption DEF TypeOK, Issued, PairId

\* What RevokeTTL is: a positive number of seconds, enough to reach the expiry.
LEMMA RevokeTTLFacts ==
  ASSUME TypeOK, NEW t \in Token, t[1] \in Issued
  PROVE  RevokeTTL(t) \in Nat /\ Exp(t) <= now + RevokeTTL(t)
BY SMTT(30), TokenFacts DEF TypeOK, RevokeTTL

-----------------------------------------------------------------------------
\* Type correctness.

TypeInv == TypeOK /\ ReqIssued

LEMMA TypeInvInit == Init => TypeInv
<1> SUFFICES ASSUME Init PROVE TypeInv
  OBVIOUS
<1>1. Idle \in [pc : Pc, tok : Token, given : SUBSET Kind, dead : BOOLEAN]
  BY BoundAssumption DEF Idle, Pc, Token, Kind, PairId
<1>2. NoKey \in [val : {"none", "active", "revoked"}, until : Nat]
  BY DEF NoKey
<1>3. NoEpoch \in [at : Nat, until : Nat]
  BY DEF NoEpoch
<1>4. pairs \in Seq(Pair) /\ Len(pairs) <= MaxPairs
  BY BoundAssumption DEF Init
<1>5. ReqIssued
  BY DEF Init, ReqIssued, Idle
<1> QED BY <1>1, <1>2, <1>3, <1>4, <1>5 DEF Init, TypeInv, TypeOK

LEMMA TypeInvStep == TypeInv /\ [Next]_vars => TypeInv'
<1> SUFFICES ASSUME TypeInv, [Next]_vars PROVE TypeInv'
  OBVIOUS
<1> USE DEF TypeInv
<1> DEFINE Req == [pc : Pc, tok : Token, given : SUBSET Kind, dead : BOOLEAN]
           Stat == [val : {"none", "active", "revoked"}, until : Nat]
           Epo == [at : Nat, until : Nat]
<1>0. /\ Idle \in Req
      /\ NoKey \in Stat
      /\ NoEpoch \in Epo
      /\ Idle.pc = "idle"
  BY BoundAssumption DEF Idle, Pc, Token, Kind, PairId, NoKey, NoEpoch
\* Answering, and moving on to another place, keep the type of req.
<1>1. ASSUME NEW s \in Slots, Answer(s)
      PROVE  /\ req' \in [Slots -> Req]
             /\ \A z \in Slots : req'[z].pc # "idle" => req'[z] = req[z]
  BY <1>0, <1>1 DEF Answer, TypeOK
<1>2. ASSUME NEW s \in Slots, NEW pc \in Pc, Goto(s, pc), req[s].pc # "idle"
      PROVE  /\ req' \in [Slots -> Req]
             /\ \A z \in Slots : req'[z].pc # "idle" =>
                  req[z].pc # "idle" /\ req'[z].tok = req[z].tok
  BY <1>2 DEF Goto, TypeOK
<1>3. ASSUME NEW s \in Slots, NEW r \in Req, req' = [req EXCEPT ![s] = r],
             r.pc # "idle" => r.tok[1] \in Issued, UNCHANGED pairs
      PROVE  req' \in [Slots -> Req] /\ ReqIssued'
  BY <1>3 DEF TypeOK, ReqIssued, Issued
\* So do the writes to Redis keep the types of its keys.
<1>4. ASSUME NEW t \in Token, t[1] \in Issued, StoreRevoked(t)
      PROVE  status' \in [Token -> Stat] /\ revoked' \subseteq Token
  BY <1>4, RevokeTTLFacts DEF StoreRevoked, TypeOK
<1>5. ASSUME NEW u, StoreEpoch(u)
      PROVE  epoch' \in [Users -> Epo] /\ cut' \in [Users -> Nat]
  <2>1. [at |-> now, until |-> now + RefreshTTL] \in Epo /\ now \in Nat
    BY TTLAssumption DEF TypeOK
  <2>2. epoch \in [Users -> Epo] /\ cut \in [Users -> Nat]
    BY DEF TypeOK
  <2> HIDE DEF Epo
  <2> QED BY <1>5, <2>1, <2>2 DEF StoreEpoch
<1>6. \A s \in Slots : req[s] \in Req /\ req[s].tok \in Token
  BY DEF TypeOK
<1>7. ASSUME UNCHANGED pairs,
             \A z \in Slots : req'[z].pc # "idle" =>
                  req[z].pc # "idle" /\ req'[z].tok = req[z].tok
      PROVE  ReqIssued'
  BY <1>7 DEF ReqIssued, Issued
<1> HIDE DEF Req, Stat, Epo
<1>8. /\ (TypeOK' <=> /\ now' \in Nat
                     /\ redisUp' \in BOOLEAN
                     /\ users' \subseteq Users
                     /\ pairs' \in Seq(Pair) /\ Len(pairs') <= MaxPairs
                     /\ status' \in [Token -> Stat]
                     /\ epoch' \in [Users -> Epo]
                     /\ req' \in [Slots -> Req]
                     /\ revoked' \subseteq Token
                     /\ cut' \in [Users -> Nat])
      /\ now \in Nat
      /\ redisUp \in BOOLEAN
      /\ users \subseteq Users
      /\ pairs \in Seq(Pair) /\ Len(pairs) <= MaxPairs
      /\ status \in [Token -> Stat]
      /\ epoch \in [Users -> Epo]
      /\ req \in [Slots -> Req]
      /\ revoked \subseteq Token
      /\ cut \in [Users -> Nat]
  BY DEF TypeOK, Req, Stat, Epo
<1>10. CASE UNCHANGED vars
  BY <1>7, <1>8, <1>10 DEF vars
<1>11. CASE Tick
  <2>1. \A t \in Token : Purge(status[t], NoKey, now + 1) \in Stat
    BY <1>0, <1>8 DEF Purge
  <2>2. \A u \in Users : Purge(epoch[u], NoEpoch, now + 1) \in Epo
    BY <1>0, <1>8 DEF Purge
  <2> QED BY <1>7, <1>8, <1>11, <2>1, <2>2 DEF Tick
<1>12. CASE RedisToggle
  BY <1>7, <1>8, <1>12 DEF RedisToggle
<1>13. ASSUME NEW t \in Token, StatusGoes(t) PROVE TypeInv'
  BY <1>0, <1>7, <1>8, <1>13 DEF StatusGoes
<1>14. ASSUME NEW u \in Users, EpochGoes(u) PROVE TypeInv'
  BY <1>0, <1>7, <1>8, <1>14 DEF EpochGoes
<1>15. ASSUME NEW u \in Users, Login(u) PROVE TypeInv'
  <2>1. IssuePair(u, 0) /\ 0 \in 0 .. MaxPairs
    BY <1>15, BoundAssumption DEF Login
  <2>2. Len(pairs') <= MaxPairs /\ Issued \subseteq Issued'
    BY <2>1, IssueFacts
  <2>3. ReqIssued'
    BY <1>15, <2>2 DEF Login, ReqIssued
  <2> QED BY <1>8, <1>15, <2>1, <2>2, <2>3, IssueFacts DEF Login, Stat
<1>20. ASSUME NEW s \in Slots, NEW t \in Token, RefreshStart(s, t) PROVE TypeInv'
  <2> DEFINE r == [pc |-> "checked", tok |-> t, given |-> {}, dead |-> Dead(t)]
  <2>1. r \in Req /\ r.tok[1] \in Issued
    BY <1>20 DEF Req, Pc, Dead, RefreshStart, PassesService, VerifyOK, Decodes
  <2>2. req' = [req EXCEPT ![s] = r] /\ UNCHANGED pairs
    BY <1>20 DEF RefreshStart
  <2> HIDE DEF r
  <2>3. req' \in [Slots -> Req] /\ ReqIssued'
    BY <1>3, <2>1, <2>2
  <2> QED BY <1>8, <1>20, <2>3 DEF RefreshStart
<1>21. ASSUME NEW s \in Slots, RefreshVerify(s) PROVE TypeInv'
  <2> DEFINE t == req[s].tok
             r == [req[s] EXCEPT !.pc = "verified", !.dead = @ \/ Dead(t)]
  <2>1. req[s].pc = "checked" /\ UNCHANGED pairs
    BY <1>21 DEF RefreshVerify
  <2>2. CASE req' = [req EXCEPT ![s].pc = "verified", ![s].dead = @ \/ Dead(t)]
    <3>1. r \in Req /\ (r.pc # "idle" => r.tok[1] \in Issued)
      BY <1>6, <2>1 DEF Req, Pc, Dead, ReqIssued
    <3>2. req' = [req EXCEPT ![s] = r]
      BY <2>2, <1>8
    <3> HIDE DEF r
    <3>3. req' \in [Slots -> Req] /\ ReqIssued'
      BY <1>3, <2>1, <3>1, <3>2
    <3> QED BY <1>8, <1>21, <3>3 DEF RefreshVerify
  <2>3. CASE Goto(s, "replayed")
    BY <1>2, <1>7, <1>8, <1>21, <2>1, <2>3 DEF RefreshVerify, Pc, Req
  <2>4. CASE Answer(s)
    BY <1>1, <1>7, <1>8, <1>21, <2>1, <2>4 DEF RefreshVerify, Req
  <2> QED BY <1>21, <2>2, <2>3, <2>4 DEF RefreshVerify
<1>22. ASSUME NEW s \in Slots, RevokeFamily(s) PROVE TypeInv'
  BY <1>1, <1>5, <1>7, <1>8, <1>22 DEF RevokeFamily, Req, Epo
<1>23. ASSUME NEW s \in Slots, RefreshRevoke(s) PROVE TypeInv'
  <2>1. req[s].pc # "idle" /\ req[s].tok \in Token /\ req[s].tok[1] \in Issued
    BY <1>6, <1>23 DEF RefreshRevoke, ReqIssued
  <2>2. req' \in [Slots -> Req] /\ ReqIssued'
    BY <1>1, <1>2, <1>7, <1>23, <2>1 DEF RefreshRevoke, Pc, Req
  <2>3. status' \in [Token -> Stat] /\ revoked' \subseteq Token
    BY <1>4, <1>8, <1>23, <2>1 DEF RefreshRevoke, Stat
  <2> QED BY <1>8, <1>23, <2>2, <2>3 DEF RefreshRevoke
<1>24. ASSUME NEW s \in Slots, RefreshIssue(s) PROVE TypeInv'
  <2> DEFINE t == req[s].tok
  <2>1. t \in Token /\ t[1] \in Issued /\ t[1] \in 0 .. MaxPairs /\ Sub(t) \in Users
    BY <1>6, <1>24, TokenFacts, BoundAssumption
       DEF RefreshIssue, ReqIssued, Token, PairId
  <2>2. IssuePair(Sub(t), t[1]) /\ Answer(s)
    BY <1>24 DEF RefreshIssue
  <2> HIDE DEF t
  <2>3. Len(pairs') <= MaxPairs /\ Issued \subseteq Issued'
    BY <2>1, <2>2, IssueFacts
  <2>4. req' \in [Slots -> Req] /\ ReqIssued'
    BY <1>1, <2>2, <2>3 DEF ReqIssued, Req
  <2> QED BY <1>8, <1>24, <2>1, <2>2, <2>3, <2>4, IssueFacts DEF RefreshIssue, Stat
<1>25. ASSUME NEW s \in Slots, NEW p \in Issued, NEW given \in SUBSET Kind,
              LogoutStart(s, p, given)
       PROVE  TypeInv'
  <2> DEFINE r == [pc |-> IF "refresh" \in given THEN "outRefresh" ELSE "outAccess",
                   tok |-> <<p, "refresh">>, given |-> given, dead |-> FALSE]
  <2>1. r \in Req /\ r.tok[1] \in Issued
    BY IssuedIds DEF Req, Pc, Token, Kind
  <2>2. req' = [req EXCEPT ![s] = r] /\ UNCHANGED pairs
    BY <1>25 DEF LogoutStart
  <2> HIDE DEF r
  <2>3. req' \in [Slots -> Req] /\ ReqIssued'
    BY <1>3, <2>1, <2>2
  <2> QED BY <1>8, <1>25, <2>3 DEF LogoutStart
\* Both steps of a log-out revoke a token of the pair or pass it over.
<1>26. ASSUME NEW s \in Slots, NEW k \in Kind, NEW next \in Req,
              next.pc # "idle" => next.tok[1] \in Issued,
              req[s].pc # "idle", LogoutRevoke(s, <<req[s].tok[1], k>>, next)
       PROVE  TypeInv'
  <2> DEFINE t == <<req[s].tok[1], k>>
  <2>1. t \in Token /\ t[1] \in Issued
    BY <1>26, PairTokens, IssuedIds DEF ReqIssued
  <2>2. UNCHANGED pairs /\ (Answer(s) \/ req' = [req EXCEPT ![s] = next])
    BY <1>26 DEF LogoutRevoke
  <2>3. req' \in [Slots -> Req] /\ ReqIssued'
    BY <1>1, <1>3, <1>7, <1>26, <2>2 DEF Req
  <2>4. StoreRevoked(t) \/ UNCHANGED <<status, revoked>>
    BY <1>26 DEF LogoutRevoke
  <2> HIDE DEF t
  <2>5. status' \in [Token -> Stat] /\ revoked' \subseteq Token
    BY <1>4, <1>8, <2>1, <2>4 DEF Stat
  <2> QED BY <1>8, <1>26, <2>3, <2>5 DEF LogoutRevoke
<1>27. ASSUME NEW s \in Slots, LogoutRefresh(s) PROVE TypeInv'
  <2> DEFINE next == IF "access" \in req[s].given
                       THEN [req[s] EXCEPT !.pc = "outAccess"] ELSE Idle
  <2>1. req[s].pc = "outRefresh" /\ LogoutRevoke(s, <<req[s].tok[1], "refresh">>, next)
    BY <1>27 DEF LogoutRefresh
  <2>2. next \in Req /\ (next.pc # "idle" => next.tok[1] \in Issued)
    BY <1>0, <1>6, <2>1 DEF Req, Pc, ReqIssued
  <2> HIDE DEF next
  <2> QED BY <1>26, <2>1, <2>2 DEF Kind
<1>28. ASSUME NEW s \in Slots, LogoutAccess(s) PROVE TypeInv'
  BY <1>0, <1>26, <1>28 DEF LogoutAccess, Kind
<1>29. ASSUME NEW s \in Slots, NEW p \in Issued, NEW given \in SUBSET Kind,
              LogoutAllStart(s, p, given)
       PROVE  TypeInv'
  <2> DEFINE r == [Idle EXCEPT !.pc = "cutting", !.tok = <<p, "access">>]
  <2>1. r \in Req /\ r.tok[1] \in Issued
    BY <1>0, IssuedIds DEF Req, Pc, Token, Kind, Idle
  <2>2. req' = [req EXCEPT ![s] = r] /\ UNCHANGED pairs
    BY <1>29 DEF LogoutAllStart
  <2> HIDE DEF r
  <2>3. req' \in [Slots -> Req] /\ ReqIssued'
    BY <1>3, <2>1, <2>2
  <2> QED BY <1>8, <1>29, <2>3 DEF LogoutAllStart
<1>30. ASSUME NEW s \in Slots, RevokeAllSessions(s) PROVE TypeInv'
  BY <1>1, <1>5, <1>7, <1>8, <1>30 DEF RevokeAllSessions, Req, Epo
<1>31. ASSUME NEW s \in Slots, NEW t \in Token, DeleteStart(s, t) PROVE TypeInv'
  <2> DEFINE r == [Idle EXCEPT !.pc = "erasing", !.tok = t]
  <2>1. r \in Req /\ r.tok[1] \in Issued
    BY <1>0, <1>31 DEF Req, Pc, Idle, DeleteStart, VerifyOK, Decodes
  <2>2. req' = [req EXCEPT ![s] = r] /\ UNCHANGED pairs
    BY <1>31 DEF DeleteStart
  <2> HIDE DEF r
  <2>3. req' \in [Slots -> Req] /\ ReqIssued'
    BY <1>3, <2>1, <2>2
  <2> QED BY <1>8, <1>31, <2>3 DEF DeleteStart
<1>32. ASSUME NEW s \in Slots, DeleteCommit(s) PROVE TypeInv'
  BY <1>2, <1>7, <1>8, <1>32 DEF DeleteCommit, Pc, Req
<1> QED
  BY <1>10, <1>11, <1>12, <1>13, <1>14, <1>15, <1>20, <1>21, <1>22, <1>23, <1>24,
     <1>25, <1>27, <1>28, <1>29, <1>30, <1>31, <1>32
  DEF Next, Environment, Refresh, Logout, Delete, LogoutAllCut, DeleteCut

\* Every variable keeps its type, for all values of the constants.
THEOREM TypeCorrect == Spec => []TypeOK
<1>1. TypeInv => TypeOK
  BY DEF TypeInv
<1> QED BY <1>1, TypeInvInit, TypeInvStep, PTL DEF Spec
-----------------------------------------------------------------------------
\* What the server remembers: the keys of Redis against the history.

KeyInv == /\ IssuedInThePast
          /\ StatusMeansRevoked
          /\ EpochMeansCut
          /\ ~Evicts => RevokedKeyLasts /\ EpochKeyLasts

\* The six ways in which a step can touch tokens and keys.
KeyStep ==
  \/ UNCHANGED <<now, pairs, status, epoch, revoked, cut>>
  \/ Tick
  \/ \E t \in Token : StatusGoes(t)
  \/ \E u \in Users : EpochGoes(u)
  \/ /\ \E u \in Users, via \in 0 .. MaxPairs : IssuePair(u, via)
     /\ UNCHANGED <<now, epoch, revoked, cut>>
  \/ /\ \E t \in Token : t[1] \in Issued /\ StoreRevoked(t)
     /\ UNCHANGED <<now, pairs, epoch, cut>>
  \/ /\ \E u \in Users : StoreEpoch(u)
     /\ UNCHANGED <<now, pairs, status, revoked>>

LEMMA NextIsKeyStep == TypeInv /\ [Next]_vars => KeyStep
<1> SUFFICES ASSUME TypeInv, [Next]_vars PROVE KeyStep
  OBVIOUS
<1>1. \A s \in Slots : req[s].pc # "idle" =>
         /\ req[s].tok \in Token /\ req[s].tok[1] \in Issued
         /\ req[s].tok[1] \in 0 .. MaxPairs
         /\ Sub(req[s].tok) \in Users
  BY TokenFacts, IssuedIds DEF TypeInv, TypeOK, ReqIssued, PairId
<1>2. \A s \in Slots, k \in Kind : req[s].pc # "idle" =>
         <<req[s].tok[1], k>> \in Token /\ <<req[s].tok[1], k>>[1] \in Issued
  BY <1>1, PairTokens, IssuedIds DEF TypeInv
<1>3. CASE UNCHANGED vars
  BY <1>3 DEF vars, KeyStep
<1>4. CASE Environment
  BY <1>4 DEF Environment, RedisToggle, KeyStep
<1>5. ASSUME NEW u \in Users, Login(u) PROVE KeyStep
  BY <1>5, BoundAssumption DEF Login, KeyStep
<1>6. ASSUME NEW s \in Slots, Refresh(s) PROVE KeyStep
  <2>1. ASSUME NEW t \in Token, RefreshStart(s, t) PROVE KeyStep
    BY <2>1 DEF RefreshStart, KeyStep
  <2>2. CASE RefreshVerify(s)
    BY <2>2 DEF RefreshVerify, KeyStep
  <2>3. CASE RevokeFamily(s)
    BY <1>1, <2>3 DEF RevokeFamily, KeyStep
  <2>4. CASE RefreshRevoke(s)
    BY <1>1, <2>4 DEF RefreshRevoke, KeyStep
  <2>5. CASE RefreshIssue(s)
    BY <1>1, <2>5 DEF RefreshIssue, KeyStep
  <2> QED BY <1>6, <2>1, <2>2, <2>3, <2>4, <2>5 DEF Refresh
<1>7. ASSUME NEW s \in Slots, Logout(s) PROVE KeyStep
  <2>1. ASSUME NEW p \in Issued, NEW given \in SUBSET Kind, LogoutStart(s, p, given)
        PROVE  KeyStep
    BY <2>1 DEF LogoutStart, KeyStep
  <2>2. ASSUME NEW k \in Kind, NEW next, req[s].pc # "idle",
               LogoutRevoke(s, <<req[s].tok[1], k>>, next)
        PROVE  KeyStep
    BY <1>2, <2>2 DEF LogoutRevoke, KeyStep
  <2>3. CASE LogoutRefresh(s)
    BY <2>2, <2>3 DEF LogoutRefresh, Kind
  <2>4. CASE LogoutAccess(s)
    BY <2>2, <2>4 DEF LogoutAccess, Kind
  <2>5. ASSUME NEW p \in Issued, NEW given \in SUBSET Kind, LogoutAllStart(s, p, given)
        PROVE  KeyStep
    BY <2>5 DEF LogoutAllStart, KeyStep
  <2>6. CASE LogoutAllCut(s)
    BY <1>1, <2>6 DEF LogoutAllCut, RevokeAllSessions, KeyStep
  <2> QED BY <1>7, <2>1, <2>3, <2>4, <2>5, <2>6 DEF Logout
<1>8. ASSUME NEW s \in Slots, Delete(s) PROVE KeyStep
  <2>1. ASSUME NEW t \in Token, DeleteStart(s, t) PROVE KeyStep
    BY <2>1 DEF DeleteStart, KeyStep
  <2>2. CASE DeleteCommit(s)
    BY <2>2 DEF DeleteCommit, KeyStep
  <2>3. CASE DeleteCut(s)
    BY <1>1, <2>3 DEF DeleteCut, RevokeAllSessions, KeyStep
  <2> QED BY <1>8, <2>1, <2>2, <2>3 DEF Delete
<1> QED BY <1>3, <1>4, <1>5, <1>6, <1>7, <1>8 DEF Next

LEMMA KeyInvInit == Init => KeyInv
<1> SUFFICES ASSUME Init PROVE KeyInv
  OBVIOUS
<1>1. Issued = {}
  BY DEF Init, Issued
<1> QED BY <1>1
  DEF Init, KeyInv, IssuedInThePast, StatusMeansRevoked, EpochMeansCut,
      RevokedKeyLasts, EpochKeyLasts, NoKey, NoEpoch

LEMMA KeyInvStep == TypeInv /\ KeyInv /\ KeyStep /\ TypeInv' => KeyInv'
<1> SUFFICES ASSUME TypeInv, KeyInv, KeyStep, TypeInv' PROVE KeyInv'
  OBVIOUS
<1> USE DEF KeyInv
<1>1. CASE UNCHANGED <<now, pairs, status, epoch, revoked, cut>>
  BY <1>1 DEF IssuedInThePast, StatusMeansRevoked, EpochMeansCut,
              RevokedKeyLasts, EpochKeyLasts, Issued, Exp, Iat
<1>2. CASE Tick
  <2>1. now \in Nat /\ now' = now + 1 /\ UNCHANGED <<pairs, revoked, cut>>
    BY <1>2 DEF Tick, TypeInv, TypeOK
  <2>2. \A t \in Token :
          \/ status'[t] = status[t]
          \/ status'[t] = NoKey /\ status[t].until < now + 1
    BY <1>2 DEF Tick, Purge
  <2>3. \A u \in Users :
          \/ epoch'[u] = epoch[u]
          \/ epoch'[u] = NoEpoch /\ epoch[u].until < now + 1
    BY <1>2 DEF Tick, Purge
  <2>4. IssuedInThePast'
    <3>1. \A p \in Issued : pairs[p].iat \in Nat
      <4>1. \A p \in Issued : pairs[p] \in Pair
        BY DEF Issued, TypeInv, TypeOK
      <4> QED BY <4>1 DEF Pair
    <3>2. \A p \in Issued : pairs[p].iat <= now
      BY DEF IssuedInThePast
    <3>3. \A p \in Issued : pairs[p].iat <= now + 1
      BY <2>1, <3>1, <3>2
    <3>4. now + 1 \in Nat \ {0}
      BY <2>1
    <3> QED BY <2>1, <3>3, <3>4 DEF IssuedInThePast, Issued
  <2>5. StatusMeansRevoked'
    BY <2>1, <2>2 DEF StatusMeansRevoked, NoKey
  <2>6. EpochMeansCut'
    BY <2>1, <2>3 DEF EpochMeansCut, NoEpoch, TypeInv, TypeOK
  <2>7. ASSUME ~Evicts PROVE RevokedKeyLasts'
    <3> SUFFICES ASSUME NEW t \in revoked
                 PROVE  /\ t[1] \in Issued
                        /\ \/ status'[t].val = "revoked" /\ Exp(t) <= status'[t].until
                           \/ Exp(t) <= now + 1
      BY <2>1 DEF RevokedKeyLasts, Issued, Exp, Iat
    <3>1. t \in Token /\ t[1] \in Issued
      BY <2>7 DEF TypeInv, TypeOK, RevokedKeyLasts
    <3>2. Exp(t) \in Nat /\ status[t].until \in Nat
      BY <3>1, TokenFacts DEF TypeInv, TypeOK
    <3> QED BY <2>1, <2>2, <2>7, <3>1, <3>2 DEF RevokedKeyLasts
  <2>8. ASSUME ~Evicts PROVE EpochKeyLasts'
    <3> SUFFICES ASSUME NEW u \in Users, cut[u] # 0
                 PROVE  \/ epoch'[u].at = cut[u] /\ epoch'[u].until = cut[u] + RefreshTTL
                        \/ cut[u] + RefreshTTL <= now + 1
      BY <2>1 DEF EpochKeyLasts
    <3>1. cut[u] \in Nat /\ epoch[u].until \in Nat
      BY DEF TypeInv, TypeOK
    <3> QED BY <2>1, <2>3, <2>8, <3>1, TTLAssumption DEF EpochKeyLasts
  <2> QED BY <2>4, <2>5, <2>6, <2>7, <2>8
<1>3. ASSUME NEW k \in Token, StatusGoes(k) PROVE KeyInv'
  <2>1. /\ UNCHANGED <<now, pairs, epoch, revoked, cut>>
        /\ status[k].until <= now \/ Evicts
    BY <1>3 DEF StatusGoes, Goes
  <2>2. \A t \in Token : status'[t] = status[t] \/ (t = k /\ status'[t] = NoKey)
    BY <1>3 DEF StatusGoes, TypeInv, TypeOK
  <2>3. IssuedInThePast' /\ EpochMeansCut' /\ (~Evicts => EpochKeyLasts')
    BY <2>1 DEF IssuedInThePast, EpochMeansCut, EpochKeyLasts, Issued
  <2>4. StatusMeansRevoked'
    BY <2>1, <2>2 DEF StatusMeansRevoked, NoKey
  <2>5. ASSUME ~Evicts PROVE RevokedKeyLasts'
    <3> SUFFICES ASSUME NEW t \in revoked
                 PROVE  /\ t[1] \in Issued
                        /\ \/ status'[t].val = "revoked" /\ Exp(t) <= status'[t].until
                           \/ Exp(t) <= now
      BY <2>1 DEF RevokedKeyLasts, Issued, Exp, Iat
    <3>1. t \in Token /\ t[1] \in Issued
      BY <2>5 DEF TypeInv, TypeOK, RevokedKeyLasts
    <3>2. Exp(t) \in Nat /\ status[t].until \in Nat /\ now \in Nat
      BY <3>1, TokenFacts DEF TypeInv, TypeOK
    <3> QED BY <2>1, <2>2, <2>5, <3>1, <3>2 DEF RevokedKeyLasts
  <2> QED BY <2>3, <2>4, <2>5
<1>4. ASSUME NEW k \in Users, EpochGoes(k) PROVE KeyInv'
  <2>1. /\ UNCHANGED <<now, pairs, status, revoked, cut>>
        /\ epoch[k].until <= now \/ Evicts
    BY <1>4 DEF EpochGoes, Goes
  <2>2. \A u \in Users : epoch'[u] = epoch[u] \/ (u = k /\ epoch'[u] = NoEpoch)
    BY <1>4 DEF EpochGoes, TypeInv, TypeOK
  <2>3. IssuedInThePast' /\ StatusMeansRevoked' /\ (~Evicts => RevokedKeyLasts')
    BY <2>1 DEF IssuedInThePast, StatusMeansRevoked, RevokedKeyLasts, Issued, Exp, Iat
  <2>4. EpochMeansCut'
    BY <2>1, <2>2 DEF EpochMeansCut, NoEpoch
  <2>5. ASSUME ~Evicts PROVE EpochKeyLasts'
    <3> SUFFICES ASSUME NEW u \in Users, cut[u] # 0
                 PROVE  \/ epoch'[u].at = cut[u] /\ epoch'[u].until = cut[u] + RefreshTTL
                        \/ cut[u] + RefreshTTL <= now
      BY <2>1 DEF EpochKeyLasts
    <3> QED BY <2>1, <2>2, <2>5 DEF EpochKeyLasts
  <2> QED BY <2>3, <2>4, <2>5
<1>5. ASSUME NEW u \in Users, NEW via \in 0 .. MaxPairs, IssuePair(u, via),
             UNCHANGED <<now, epoch, revoked, cut>>
      PROVE  KeyInv'
  <2> DEFINE new == Len(pairs) + 1
  <2>0. TypeOK /\ now \in Nat
    BY DEF TypeInv, TypeOK
  <2>1. /\ Issued' = Issued \cup {new}
        /\ \A p \in Issued : pairs'[p] = pairs[p]
        /\ pairs'[new] = [sub |-> u, iat |-> now, via |-> via,
                          gone |-> u \notin users]
        /\ new \notin Issued
        /\ \A t \in Token : t[1] # new => status'[t] = status[t]
        /\ \A t \in Token : status'[t].val = "revoked" => status'[t] = status[t]
    BY <1>5, <2>0, IssueFacts
  <2> HIDE DEF new
  <2>2. IssuedInThePast'
    <3>1. pairs'[new].iat = now
      BY <2>1
    <3> QED BY <1>5, <2>0, <2>1, <3>1 DEF IssuedInThePast
  <2>3. StatusMeansRevoked'
    BY <1>5, <2>1 DEF StatusMeansRevoked
  <2>4. EpochMeansCut' /\ (~Evicts => EpochKeyLasts')
    BY <1>5 DEF EpochMeansCut, EpochKeyLasts
  <2>5. ASSUME ~Evicts PROVE RevokedKeyLasts'
    <3> SUFFICES ASSUME NEW t \in revoked
                 PROVE  /\ t[1] \in Issued'
                        /\ \/ status'[t].val = "revoked" /\ Exp(t)' <= status'[t].until
                           \/ Exp(t)' <= now
      BY <1>5 DEF RevokedKeyLasts, Exp, Iat
    <3>1. t \in Token /\ t[1] \in Issued
      BY <2>5 DEF TypeInv, TypeOK, RevokedKeyLasts
    <3>2. status'[t] = status[t] /\ Exp(t)' = Exp(t)
      BY <2>1, <3>1 DEF Exp, Iat
    <3> QED BY <2>1, <2>5, <3>1, <3>2 DEF RevokedKeyLasts
  <2> QED BY <2>2, <2>3, <2>4, <2>5
<1>6. ASSUME NEW k \in Token, k[1] \in Issued, StoreRevoked(k),
             UNCHANGED <<now, pairs, epoch, cut>>
      PROVE  KeyInv'
  <2>0. TypeOK
    BY DEF TypeInv
  <2>1. /\ revoked' = revoked \cup {k}
        /\ status'[k] = [val |-> "revoked", until |-> now + RevokeTTL(k)]
        /\ \A t \in Token : t # k => status'[t] = status[t]
    BY <1>6 DEF StoreRevoked, TypeInv, TypeOK
  <2>2. IssuedInThePast' /\ EpochMeansCut' /\ (~Evicts => EpochKeyLasts')
    BY <1>6 DEF IssuedInThePast, EpochMeansCut, EpochKeyLasts, Issued
  <2>3. StatusMeansRevoked'
    BY <2>1 DEF StatusMeansRevoked
  <2>4. ASSUME ~Evicts PROVE RevokedKeyLasts'
    <3>1. Exp(k) <= status'[k].until /\ status'[k].val = "revoked"
      BY <1>6, <2>0, <2>1, RevokeTTLFacts
    <3>2. \A t \in revoked : t \in Token
      BY DEF TypeInv, TypeOK
    <3> QED BY <1>6, <2>1, <2>4, <3>1, <3>2 DEF RevokedKeyLasts, Issued, Exp, Iat
  <2> QED BY <2>2, <2>3, <2>4
<1>7. ASSUME NEW k \in Users, StoreEpoch(k), UNCHANGED <<now, pairs, status, revoked>>
      PROVE  KeyInv'
  <2>1. /\ epoch'[k] = [at |-> now, until |-> now + RefreshTTL]
        /\ cut'[k] = now
        /\ \A u \in Users : u # k => epoch'[u] = epoch[u] /\ cut'[u] = cut[u]
    BY <1>7 DEF StoreEpoch, TypeInv, TypeOK
  <2>2. IssuedInThePast' /\ StatusMeansRevoked' /\ (~Evicts => RevokedKeyLasts')
    BY <1>7 DEF IssuedInThePast, StatusMeansRevoked, RevokedKeyLasts, Issued, Exp, Iat
  <2>3. EpochMeansCut'
    BY <1>7, <2>1 DEF EpochMeansCut, TypeInv, TypeOK
  <2>4. ASSUME ~Evicts PROVE EpochKeyLasts'
    BY <1>7, <2>1, <2>4 DEF EpochKeyLasts
  <2> QED BY <2>2, <2>3, <2>4
<1> QED BY <1>1, <1>2, <1>3, <1>4, <1>5, <1>6, <1>7 DEF KeyStep

-----------------------------------------------------------------------------
\* What follows from the keys.

\* While its key is due, a revoked token is disowned.
LEMMA RevokedIsDisowned ==
  ASSUME TypeInv, KeyInv, ~Evicts, NEW t \in revoked, now < Exp(t)
  PROVE  StoredRevoked(t)
<1>1. t \in Token /\ t[1] \in Issued
  BY DEF TypeInv, TypeOK, KeyInv, RevokedKeyLasts
<1>2. Exp(t) \in Nat /\ now \in Nat
  BY <1>1, TokenFacts DEF TypeInv, TypeOK
<1> QED BY <1>2 DEF KeyInv, RevokedKeyLasts, StoredRevoked

\* While it has not expired, a token from before the cut is disowned.
LEMMA CutOffIsDisowned ==
  ASSUME TypeInv, KeyInv, ~Evicts,
         NEW t \in Token, t[1] \in Issued, Iat(t) < cut[Sub(t)], now < Exp(t)
  PROVE  BeforeEpoch(t)
<1>1. /\ Sub(t) \in Users /\ Iat(t) \in Nat /\ Exp(t) \in Nat /\ now \in Nat
      /\ Exp(t) <= Iat(t) + RefreshTTL
  BY TokenFacts DEF TypeInv, TypeOK
<1>2. cut[Sub(t)] \in Nat /\ cut[Sub(t)] # 0
  BY <1>1 DEF TypeInv, TypeOK
<1>3. ~(cut[Sub(t)] + RefreshTTL <= now)
  BY <1>1, <1>2, TTLAssumption
<1> QED BY <1>1, <1>2, <1>3 DEF KeyInv, EpochKeyLasts, BeforeEpoch

LEMMA KeyInvInductive == Spec => [](TypeInv /\ KeyInv)
<1>1. Init => TypeInv /\ KeyInv
  BY TypeInvInit, KeyInvInit
<1>2. TypeInv /\ KeyInv /\ [Next]_vars => (TypeInv /\ KeyInv)'
  BY TypeInvStep, NextIsKeyStep, KeyInvStep
<1> QED BY <1>1, <1>2, PTL DEF Spec

\* A revoked token is not accepted again before its expiry.
THEOREM RevokedStaysOutHolds == ~Evicts => (Spec => []RevokedStaysOut)
<1> SUFFICES ASSUME ~Evicts PROVE Spec => []RevokedStaysOut
  OBVIOUS
<1>1. TypeInv /\ KeyInv => RevokedStaysOut
  BY RevokedIsDisowned DEF RevokedStaysOut, Accepted, Disowned
<1> QED BY <1>1, KeyInvInductive, PTL

\* After "log out everywhere" no token of an earlier second is accepted again
\* before its expiry.
THEOREM EpochStaysOutHolds == ~Evicts => (Spec => []EpochStaysOut)
<1> SUFFICES ASSUME ~Evicts PROVE Spec => []EpochStaysOut
  OBVIOUS
<1>1. TypeInv /\ KeyInv => EpochStaysOut
  <2> SUFFICES ASSUME TypeInv, KeyInv, NEW p \in Issued, NEW k \in Kind,
                      Iat(<<p, k>>) < cut[Sub(<<p, k>>)], now < Exp(<<p, k>>)
               PROVE  ~Accepted(<<p, k>>)
    BY DEF EpochStaysOut
  <2>1. <<p, k>> \in Token /\ <<p, k>>[1] \in Issued
    BY IssuedIds, PairTokens DEF TypeInv
  <2>2. BeforeEpoch(<<p, k>>)
    BY <2>1, CutOffIsDisowned
  <2> QED BY <2>2 DEF Accepted, Disowned
<1> QED BY <1>1, KeyInvInductive, PTL

\* A token is turned away as revoked only if it was revoked or cut off, or if
\* Redis does not answer; this holds under memory pressure too.
THEOREM OnlyTheRevokedAreRefusedHolds == Spec => []OnlyTheRevokedAreRefused
<1>1. TypeInv /\ KeyInv => OnlyTheRevokedAreRefused
  <2> SUFFICES ASSUME TypeInv, KeyInv, NEW p \in Issued, NEW k \in Kind,
                      Disowned(<<p, k>>)
               PROVE  <<p, k>> \in revoked \/ Iat(<<p, k>>) < cut[Sub(<<p, k>>)]
    BY DEF OnlyTheRevokedAreRefused, VerifyRevoked
  <2> DEFINE t == <<p, k>>
  <2>1. t \in Token /\ t[1] \in Issued
    BY IssuedIds, PairTokens DEF TypeInv
  <2> HIDE DEF t
  <2>2. Sub(t) \in Users /\ Iat(t) \in Nat
    BY <2>1, TokenFacts DEF TypeInv
  <2>3. epoch[Sub(t)].at \in Nat
    BY <2>2 DEF TypeInv, TypeOK
  <2>4. Disowned(t) => t \in revoked \/ Iat(t) < cut[Sub(t)]
    BY <2>1, <2>2, <2>3
    DEF KeyInv, StatusMeansRevoked, EpochMeansCut, Disowned, StoredRevoked, BeforeEpoch
  <2> QED BY <2>4 DEF t
<1> QED BY <1>1, KeyInvInductive, PTL

-----------------------------------------------------------------------------
\* What a request in flight knows of its token.

\* A log-out that goes on to the access token has put the refresh token out of
\* use, if it was given one.
HalfLoggedOut ==
  \A s \in Slots : req[s].pc = "outAccess" /\ "refresh" \in req[s].given =>
    LET t == <<req[s].tok[1], "refresh">> IN t \in revoked \/ Exp(t) <= now

\* The history only grows, and what is issued stays as it was issued.
LEMMA HistoryGrows ==
  ASSUME TypeInv, KeyInv, KeyStep
  PROVE  /\ revoked \subseteq revoked'
         /\ \A u \in Users : cut[u] <= cut'[u]
         /\ now <= now' /\ now' \in Nat
         /\ Issued \subseteq Issued'
         /\ \A p \in Issued : pairs'[p] = pairs[p]
<1>0. now \in Nat /\ \A u \in Users : cut[u] \in Nat
  BY DEF TypeInv, TypeOK
<1>1. CASE UNCHANGED <<now, pairs, status, epoch, revoked, cut>>
  BY <1>0, <1>1 DEF Issued
<1>2. CASE Tick
  BY <1>0, <1>2 DEF Tick, Issued
<1>3. ASSUME NEW k \in Token, StatusGoes(k) PROVE UNCHANGED <<now, pairs, revoked, cut>>
  BY <1>3 DEF StatusGoes
<1>4. ASSUME NEW k \in Users, EpochGoes(k) PROVE UNCHANGED <<now, pairs, revoked, cut>>
  BY <1>4 DEF EpochGoes
<1>5. ASSUME NEW u \in Users, NEW via \in 0 .. MaxPairs, IssuePair(u, via)
      PROVE  Issued \subseteq Issued' /\ \A p \in Issued : pairs'[p] = pairs[p]
  BY <1>5, IssueFacts DEF TypeInv
<1>6. ASSUME NEW k \in Token, StoreRevoked(k) PROVE revoked \subseteq revoked'
  BY <1>6 DEF StoreRevoked
<1>7. ASSUME NEW k \in Users, StoreEpoch(k) PROVE \A u \in Users : cut[u] <= cut'[u]
  BY <1>0, <1>7 DEF StoreEpoch, KeyInv, EpochMeansCut, TypeInv, TypeOK
<1> QED BY <1>0, <1>1, <1>2, <1>3, <1>4, <1>5, <1>6, <1>7 DEF KeyStep, Issued

\* What the request in slot z can become in a step of the system.
RequestStep(z) ==
  \/ req'[z] = req[z]
  \/ /\ req'[z].pc \in {"idle", "replayed", "cutting", "erasing", "erased"}
     /\ req[z].pc \notin {"outRefresh", "outAccess"}
  \/ \E t \in Token : RefreshStart(z, t)
  \/ RefreshVerify(z)
  \/ RefreshRevoke(z)
  \/ \E p \in Issued, given \in SUBSET Kind : LogoutStart(z, p, given)
  \/ LogoutRefresh(z)
  \/ LogoutAccess(z)

LEMMA NextIsRequestStep ==
  ASSUME TypeInv, [Next]_vars, NEW z \in Slots
  PROVE  RequestStep(z)
<1>0. req \in [Slots -> [pc : Pc, tok : Token, given : SUBSET Kind, dead : BOOLEAN]]
  BY DEF TypeInv, TypeOK
<1>1. CASE UNCHANGED req
  BY <1>1 DEF RequestStep
<1>2. ASSUME NEW s \in Slots, NEW r, req' = [req EXCEPT ![s] = r], s # z
      PROVE  RequestStep(z)
  BY <1>0, <1>2 DEF RequestStep
<1>3. ASSUME NEW s \in Slots, Answer(s), req[s].pc \notin {"outRefresh", "outAccess"}
      PROVE  RequestStep(z)
  BY <1>0, <1>3 DEF RequestStep, Answer, Idle
<1>4. ASSUME NEW s \in Slots, NEW pc, Goto(s, pc), s # z PROVE RequestStep(z)
  BY <1>0, <1>4 DEF RequestStep, Goto
<1>5. ASSUME NEW s \in Slots, Refresh(s) PROVE RequestStep(z)
  <2>1. ASSUME NEW t \in Token, RefreshStart(s, t) PROVE RequestStep(z)
    BY <1>2, <2>1 DEF RefreshStart, RequestStep
  <2>2. CASE RefreshVerify(s)
    <3>1. CASE s = z
      BY <2>2, <3>1 DEF RequestStep
    <3>2. CASE s # z
      BY <1>0, <2>2, <3>2 DEF RefreshVerify, Goto, Answer, RequestStep
    <3> QED BY <3>1, <3>2
  <2>3. CASE RevokeFamily(s)
    BY <1>3, <2>3 DEF RevokeFamily
  <2>4. CASE RefreshRevoke(s)
    <3>1. CASE s = z
      BY <2>4, <3>1 DEF RequestStep
    <3>2. CASE s # z
      BY <1>0, <2>4, <3>2 DEF RefreshRevoke, Goto, Answer, RequestStep
    <3> QED BY <3>1, <3>2
  <2>5. CASE RefreshIssue(s)
    BY <1>3, <2>5 DEF RefreshIssue
  <2> QED BY <1>5, <2>1, <2>2, <2>3, <2>4, <2>5 DEF Refresh
<1>6. ASSUME NEW s \in Slots, Logout(s) PROVE RequestStep(z)
  <2>1. ASSUME NEW p \in Issued, NEW given \in SUBSET Kind, LogoutStart(s, p, given)
        PROVE  RequestStep(z)
    BY <1>2, <2>1 DEF LogoutStart, RequestStep
  <2>2. CASE LogoutRefresh(s) \/ LogoutAccess(s)
    <3>1. CASE s = z
      BY <2>2, <3>1 DEF RequestStep
    <3>2. CASE s # z
      BY <1>0, <2>2, <3>2 DEF LogoutRefresh, LogoutAccess, LogoutRevoke, Answer, RequestStep
    <3> QED BY <3>1, <3>2
  <2>3. ASSUME NEW p \in Issued, NEW given \in SUBSET Kind, LogoutAllStart(s, p, given)
        PROVE  RequestStep(z)
    BY <1>0, <2>3 DEF LogoutAllStart, Free, Idle, RequestStep
  <2>4. CASE LogoutAllCut(s)
    BY <1>3, <2>4 DEF LogoutAllCut, RevokeAllSessions
  <2> QED BY <1>6, <2>1, <2>2, <2>3, <2>4 DEF Logout
<1>7. ASSUME NEW s \in Slots, Delete(s) PROVE RequestStep(z)
  <2>1. ASSUME NEW t \in Token, DeleteStart(s, t) PROVE RequestStep(z)
    BY <1>0, <2>1 DEF DeleteStart, Free, Idle, RequestStep
  <2>2. CASE DeleteCommit(s)
    BY <1>0, <2>2 DEF DeleteCommit, Goto, RequestStep
  <2>3. CASE DeleteCut(s)
    BY <1>3, <2>3 DEF DeleteCut, RevokeAllSessions
  <2> QED BY <1>7, <2>1, <2>2, <2>3 DEF Delete
<1>8. CASE Environment
  BY <1>1, <1>8 DEF Environment, Tick, RedisToggle, StatusGoes, EpochGoes
<1>9. ASSUME NEW u \in Users, Login(u) PROVE RequestStep(z)
  BY <1>1, <1>9 DEF Login
<1> QED BY <1>1, <1>5, <1>6, <1>7, <1>8, <1>9 DEF Next, vars

\* A token that passes the verification is not one that was revoked or cut off.
LEMMA VerifiedIsAlive ==
  ASSUME TypeInv, KeyInv, ~Evicts, NEW t \in Token, VerifyOK(t, "refresh")
  PROVE  ~Dead(t)
<1>1. t[1] \in Issued /\ ~StoredRevoked(t) /\ ~BeforeEpoch(t)
  BY DEF VerifyOK, Decodes, Disowned
<1> QED BY <1>1, RevokedIsDisowned, CutOffIsDisowned DEF Dead

\* The request in slot z keeps out a token that was out of use when verified.
LEMMA InFlightStep ==
  ASSUME TypeInv, KeyInv, ~Evicts, OnlyInFlightEscapes, [Next]_vars
  PROVE  OnlyInFlightEscapes'
<1> SUFFICES ASSUME NEW z \in Slots, req'[z].pc \in {"checked", "verified", "rotated"}
             PROVE  ~req'[z].dead
  BY DEF OnlyInFlightEscapes
<1>0. /\ req \in [Slots -> [pc : Pc, tok : Token, given : SUBSET Kind, dead : BOOLEAN]]
      /\ req[z].pc \in {"checked", "verified", "rotated"} => ~req[z].dead
  BY DEF TypeInv, TypeOK, OnlyInFlightEscapes
<1>1. CASE req'[z] = req[z]
  BY <1>0, <1>1
<1>2. ASSUME NEW t \in Token, RefreshStart(z, t) PROVE ~req'[z].dead
  <2>1. ~Dead(t) /\ req'[z] = [pc |-> "checked", tok |-> t, given |-> {}, dead |-> Dead(t)]
    BY <1>0, <1>2, VerifiedIsAlive DEF RefreshStart, PassesService
  <2> QED BY <2>1
<1>3. CASE RefreshVerify(z)
  <2> DEFINE t == req[z].tok
  <2>1. CASE /\ VerifyOK(t, "refresh")
             /\ req' = [req EXCEPT ![z].pc = "verified", ![z].dead = @ \/ Dead(t)]
    <3>1. t \in Token /\ ~Dead(t)
      BY <1>0, <2>1, VerifiedIsAlive
    <3>2. req'[z].dead = (req[z].dead \/ Dead(t))
      BY <1>0, <2>1
    <3> QED BY <1>0, <1>3, <3>1, <3>2 DEF RefreshVerify
  <2>2. CASE Goto(z, "replayed") \/ Answer(z)
    BY <1>0, <2>2 DEF Goto, Answer, Idle
  <2> QED BY <1>3, <2>1, <2>2 DEF RefreshVerify
<1>4. CASE RefreshRevoke(z)
  BY <1>0, <1>4 DEF RefreshRevoke, Goto, Answer, Idle
<1>5. ASSUME NEW p \in Issued, NEW given \in SUBSET Kind, LogoutStart(z, p, given)
      PROVE  FALSE
  BY <1>0, <1>5 DEF LogoutStart
<1>6. CASE LogoutRefresh(z) \/ LogoutAccess(z)
  BY <1>0, <1>6 DEF LogoutRefresh, LogoutAccess, LogoutRevoke, Answer, Idle
<1> QED BY <1>1, <1>2, <1>3, <1>4, <1>5, <1>6, NextIsRequestStep DEF RequestStep

\* No request gets past a verification with a token that was out of use by then.
THEOREM OnlyInFlightEscapesHolds == ~Evicts => (Spec => []OnlyInFlightEscapes)
<1> SUFFICES ASSUME ~Evicts PROVE Spec => []OnlyInFlightEscapes
  OBVIOUS
<1>1. Init => OnlyInFlightEscapes
  BY DEF Init, OnlyInFlightEscapes, Idle
<1>2. TypeInv /\ KeyInv /\ OnlyInFlightEscapes /\ [Next]_vars => OnlyInFlightEscapes'
  BY InFlightStep
<1> QED BY <1>1, <1>2, KeyInvInductive, PTL DEF Spec

-----------------------------------------------------------------------------
\* Accounts that are gone.

\* Accounts only go, and pairs come from a log-in or from an exchange.
LEMMA AccountsAndPairs ==
  ASSUME TypeInv, [Next]_vars
  PROVE  /\ users' \subseteq users
         /\ \/ UNCHANGED pairs
            \/ \E u \in Users : Login(u)
            \/ \E s \in Slots : RefreshIssue(s)
<1>1. CASE UNCHANGED <<users, pairs>>
  BY <1>1
<1>2. CASE Environment
  BY <1>2 DEF Environment, Tick, RedisToggle, StatusGoes, EpochGoes
<1>3. ASSUME NEW s \in Slots, Refresh(s) PROVE users' = users /\ (UNCHANGED pairs \/ RefreshIssue(s))
  BY <1>3 DEF Refresh, RefreshStart, RefreshVerify, RevokeFamily, RefreshRevoke, RefreshIssue
<1>4. ASSUME NEW s \in Slots, Logout(s) PROVE UNCHANGED <<users, pairs>>
  BY <1>4 DEF Logout, LogoutStart, LogoutRefresh, LogoutAccess, LogoutRevoke, LogoutAllStart,
     LogoutAllCut, RevokeAllSessions
<1>5. ASSUME NEW s \in Slots, Delete(s) PROVE users' \subseteq users /\ UNCHANGED pairs
  BY <1>5 DEF Delete, DeleteStart, DeleteCommit, DeleteCut, RevokeAllSessions
<1>6. ASSUME NEW u \in Users, Login(u) PROVE users' = users
  BY <1>6 DEF Login
<1> QED BY <1>1, <1>2, <1>3, <1>4, <1>5, <1>6 DEF Next, vars

ChainInv == GoneForGood /\ DeletedChainEnds

\* An exchanged pair is older than the one it was exchanged for, and belongs to
\* an account that was there.
LEMMA ChainStep ==
  ASSUME TypeInv, ChainInv, [Next]_vars, TypeInv'
  PROVE  ChainInv'
<1>0. /\ \A p \in Issued : /\ pairs[p].gone => pairs[p].sub \notin users
                           /\ pairs[p].via < p
                           /\ pairs[p].gone /\ pairs[p].via # 0 => ~pairs[pairs[p].via].gone
      /\ \A s \in Slots : req[s].pc \in {"checked", "verified", "rotated"}
                            => ~pairs[req[s].tok[1]].gone
  BY DEF ChainInv, GoneForGood, DeletedChainEnds
<1>1. /\ users' \subseteq users
      /\ Issued \subseteq PairId
      /\ \A p \in Issued : pairs[p].via \in 0 .. MaxPairs
      /\ \A s \in Slots : req[s].pc # "idle" => req[s].tok \in Token /\ req[s].tok[1] \in Issued
  <2>1. ASSUME NEW p \in Issued PROVE pairs[p].via \in 0 .. MaxPairs
    <3>1. pairs[p] \in Pair
      BY DEF Issued, TypeInv, TypeOK
    <3> QED BY <3>1 DEF Pair
  <2>2. \A s \in Slots : req[s].pc # "idle" => req[s].tok \in Token /\ req[s].tok[1] \in Issued
    BY DEF TypeInv, TypeOK, ReqIssued
  <2> QED BY <2>1, <2>2, AccountsAndPairs, IssuedIds DEF TypeInv
\* A pair of an account that was gone is not of one that is still there.
<1>2. ASSUME NEW u \in Users, NEW via \in 0 .. MaxPairs, IssuePair(u, via),
             via # 0 => via \in Issued /\ ~pairs[via].gone
      PROVE  \A p \in Issued' : /\ pairs'[p].gone => pairs'[p].sub \notin users'
                                /\ pairs'[p].via < p
                                /\ pairs'[p].gone /\ pairs'[p].via # 0 => ~pairs'[pairs'[p].via].gone
  <2> DEFINE new == Len(pairs) + 1
  <2>1. /\ Issued' = Issued \cup {new} /\ new \in PairId
        /\ \A p \in Issued : pairs'[p] = pairs[p] /\ p < new
        /\ pairs'[new].sub = u /\ pairs'[new].via = via /\ pairs'[new].gone = (u \notin users)
    <3>1. \A p \in Issued : p < new
      BY DEF Issued, TypeInv, TypeOK
    <3>2. TypeOK
      BY DEF TypeInv
    <3>3. /\ Issued' = Issued \cup {new} /\ new \in PairId
          /\ \A p \in Issued : pairs'[p] = pairs[p]
          /\ pairs'[new] = [sub |-> u, iat |-> now, via |-> via, gone |-> u \notin users]
      BY <1>2, <3>2, IssueFacts
    <3> HIDE DEF new
    <3> QED BY <3>1, <3>3
  <2> HIDE DEF new
  <2>2. \A p \in Issued : p \in Nat /\ pairs[p].via \in Nat
    BY <1>1 DEF Issued
  <2>3. via < new /\ (via # 0 => ~pairs'[via].gone)
    BY <1>2, <2>1 DEF PairId
  <2>4. ASSUME NEW p \in Issued
        PROVE  pairs'[p].gone /\ pairs'[p].via # 0 => ~pairs'[pairs'[p].via].gone
    <3>1. pairs[p].via # 0 => pairs[p].via \in Issued
      <4>1. p <= Len(pairs) /\ Len(pairs) \in Nat
        BY DEF Issued, TypeInv, TypeOK
      <4>2. pairs[p].via # 0 => pairs[p].via \in 1 .. Len(pairs)
        BY <1>0, <2>2, <4>1
      <4> QED BY <4>2 DEF Issued
    <3> QED BY <1>0, <2>1, <3>1
  <2> QED BY <1>0, <1>1, <2>1, <2>3, <2>4
<1>3. /\ \A p \in Issued : Issued \subseteq Issued' /\ pairs'[p] = pairs[p]
      /\ \A p \in Issued' : /\ pairs'[p].gone => pairs'[p].sub \notin users'
                            /\ pairs'[p].via < p
                            /\ pairs'[p].gone /\ pairs'[p].via # 0 => ~pairs'[pairs'[p].via].gone
  <2>1. CASE UNCHANGED pairs
    BY <1>0, <1>1, <2>1 DEF Issued
  <2>2. ASSUME NEW u \in Users, Login(u) PROVE <1>3
    <3>1. IssuePair(u, 0) /\ 0 \in 0 .. MaxPairs
      BY <2>2, BoundAssumption DEF Login
    <3> QED BY <1>2, <3>1, IssueFacts DEF TypeInv
  <2>3. ASSUME NEW s \in Slots, RefreshIssue(s) PROVE <1>3
    <3> DEFINE t == req[s].tok
    <3>1. /\ IssuePair(Sub(t), t[1]) /\ t \in Token /\ t[1] \in Issued /\ ~pairs[t[1]].gone
      BY <1>0, <1>1, <2>3 DEF RefreshIssue
    <3> HIDE DEF t
    <3>2. Sub(t) \in Users /\ t[1] \in 0 .. MaxPairs
      <4>1. t[1] \in PairId /\ TypeOK
        BY <1>1, <3>1 DEF TypeInv
      <4> QED BY <3>1, <4>1, TokenFacts, BoundAssumption DEF PairId
    <3> QED BY <1>2, <3>1, <3>2, IssueFacts DEF TypeInv
  <2> QED BY <2>1, <2>2, <2>3, AccountsAndPairs
<1>4. ASSUME NEW z \in Slots, req'[z].pc \in {"checked", "verified", "rotated"}
      PROVE  ~pairs'[req'[z].tok[1]].gone
  <2>0. req \in [Slots -> [pc : Pc, tok : Token, given : SUBSET Kind, dead : BOOLEAN]]
    BY DEF TypeInv, TypeOK
  <2>1. ASSUME req[z].pc \in {"checked", "verified", "rotated"}, req'[z].tok = req[z].tok
        PROVE  ~pairs'[req'[z].tok[1]].gone
    BY <1>0, <1>1, <1>3, <2>1
  <2>2. CASE req'[z] = req[z]
    BY <1>4, <2>1, <2>2
  <2>3. ASSUME NEW t \in Token, RefreshStart(z, t) PROVE ~pairs'[req'[z].tok[1]].gone
    <3>1. t[1] \in Issued /\ Sub(t) \in users /\ req'[z].tok = t
      BY <2>0, <2>3 DEF RefreshStart, PassesService, VerifyOK, Decodes
    <3> QED BY <1>0, <1>3, <3>1 DEF Sub
  <2>4. CASE RefreshVerify(z)
    <3>1. req[z].pc = "checked" /\ (req'[z].tok = req[z].tok \/ req'[z].pc = "idle")
      BY <2>0, <2>4 DEF RefreshVerify, Goto, Answer, Idle
    <3> QED BY <1>4, <2>1, <3>1
  <2>5. CASE RefreshRevoke(z)
    <3>1. req[z].pc = "verified" /\ (req'[z].tok = req[z].tok \/ req'[z].pc = "idle")
      BY <2>0, <2>5 DEF RefreshRevoke, Goto, Answer, Idle
    <3> QED BY <1>4, <2>1, <3>1
  <2>6. ASSUME NEW p \in Issued, NEW given \in SUBSET Kind, LogoutStart(z, p, given)
        PROVE  FALSE
    BY <1>4, <2>0, <2>6 DEF LogoutStart
  <2>7. CASE LogoutRefresh(z) \/ LogoutAccess(z)
    BY <1>4, <2>0, <2>7 DEF LogoutRefresh, LogoutAccess, LogoutRevoke, Answer, Idle
  <2> QED BY <1>4, <2>2, <2>3, <2>4, <2>5, <2>6, <2>7, NextIsRequestStep DEF RequestStep
<1> QED BY <1>3, <1>4 DEF ChainInv, GoneForGood, DeletedChainEnds

\* No pair that was issued after its account was deleted is ever exchanged.
THEOREM DeletedChainEndsHolds == Spec => []DeletedChainEnds
<1>1. Init => ChainInv
  <2> SUFFICES ASSUME Init PROVE ChainInv
    OBVIOUS
  <2>1. Issued = {}
    BY DEF Init, Issued
  <2> QED BY <2>1 DEF Init, ChainInv, GoneForGood, DeletedChainEnds, Idle
<1>2. TypeInv /\ ChainInv /\ [Next]_vars => ChainInv'
  BY ChainStep, TypeInvStep
<1>3. ChainInv => DeletedChainEnds
  BY DEF ChainInv
<1> QED BY <1>1, <1>2, <1>3, KeyInvInductive, PTL DEF Spec

-----------------------------------------------------------------------------
\* Log-out.

\* The token is out of use for good.
OutOfUse(t) == t \in revoked \/ Exp(t) <= now

LEMMA OutOfUseStays ==
  ASSUME TypeInv, KeyInv, KeyStep, NEW t \in Token, t[1] \in Issued, OutOfUse(t)
  PROVE  OutOfUse(t)'
<1>1. Exp(t)' = Exp(t) /\ Exp(t) \in Nat /\ now \in Nat
  BY HistoryGrows, TokenFacts DEF Exp, Iat, TypeInv, TypeOK
<1> QED BY <1>1, HistoryGrows DEF OutOfUse

\* A step of a log-out revokes the token, finds that it no longer decodes, or
\* fails because of Redis.
LEMMA LogoutRevokes ==
  ASSUME TypeInv, NEW s \in Slots, NEW t \in Token, NEW next, t[1] \in Issued,
         LogoutRevoke(s, t, next)
  PROVE  \/ OutOfUse(t)' /\ req' = [req EXCEPT ![s] = next]
         \/ ~redisUp /\ Answer(s)
<1>1. now' = now /\ Exp(t)' = Exp(t) /\ Exp(t) \in Nat /\ now \in Nat
  BY TokenFacts DEF LogoutRevoke, Exp, Iat, TypeInv, TypeOK
<1>2. CASE Decodes(t) /\ redisUp
  BY <1>2 DEF LogoutRevoke, StoreRevoked, OutOfUse
<1>3. CASE Decodes(t) /\ ~redisUp
  BY <1>3 DEF LogoutRevoke
<1>4. CASE ~Decodes(t)
  <2>1. Exp(t) + Leeway <= now
    BY <1>1, <1>4, TTLAssumption DEF Decodes
  <2>2. Exp(t) <= now
    BY <1>1, <2>1, TTLAssumption
  <2> QED BY <1>1, <1>4, <2>2 DEF LogoutRevoke, OutOfUse
<1> QED BY <1>2, <1>3, <1>4

LEMMA HalfStep ==
  ASSUME TypeInv, KeyInv, HalfLoggedOut, [Next]_vars
  PROVE  HalfLoggedOut'
<1> SUFFICES ASSUME NEW z \in Slots, req'[z].pc = "outAccess", "refresh" \in req'[z].given,
                    NEW t, t = <<req'[z].tok[1], "refresh">>
             PROVE  OutOfUse(t)'
  BY Zenon DEF HalfLoggedOut, OutOfUse
<1>0. req \in [Slots -> [pc : Pc, tok : Token, given : SUBSET Kind, dead : BOOLEAN]]
  BY DEF TypeInv, TypeOK
\* The token has been issued.
<1> DEFINE Of(r) == t = <<r.tok[1], "refresh">> /\ t \in Token /\ t[1] \in Issued
<1>u. req[z].pc # "idle" /\ req'[z].tok = req[z].tok => Of(req[z])
  <2> SUFFICES ASSUME req[z].tok[1] \in Issued, t = <<req[z].tok[1], "refresh">> PROVE Of(req[z])
    BY DEF TypeInv, ReqIssued
  <2>1. \A p \in Issued : <<p, "refresh">> \in Token /\ <<p, "refresh">>[1] \in Issued
    BY IssuedIds, PairTokens DEF TypeInv, Kind
  <2> QED BY <2>1
<1>1. CASE req'[z] = req[z]
  <2>1. Of(req[z])
    BY <1>1, <1>u
  <2>2. OutOfUse(t)
    BY <1>1, <2>1 DEF HalfLoggedOut, OutOfUse
  <2> QED BY <2>1, <2>2, NextIsKeyStep, OutOfUseStays
<1>2. CASE LogoutRefresh(z)
  <2>1. PICK next : /\ req[z].pc = "outRefresh" /\ LogoutRevoke(z, <<req[z].tok[1], "refresh">>, next)
                    /\ next.pc = "outAccess" => next.tok = req[z].tok
    <3> DEFINE next == IF "access" \in req[z].given
                         THEN [req[z] EXCEPT !.pc = "outAccess"] ELSE Idle
    <3>1. next.pc = "outAccess" => next.tok = req[z].tok
      BY <1>0 DEF Idle
    <3>2. req[z].pc = "outRefresh" /\ LogoutRevoke(z, <<req[z].tok[1], "refresh">>, next)
      BY <1>2 DEF LogoutRefresh
    <3> HIDE DEF next
    <3> QED BY <3>1, <3>2
  <2>2. req' = [req EXCEPT ![z] = next]
    <3>1. req' = [req EXCEPT ![z] = next] \/ Answer(z)
      BY <2>1 DEF LogoutRevoke
    <3> QED BY <1>0, <3>1 DEF Answer, Idle
  <2>3. req'[z] = next /\ req'[z].tok = req[z].tok
    BY <1>0, <2>1, <2>2
  <2>4. Of(req[z]) /\ LogoutRevoke(z, t, next) /\ ~(Answer(z))
    BY <1>0, <1>u, <2>1, <2>3 DEF Answer, Idle
  <2> QED BY <2>4, LogoutRevokes
<1>3. ASSUME NEW x \in Token, RefreshStart(z, x) PROVE FALSE
  BY <1>0, <1>3 DEF RefreshStart
<1>4. CASE RefreshVerify(z) \/ RefreshRevoke(z)
  BY <1>0, <1>4 DEF RefreshVerify, RefreshRevoke, Goto, Answer, Idle
<1>5. ASSUME NEW p \in Issued, NEW given \in SUBSET Kind, LogoutStart(z, p, given)
      PROVE  FALSE
  BY <1>0, <1>5 DEF LogoutStart
<1>6. CASE LogoutAccess(z)
  BY <1>0, <1>6 DEF LogoutAccess, LogoutRevoke, Answer, Idle
<1> QED BY <1>1, <1>2, <1>3, <1>4, <1>5, <1>6, NextIsRequestStep DEF RequestStep

\* The last step of a log-out leaves none of its tokens in use.
LEMMA LogoutPutsOut ==
  ASSUME TypeInv, KeyInv, HalfLoggedOut, [Next]_vars, NEW z \in Slots,
         req[z].pc \in {"outRefresh", "outAccess"}, req'[z].pc = "idle", redisUp,
         NEW k \in req[z].given, NEW t, t = <<req[z].tok[1], k>>
  PROVE  OutOfUse(t)' /\ t \in Token /\ t[1] \in Issued
<1>0. /\ req \in [Slots -> [pc : Pc, tok : Token, given : SUBSET Kind, dead : BOOLEAN]]
      /\ req[z].tok[1] \in Issued /\ k \in Kind
  BY DEF TypeInv, TypeOK, ReqIssued
<1>t. t \in Token /\ t[1] \in Issued
  <2> SUFFICES ASSUME NEW p \in Issued, t = <<p, k>> PROVE t \in Token /\ t[1] \in Issued
    BY <1>0
  <2> QED BY <1>0, IssuedIds, PairTokens DEF TypeInv
<1>1. LogoutRefresh(z) \/ LogoutAccess(z)
  BY <1>0, NextIsRequestStep
  DEF RequestStep, RefreshStart, RefreshVerify, RefreshRevoke, LogoutStart, Free
<1>2. CASE LogoutRefresh(z)
  <2>1. PICK next : /\ LogoutRevoke(z, <<req[z].tok[1], "refresh">>, next)
                    /\ next.pc = "idle" => k = "refresh"
    <3> DEFINE next == IF "access" \in req[z].given
                         THEN [req[z] EXCEPT !.pc = "outAccess"] ELSE Idle
    <3>1. next.pc = "idle" => k = "refresh"
      BY <1>0 DEF Kind
    <3>2. LogoutRevoke(z, <<req[z].tok[1], "refresh">>, next)
      BY <1>2 DEF LogoutRefresh
    <3> HIDE DEF next
    <3> QED BY <3>1, <3>2
  <2>2. req' = [req EXCEPT ![z] = next]
    BY <2>1 DEF LogoutRevoke
  <2>3. req'[z] = next
    BY <1>0, <2>2
  <2>4. LogoutRevoke(z, t, next)
    BY <2>1, <2>3
  <2> QED BY <1>t, <2>4, LogoutRevokes
<1>3. CASE LogoutAccess(z)
  <2>1. req[z].pc = "outAccess" /\ LogoutRevoke(z, <<req[z].tok[1], "access">>, Idle)
    BY <1>3 DEF LogoutAccess
  <2>2. CASE k = "refresh"
    <3>1. OutOfUse(t)
      BY <2>1, <2>2 DEF HalfLoggedOut, OutOfUse
    <3> QED BY <1>t, <3>1, NextIsKeyStep, OutOfUseStays
  <2>3. CASE k = "access"
    BY <1>t, <2>1, <2>3, LogoutRevokes
  <2> QED BY <1>0, <2>2, <2>3, <1>t DEF Kind
<1> QED BY <1>1, <1>2, <1>3

\* A token that is out of use is not accepted before its expiry.
LEMMA OutOfUseIsRefused ==
  TypeInv /\ KeyInv /\ ~Evicts =>
    \A t \in Token : OutOfUse(t) /\ now < Exp(t) /\ t[1] \in Issued => ~Accepted(t)
<1> SUFFICES ASSUME TypeInv, KeyInv, ~Evicts, NEW t \in Token,
                    OutOfUse(t), now < Exp(t), t[1] \in Issued
             PROVE  ~Accepted(t)
  OBVIOUS
<1>1. Exp(t) \in Nat /\ now \in Nat
  BY TokenFacts DEF TypeInv, TypeOK
<1>2. t \in revoked
  BY <1>1 DEF OutOfUse
<1> QED BY <1>2, RevokedIsDisowned DEF Accepted, Disowned

\* A log-out answered ok has put every token it was given out of use.
THEOREM LogoutEndsHolds == ~Evicts => (Spec => LogoutEnds)
<1> SUFFICES ASSUME ~Evicts PROVE Spec => LogoutEnds
  OBVIOUS
<1> DEFINE Refused == \A t \in Token : OutOfUse(t) /\ now < Exp(t) /\ t[1] \in Issued
                                          => ~Accepted(t)
           Ends == \A s \in Slots :
             req[s].pc \in {"outRefresh", "outAccess"} /\ req'[s].pc = "idle" /\ redisUp =>
               \A t \in {req[s].tok[1]} \X req[s].given : now' < Exp(t) => ~Accepted(t)'
<1>1. Init => HalfLoggedOut
  BY DEF Init, HalfLoggedOut, Idle
<1>2. TypeInv /\ KeyInv /\ HalfLoggedOut /\ [Next]_vars => HalfLoggedOut'
  BY HalfStep
<1>3. TypeInv /\ KeyInv => Refused
  BY OutOfUseIsRefused
<1>4. ASSUME TypeInv, KeyInv, HalfLoggedOut, [Next]_vars, Refused'
      PROVE  Ends
  <2> SUFFICES ASSUME NEW s \in Slots, req[s].pc \in {"outRefresh", "outAccess"},
                      req'[s].pc = "idle", redisUp, NEW t \in {req[s].tok[1]} \X req[s].given,
                      now' < Exp(t)
               PROVE  ~Accepted(t)'
    BY Zenon
  <2>1. PICK k \in req[s].given : t = <<req[s].tok[1], k>>
    OBVIOUS
  <2>2. OutOfUse(t)' /\ t \in Token /\ t[1] \in Issued
    BY <1>4, <2>1, LogoutPutsOut
  <2>3. t[1] \in Issued' /\ Exp(t)' = Exp(t)
    BY <1>4, <2>2, NextIsKeyStep, HistoryGrows DEF Exp, Iat
  <2> QED BY <1>4, <2>2, <2>3
<1>5. TypeInv /\ KeyInv /\ HalfLoggedOut /\ [Next]_vars /\ Refused' => [Ends]_vars
  BY <1>4
<1> QED BY <1>1, <1>2, <1>3, <1>5, KeyInvInductive, PTL DEF Spec, LogoutEnds

-----------------------------------------------------------------------------
\* The promise of TokenLife.

IssuedTokens == {t \in Token : t[1] \in Issued}

\* The tokens that nobody has revoked, that no cut has met and that have not
\* expired: what the server would say of a token with a perfect memory.
Living == {t \in IssuedTokens : /\ now < Exp(t)
                                /\ t \notin revoked
                                /\ ~(Iat(t) < cut[Sub(t)])}

Valid == {t \in Token : t[1] \in Issued /\ now < Exp(t) /\ ~Disowned(t)}

\* Redis remembers what it needs to: as long as a token has not expired, its keys
\* tell whether it was revoked or cut off.
LEMMA RedisRemembers == TypeInv /\ KeyInv /\ ~Evicts => Valid = Living
<1> SUFFICES ASSUME TypeInv, KeyInv, ~Evicts, NEW t \in Token, t[1] \in Issued, now < Exp(t)
             PROVE  Disowned(t) <=> t \in revoked \/ Iat(t) < cut[Sub(t)]
  BY DEF Valid, Living, IssuedTokens
<1>1. Sub(t) \in Users /\ Iat(t) \in Nat /\ epoch[Sub(t)].at \in Nat
  <2>1. Sub(t) \in Users /\ Iat(t) \in Nat
    BY TokenFacts DEF TypeInv
  <2> QED BY <2>1 DEF TypeInv, TypeOK
<1>2. Disowned(t) => t \in revoked \/ Iat(t) < cut[Sub(t)]
  BY <1>1 DEF KeyInv, StatusMeansRevoked, EpochMeansCut, Disowned, StoredRevoked, BeforeEpoch
<1> QED BY <1>2, RevokedIsDisowned, CutOffIsDisowned DEF Disowned

\* Tokens are born alive, and the dead stay dead.
LEMMA LivingStep ==
  ASSUME TypeInv, KeyInv, ~Evicts, KeyStep
  PROVE  \/ IssuedTokens' = IssuedTokens /\ Living' \subseteq Living
         \/ \E new \in SUBSET (Token \ IssuedTokens) :
              /\ new # {}
              /\ IssuedTokens' = IssuedTokens \cup new
              /\ Living' = Living \cup new
<1>0. /\ now \in Nat /\ \A u \in Users : cut[u] \in Nat /\ cut[u] <= now
      /\ \A t \in Token : t[1] \in Issued => Sub(t) \in Users /\ Iat(t) \in Nat /\ Exp(t) \in Nat
      /\ \A t \in revoked : t \in Token /\ t[1] \in Issued
  BY TokenFacts DEF TypeInv, TypeOK, KeyInv, EpochMeansCut, RevokedKeyLasts
\* Steps that issue nothing only move what counts against a token.
<1>1. ASSUME UNCHANGED pairs
      PROVE  IssuedTokens' = IssuedTokens /\ Living' \subseteq Living
  <2>1. IssuedTokens' = IssuedTokens
    BY <1>1 DEF IssuedTokens, Issued
  <2>2. ASSUME NEW t \in Living' PROVE t \in Living
    <3>1. t \in IssuedTokens /\ t \in Token /\ t[1] \in Issued
      BY <2>1, <2>2 DEF Living, IssuedTokens
    <3>2. Exp(t)' = Exp(t) /\ Iat(t)' = Iat(t) /\ Sub(t)' = Sub(t)
      BY <1>1 DEF Exp, Iat, Sub
    <3>3. now' < Exp(t) /\ t \notin revoked' /\ ~(Iat(t) < cut'[Sub(t)])
      BY <2>2, <3>2 DEF Living
    <3>4. now <= now' /\ now' \in Nat /\ revoked \subseteq revoked' /\ cut[Sub(t)] <= cut'[Sub(t)]
      BY <1>0, <3>1, HistoryGrows
    <3>5. cut'[Sub(t)] \in Nat
      <4>1. cut' = cut \/ \E u \in Users : cut' = [cut EXCEPT ![u] = now]
        BY DEF KeyStep, Tick, StatusGoes, EpochGoes, StoreEpoch
      <4> QED BY <1>0, <3>1, <4>1 DEF TypeInv, TypeOK
    <3>6. now < Exp(t)
      BY <1>0, <3>1, <3>3, <3>4
    <3>7. ~(Iat(t) < cut[Sub(t)])
      BY <1>0, <3>1, <3>3, <3>4, <3>5
    <3> QED BY <3>1, <3>3, <3>4, <3>6, <3>7 DEF Living
  <2> QED BY <2>1, <2>2
<1>2. ASSUME NEW u \in Users, NEW via \in 0 .. MaxPairs, IssuePair(u, via),
             UNCHANGED <<now, epoch, revoked, cut>>
      PROVE  \E new \in SUBSET (Token \ IssuedTokens) :
               /\ new # {}
               /\ IssuedTokens' = IssuedTokens \cup new
               /\ Living' = Living \cup new
  <2> DEFINE n == Len(pairs) + 1
             new == {<<n, k>> : k \in Kind}
  <2>1. /\ n \in PairId /\ n \notin Issued /\ Issued' = Issued \cup {n}
        /\ \A p \in Issued : pairs'[p] = pairs[p]
        /\ pairs'[n] = [sub |-> u, iat |-> now, via |-> via, gone |-> u \notin users]
    BY <1>2, IssueFacts DEF TypeInv
  <2> HIDE DEF n
  <2>2. \A t \in Token : t[1] = n <=> t \in new
    BY DEF Token
  <2>3. new \subseteq Token
    BY <2>1 DEF Token
  <2>4. new \subseteq Token \ IssuedTokens /\ IssuedTokens' = IssuedTokens \cup new
    BY <2>1, <2>2, <2>3 DEF IssuedTokens
  <2>5. new # {}
    BY DEF Kind
  <2> HIDE DEF new
  <2>6. ASSUME NEW t \in IssuedTokens PROVE t \in Living' <=> t \in Living
    <3>1. Exp(t)' = Exp(t) /\ Iat(t)' = Iat(t) /\ Sub(t)' = Sub(t)
      BY <2>1 DEF Exp, Iat, Sub, IssuedTokens
    <3> QED BY <1>2, <2>4, <3>1 DEF Living
  <2>7. ASSUME NEW t \in new PROVE t \in Living'
    <3>1. t \in Token /\ t[1] = n
      BY <2>2, <2>3
    <3>2. Iat(t)' = now /\ Sub(t)' = u /\ Exp(t)' = now + TTL(t[2])
      BY <2>1, <3>1 DEF Iat, Sub, Exp
    <3>3. TTL(t[2]) \in Nat /\ 0 < TTL(t[2])
      BY TTLAssumption DEF TTL
    <3>4. now' < Exp(t)' /\ ~(Iat(t)' < cut'[Sub(t)'])
      BY <1>0, <1>2, <3>2, <3>3
    <3>5. t \notin revoked'
      BY <1>0, <1>2, <2>1, <3>1
    <3> QED BY <2>4, <3>4, <3>5 DEF Living
  <2>8. Living' = Living \cup new
    BY <2>4, <2>6, <2>7 DEF Living
  <2> QED BY <2>4, <2>5, <2>8
<1>3. UNCHANGED pairs \/ \E u \in Users, via \in 0 .. MaxPairs :
        IssuePair(u, via) /\ UNCHANGED <<now, epoch, revoked, cut>>
  BY DEF KeyStep, Tick, StatusGoes, EpochGoes
<1> QED BY <1>1, <1>2, <1>3

\* The tokens keep the promise of TokenLife: good from their issue on, and never
\* again once they have stopped being good.
THEOREM SessionsRefineTokenLife == ~Evicts => (Spec => RefinesTokenLife)
<1> SUFFICES ASSUME ~Evicts PROVE Spec => RefinesTokenLife
  OBVIOUS
<1>1. Init => TL!Init
  <2> SUFFICES ASSUME Init PROVE TL!Init
    OBVIOUS
  <2>1. Issued = {}
    BY DEF Init, Issued
  <2> QED BY <2>1 DEF TL!Init
<1>2. TypeInv /\ KeyInv => Valid = Living
  BY RedisRemembers
<1>3. ASSUME TypeInv, KeyInv, [Next]_vars, Valid = Living, Valid' = Living'
      PROVE  [TL!Next]_(TL!vars)
  <2>1. KeyStep
    BY <1>3, NextIsKeyStep
  <2>2. CASE IssuedTokens' = IssuedTokens /\ Living' \subseteq Living
    BY <1>3, <2>2 DEF TL!Next, TL!Kill, Valid, IssuedTokens
  <2>3. ASSUME NEW new \in SUBSET (Token \ IssuedTokens), new # {},
               IssuedTokens' = IssuedTokens \cup new, Living' = Living \cup new
        PROVE  TL!Issue
    BY <1>3, <2>3 DEF TL!Issue, Valid, IssuedTokens
  <2> QED BY <1>3, <2>1, <2>2, <2>3, LivingStep DEF TL!Next
<1>4. TypeInv /\ KeyInv /\ [Next]_vars /\ Valid = Living /\ (Valid = Living)'
        => [TL!Next]_(TL!vars)
  BY <1>3
<1> QED BY <1>1, <1>2, <1>4, KeyInvInductive, PTL DEF Spec, RefinesTokenLife, TL!Spec
=============================================================================
