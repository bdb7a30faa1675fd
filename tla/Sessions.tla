------------------------------ MODULE Sessions ------------------------------
(***************************************************************************)
(* The server's session tokens: src/jwt_auth/jwt_service.py (JWTManager)   *)
(* with the requests of src/auth/service.py and src/auth/router.py that    *)
(* use it.                                                                 *)
(*                                                                         *)
(* A pair is an access and a refresh token issued in one second by one     *)
(* call.  The tokens themselves are signed and kept by the clients; the    *)
(* server's only memory of them is in Redis: a status key per token and an *)
(* epoch key per user, both with an expiry.  A request is a record with a  *)
(* program counter, and every await on Redis or on the database at which   *)
(* another request may run separates two actions.  The two GETs of         *)
(* verify_token are one step: revocations and epochs only accumulate, so   *)
(* whatever the two reads can report, one of the two instants reports.     *)
(***************************************************************************)
EXTENDS Naturals, Sequences

CONSTANTS Users, Slots,              \* accounts; request handlers in flight
          AccessTTL, RefreshTTL,     \* JWT_ACCESS_TTL, JWT_REFRESH_TTL
          Leeway,                    \* leeway of JWTManager, in seconds
          Evicts,                    \* Redis is short of memory (allkeys-lru)
          Requests,                  \* the kinds of request the clients make
          MaxTime, MaxPairs          \* bounds of the clock and of issuing

ASSUME TTLAssumption == /\ AccessTTL \in Nat \ {0}
                        /\ RefreshTTL \in Nat
                        /\ AccessTTL <= RefreshTTL
                        /\ Leeway \in Nat
ASSUME EvictsAssumption == Evicts \in BOOLEAN
ASSUME BoundAssumption == MaxTime \in Nat /\ MaxPairs \in Nat \ {0}

VARIABLES now,        \* int(time.time())
          redisUp,    \* Redis answers
          users,      \* accounts that exist in the database
          pairs,      \* the token pairs issued, in order
          status,     \* Redis: {access,refresh}_token:<jti>
          epoch,      \* Redis: user_epoch:<sub>
          req,        \* the requests in flight
          revoked,    \* history: tokens a REVOKED status was written for
          cut         \* history: second of the user's last epoch, 0 if none

vars == <<now, redisUp, users, pairs, status, epoch, req, revoked, cut>>

Kind == {"access", "refresh"}
PairId == 1 .. MaxPairs
Token == PairId \X Kind

\* A Redis key that is absent, or was set with ex= : it exists through the
\* second before "until", and disappears some time during that second.
NoKey == [val |-> "none", until |-> 0]
NoEpoch == [at |-> 0, until |-> 0]

Pair == [sub : Users, iat : Nat,
         via : 0 .. MaxPairs,        \* the pair it was exchanged for, 0 at login
         gone : BOOLEAN]             \* history: account already deleted

Idle == [pc |-> "idle", tok |-> <<1, "refresh">>, given |-> {},
         dead |-> FALSE]

Pc == {"idle", "checked", "verified", "rotated", "replayed",
       "outRefresh", "outAccess", "cutting", "erasing", "erased"}

TypeOK ==
  /\ now \in Nat
  /\ redisUp \in BOOLEAN
  /\ users \subseteq Users
  /\ pairs \in Seq(Pair) /\ Len(pairs) <= MaxPairs
  /\ status \in [Token -> [val : {"none", "active", "revoked"}, until : Nat]]
  /\ epoch \in [Users -> [at : Nat, until : Nat]]
  /\ req \in [Slots -> [pc : Pc, tok : Token, given : SUBSET Kind,
                        dead : BOOLEAN]]             \* history: see Dead
  /\ revoked \subseteq Token
  /\ cut \in [Users -> Nat]

Init ==
  /\ now = 1
  /\ redisUp = TRUE
  /\ users = Users
  /\ pairs = <<>>
  /\ status = [t \in Token |-> NoKey]
  /\ epoch = [u \in Users |-> NoEpoch]
  /\ req = [s \in Slots |-> Idle]
  /\ revoked = {}
  /\ cut = [u \in Users |-> 0]

-----------------------------------------------------------------------------
\* What a token says, and what verify_token makes of it.

TTL(k) == IF k = "access" THEN AccessTTL ELSE RefreshTTL
Issued == 1 .. Len(pairs)
Sub(t) == pairs[t[1]].sub
Iat(t) == pairs[t[1]].iat
Exp(t) == Iat(t) + TTL(t[2])

\* _decode: signature and expiry, with the leeway PyJWT is given.
Decodes(t) == t[1] \in Issued /\ now < Exp(t) + Leeway

\* The state in Redis says the token no longer counts.
StoredRevoked(t) == status[t].val = "revoked"
\* Fault: the second of the cut is cut off with the seconds before it.
BeforeEpochInclusive(t) == Iat(t) <= epoch[Sub(t)].at

\* The token is of a second before the user's epoch.
BeforeEpoch(t) == Iat(t) < epoch[Sub(t)].at
Disowned(t) == StoredRevoked(t) \/ BeforeEpoch(t)

\* Fault: without Redis the signature is trusted (the code once did).
VerifyFailOpen(t, k) == Decodes(t) /\ t[2] = k /\ (redisUp => ~Disowned(t))

\* verify_token returns the payload.
VerifyOK(t, k) == Decodes(t) /\ t[2] = k /\ redisUp /\ ~Disowned(t)

\* verify_token raises TokenRevokedError: disowned, or Redis cannot be asked.
VerifyRevoked(t, k) == Decodes(t) /\ t[2] = k /\ (Disowned(t) \/ ~redisUp)

\* History: t was revoked or cut off, and has not reached its expiry.
Dead(t) == now < Exp(t) /\ (t \in revoked \/ Iat(t) < cut[Sub(t)])

\* Fault: the key of a revoked token lives as long as an access token.
RevokeTTLAccess(t) == AccessTTL

\* max(exp - now, 1)
RevokeTTL(t) == IF Exp(t) > now THEN Exp(t) - now ELSE 1

-----------------------------------------------------------------------------
\* Writes to Redis.

\* Fault: the key is gone a second before the token is.
StoreRevokedShort(t) ==
  /\ status' = [status EXCEPT ![t] = [val |-> "revoked",
                                      until |-> now + RevokeTTL(t) - 1]]
  /\ revoked' = revoked \cup {t}

\* revoke_token once the token has been decoded: SET status REVOKED EX ttl.
StoreRevoked(t) ==
  /\ status' = [status EXCEPT ![t] = [val |-> "revoked",
                                      until |-> now + RevokeTTL(t)]]
  /\ revoked' = revoked \cup {t}

\* Fault: the epoch is kept for as long as an access token.
StoreEpochShort(u) ==
  /\ epoch' = [epoch EXCEPT ![u] = [at |-> now, until |-> now + AccessTTL]]
  /\ cut' = [cut EXCEPT ![u] = now]

\* revoke_all_for_user: SET user_epoch now EX refresh_ttl.
StoreEpoch(u) ==
  /\ epoch' = [epoch EXCEPT ![u] = [at |-> now, until |-> now + RefreshTTL]]
  /\ cut' = [cut EXCEPT ![u] = now]

\* create_token twice: the access token leaves no trace on the server, the
\* refresh token is stored ACTIVE if Redis answers.
IssuePair(u, via) ==
  /\ Len(pairs) < MaxPairs
  /\ pairs' = Append(pairs, [sub |-> u, iat |-> now, via |-> via,
                             gone |-> u \notin users])
  /\ status' = IF redisUp
                 THEN [status EXCEPT ![<<Len(pairs) + 1, "refresh">>] =
                         [val |-> "active", until |-> now + RefreshTTL]]
                 ELSE status

-----------------------------------------------------------------------------
\* The environment: the clock, Redis going away and coming back, keys going.

Purge(key, none, t) == IF key.until < t THEN none ELSE key

Tick ==
  /\ now < MaxTime
  /\ now' = now + 1
  /\ status' = [t \in Token |-> Purge(status[t], NoKey, now + 1)]
  /\ epoch' = [u \in Users |-> Purge(epoch[u], NoEpoch, now + 1)]
  /\ UNCHANGED <<redisUp, users, pairs, req, revoked, cut>>

RedisToggle ==
  /\ redisUp' = ~redisUp
  /\ UNCHANGED <<now, users, pairs, status, epoch, req, revoked, cut>>

\* A key goes when its time is up, or, under memory pressure, at any time.
Goes(key) == key.until <= now \/ Evicts

StatusGoes(t) ==
  /\ status[t].val # "none" /\ Goes(status[t])
  /\ status' = [status EXCEPT ![t] = NoKey]
  /\ UNCHANGED <<now, redisUp, users, pairs, epoch, req, revoked, cut>>

EpochGoes(u) ==
  /\ epoch[u].at # 0 /\ Goes(epoch[u])
  /\ epoch' = [epoch EXCEPT ![u] = NoEpoch]
  /\ UNCHANGED <<now, redisUp, users, pairs, status, req, revoked, cut>>

-----------------------------------------------------------------------------
\* Requests.

\* A handler is free before its first request and once it has answered.
Free(s) == req[s].pc = "idle"

\* The request in slot s moves on, or is answered (whatever the answer).
Goto(s, pc) == req' = [req EXCEPT ![s].pc = pc]
Answer(s) == req' = [req EXCEPT ![s] = Idle]

\* POST /auth/login with the right password.  The DELETE of the failure
\* counter is not guarded, so without Redis the login fails.
Login(u) ==
  /\ u \in users /\ redisUp
  /\ IssuePair(u, 0)
  /\ UNCHANGED <<now, redisUp, users, epoch, req, revoked, cut>>

\* Fault: the service does not look the user up.
PassesServiceBlindly(t) == VerifyOK(t, "refresh")

\* AuthService.refresh_access_token passes the token on to the manager: it
\* verifies, and the user exists.
PassesService(t) == VerifyOK(t, "refresh") /\ Sub(t) \in users

\* POST /auth/refresh.  A token the service does not pass on is answered 401,
\* and nothing is written.
RefreshStart(s, t) ==
  /\ Free(s)
  /\ PassesService(t)
  /\ req' = [req EXCEPT ![s] = [pc |-> "checked", tok |-> t, given |-> {},
                                dead |-> Dead(t)]]
  /\ UNCHANGED <<now, redisUp, users, pairs, status, epoch, revoked, cut>>

\* JWTManager.refresh_access_token verifies again; a revoked token (or a
\* silent Redis) leads to the revocation of the whole family.
RefreshVerify(s) ==
  /\ req[s].pc = "checked"
  /\ LET t == req[s].tok IN
       \/ /\ VerifyOK(t, "refresh")
          /\ req' = [req EXCEPT ![s].pc = "verified",
                               ![s].dead = @ \/ Dead(t)]
       \/ VerifyRevoked(t, "refresh") /\ Goto(s, "replayed")
       \/ ~Decodes(t) /\ Answer(s)
  /\ UNCHANGED <<now, redisUp, users, pairs, status, epoch, revoked, cut>>

\* _revoke_family_after_reuse: an error of Redis is logged and swallowed.
RevokeFamily(s) ==
  /\ req[s].pc = "replayed"
  /\ Answer(s)
  /\ IF redisUp THEN StoreEpoch(Sub(req[s].tok)) ELSE UNCHANGED <<epoch, cut>>
  /\ UNCHANGED <<now, redisUp, users, pairs, status, revoked>>

\* The old refresh token is revoked; if it has just run out, or Redis does
\* not answer, the request fails with nothing issued.
RefreshRevoke(s) ==
  /\ req[s].pc = "verified"
  /\ IF Decodes(req[s].tok) /\ redisUp
       THEN Goto(s, "rotated") /\ StoreRevoked(req[s].tok)
       ELSE Answer(s) /\ UNCHANGED <<status, revoked>>
  /\ UNCHANGED <<now, redisUp, users, pairs, epoch, cut>>

\* The new pair; neither the user nor the epoch is looked at again.
RefreshIssue(s) ==
  /\ req[s].pc = "rotated"
  /\ IssuePair(Sub(req[s].tok), req[s].tok[1])
  /\ Answer(s)
  /\ UNCHANGED <<now, redisUp, users, epoch, revoked, cut>>

\* POST /auth/logout with the tokens of pair p the client still has.
LogoutStart(s, p, given) ==
  /\ Free(s)
  /\ req' = [req EXCEPT ![s] =
       [pc |-> IF "refresh" \in given THEN "outRefresh" ELSE "outAccess",
        tok |-> <<p, "refresh">>, given |-> given, dead |-> FALSE]]
  /\ UNCHANGED <<now, redisUp, users, pairs, status, epoch, revoked, cut>>

\* AuthService.revoke_token: a token that no longer decodes is passed over,
\* an error of Redis fails the request before the next token.
LogoutRevoke(s, t, next) ==
  /\ IF Decodes(t) /\ ~redisUp THEN Answer(s)
                              ELSE req' = [req EXCEPT ![s] = next]
  /\ IF Decodes(t) /\ redisUp
       THEN StoreRevoked(t)
       ELSE UNCHANGED <<status, revoked>>
  /\ UNCHANGED <<now, redisUp, users, pairs, epoch, cut>>

\* Fault: log-out ends with the refresh token, the access token lives on.
LogoutRefreshOnly(s) ==
  /\ req[s].pc = "outRefresh"
  /\ LogoutRevoke(s, <<req[s].tok[1], "refresh">>, Idle)

\* Fault: the handler loses its place between the two tokens.
LogoutRefreshLost(s) ==
  /\ req[s].pc = "outRefresh"
  /\ LogoutRevoke(s, <<req[s].tok[1], "refresh">>,
                  [req[s] EXCEPT !.pc = "out"])

\* The refresh token first, then the access token if the client still has it.
LogoutRefresh(s) ==
  /\ req[s].pc = "outRefresh"
  /\ LogoutRevoke(s, <<req[s].tok[1], "refresh">>,
                  IF "access" \in req[s].given
                    THEN [req[s] EXCEPT !.pc = "outAccess"] ELSE Idle)

LogoutAccess(s) ==
  /\ req[s].pc = "outAccess"
  /\ LogoutRevoke(s, <<req[s].tok[1], "access">>, Idle)

\* _identify: the first token that verifies as an access token.
Identifies(p, given) == \E k \in given : VerifyOK(<<p, k>>, "access")

\* POST /auth/logout {all_devices: true}.  If no token identifies the user it
\* is answered ok, and nothing is written.
LogoutAllStart(s, p, given) ==
  /\ Free(s)
  /\ Identifies(p, given)
  /\ req' = [req EXCEPT ![s] = [Idle EXCEPT !.pc = "cutting", !.tok = <<p, "access">>]]
  /\ UNCHANGED <<now, redisUp, users, pairs, status, epoch, revoked, cut>>

\* revoke_all_sessions, the last call of "log out everywhere" and of the
\* deletion of an account; without Redis the request fails.
RevokeAllSessions(s) ==
  /\ IF redisUp THEN StoreEpoch(Sub(req[s].tok)) ELSE UNCHANGED <<epoch, cut>>
  /\ Answer(s)
  /\ UNCHANGED <<now, redisUp, users, pairs, status, revoked>>

LogoutAllCut(s) == req[s].pc = "cutting" /\ RevokeAllSessions(s)

\* DELETE /auth/me with the right password: authenticated by an access token.
DeleteStart(s, t) ==
  /\ Free(s)
  /\ VerifyOK(t, "access") /\ Sub(t) \in users
  /\ req' = [req EXCEPT ![s] = [Idle EXCEPT !.pc = "erasing", !.tok = t]]
  /\ UNCHANGED <<now, redisUp, users, pairs, status, epoch, revoked, cut>>

\* The rows are deleted and committed before any session is revoked.
DeleteCommit(s) ==
  /\ req[s].pc = "erasing"
  /\ users' = users \ {Sub(req[s].tok)}
  /\ Goto(s, "erased")
  /\ UNCHANGED <<now, redisUp, pairs, status, epoch, revoked, cut>>

DeleteCut(s) == req[s].pc = "erased" /\ RevokeAllSessions(s)

-----------------------------------------------------------------------------
Environment ==
  \/ Tick
  \/ RedisToggle
  \/ \E t \in Token : StatusGoes(t)
  \/ \E u \in Users : EpochGoes(u)

Refresh(s) ==
  \/ "refresh" \in Requests /\ \E t \in Token : RefreshStart(s, t)
  \/ RefreshVerify(s)
  \/ RevokeFamily(s)
  \/ RefreshRevoke(s)
  \/ RefreshIssue(s)

Logout(s) ==
  \/ /\ "logout" \in Requests
     /\ \E p \in Issued, given \in SUBSET Kind \ {{}} : LogoutStart(s, p, given)
  \/ LogoutRefresh(s)
  \/ LogoutAccess(s)
  \/ /\ "logoutAll" \in Requests
     /\ \E p \in Issued, given \in SUBSET Kind : LogoutAllStart(s, p, given)
  \/ LogoutAllCut(s)

Delete(s) ==
  \/ "delete" \in Requests /\ \E t \in Token : DeleteStart(s, t)
  \/ DeleteCommit(s)
  \/ DeleteCut(s)

Next ==
  \/ Environment
  \/ \E u \in Users : Login(u)
  \/ \E s \in Slots : Refresh(s) \/ Logout(s) \/ Delete(s)

Spec == Init /\ [][Next]_vars

-----------------------------------------------------------------------------
\* What must hold.

\* verify_token would take the token now, were Redis to answer.
Accepted(t) == Decodes(t) /\ ~Disowned(t)

\* A token that was revoked, by log-out or by rotation, is not accepted again
\* before its expiry, whatever becomes of its key in Redis.
RevokedStaysOut ==
  \A t \in revoked : now < Exp(t) => ~Accepted(t)

\* After "log out everywhere" no token of an earlier second is accepted again
\* before its expiry (docstring of revoke_all_for_user).
EpochStaysOut ==
  \A p \in Issued, k \in Kind :
    LET t == <<p, k>> IN
      Iat(t) < cut[Sub(t)] /\ now < Exp(t) => ~Accepted(t)

\* The converse: while Redis answers, verify_token turns a token away as revoked
\* only if somebody revoked it or its user's sessions were cut in a later second
\* than it was issued; in particular a login in the very second of a cut works.
\* A silent Redis has every token turned away as revoked, and the cut may then
\* be the work of RevokeFamily, though nobody had used a token twice.
OnlyTheRevokedAreRefused ==
  \A p \in Issued, k \in Kind :
    LET t == <<p, k>> IN
      VerifyRevoked(t, k) => \/ ~redisUp
                             \/ t \in revoked
                             \/ Iat(t) < cut[Sub(t)]

\* Only a race exchanges a refresh token twice, or carries a session over a
\* "log out everywhere": no request gets past a verification with a token that
\* was revoked, rotated or cut off by then, except in the leeway.
OnlyInFlightEscapes ==
  \A s \in Slots : req[s].pc \in {"checked", "verified", "rotated"} => ~req[s].dead

\* A log-out answered ok, which it is unless Redis fails it, has put every
\* token it was given out of use.
LogoutEnds ==
  [][\A s \in Slots :
       req[s].pc \in {"outRefresh", "outAccess"} /\ req'[s].pc = "idle" /\ redisUp =>
         \A t \in {req[s].tok[1]} \X req[s].given :
           now' < Exp(t) => ~Accepted(t)']_vars

\* The sessions of a deleted account die out: the refresh requests in flight
\* may still issue a pair, but no pair issued after the deletion is exchanged.
DeletedChainEnds ==
  \A p \in Issued : pairs[p].gone /\ pairs[p].via # 0 => ~pairs[pairs[p].via].gone

\* The tokens keep the promise of TokenLife until their nominal expiry.
TL == INSTANCE TokenLife WITH
        seen  <- {t \in Token : t[1] \in Issued},
        valid <- {t \in Token : /\ t[1] \in Issued
                                /\ now < Exp(t)
                                /\ ~Disowned(t)}

RefinesTokenLife == TL!Spec
=============================================================================
