----------------------------- MODULE ClientAuth -----------------------------
(***************************************************************************)
(* The session as the client keeps it: the tokens, the gate pass and the   *)
(* media ticket of frontend/src/api.js, the start-up, log-in and log-out   *)
(* of App.tsx, Auth.tsx, Gate.tsx and ProfileScreen.tsx.  The client is    *)
(* the native one (IS_NATIVE), whose tokens are in localStorage.           *)
(*                                                                         *)
(* A slot is one asynchronous call of the client.  Its request is out      *)
(* until the server has handled it and back until the client has; a 401    *)
(* makes it refresh the tokens, or queue behind the slot that does.  What  *)
(* JavaScript runs between two awaits is one step; a promise that settles  *)
(* wakes its queue before any other event (Settled).                       *)
(***************************************************************************)
EXTENDS Naturals, FiniteSets

CONSTANTS Users, None,          \* accounts, and no account
          Slots,                \* calls of the client in flight at once
          MaxTok                \* bound of the pairs the server issues

ASSUME NoneAssumption == None \notin Users
ASSUME MaxTokAssumption == MaxTok \in Nat

VARIABLES owner, live, fresh,   \* server: whose pair, refresh valid, access valid
          spent,                \* server: refresh tokens already exchanged
          gateValid,            \* server: the device's gate pass still verifies
          store, gateTok, ticket, cached,          \* what the device keeps
          user, gateOk, loading,                   \* React state of App
          slot,
          left,                 \* history: logged out, no log-in since
          blame                 \* history: "stale" once a call from before it stored or
                                \* showed a session, else "lost" once the answer of a
                                \* refresh was lost

device == <<store, gateTok, ticket, cached>>
screen == <<user, gateOk, loading>>
server == <<owner, live, fresh, spent, gateValid>>
history == <<left, blame>>
vars == <<server, device, screen, slot, history>>

Tok == 1 .. MaxTok
Who == Users \cup {None}
Minted == DOMAIN owner

Kinds == {"start", "unlock", "session", "ticket1", "login", "profile", "enter",
          "poll", "logout", "delete"}
\* How a request ends: what the server says, or nothing at all.
Answers == {"none", "ok", "shut", "401", "refused", "gate", "error", "lost"}
Phases == {"idle", "out", "back", "refreshing", "refreshed", "queued", "woken"}

Slot == [kind : Kinds, phase : Phases, who : Who, tok : 0 .. MaxTok, pass : BOOLEAN,
         ans : Answers, pair : 0 .. MaxTok, again : BOOLEAN,
         old : BOOLEAN]         \* history: running since before a log-out

Idle == [kind |-> "poll", phase |-> "idle", who |-> None, tok |-> 0, pass |-> FALSE,
         ans |-> "none", pair |-> 0, again |-> FALSE, old |-> FALSE]

\* req(): the request is built with what the device stores at this moment; a
\* pass is carried if it still verifies.
Sent(k, u, tok, pass, old) ==
  [kind |-> k, phase |-> "out", who |-> u, tok |-> tok, pass |-> pass,
   ans |-> "none", pair |-> 0, again |-> FALSE, old |-> old]

Passes == gateTok /\ gateValid

\* Fault: the _refreshing flag is never seen set.
FaultRefresher == {}

Refresher == {s \in Slots : slot[s].phase \in {"refreshing", "refreshed"}}
StaleIf(p) == IF p THEN "stale" ELSE blame
LostIf(p) == IF p /\ blame = "none" THEN "lost" ELSE blame
Settled == \A s \in Slots : slot[s].phase # "woken"
Asking(K) == \E s \in Slots : slot[s].kind \in K /\ slot[s].phase # "idle"

Init ==
  /\ owner = <<>> /\ live = {} /\ fresh = {} /\ spent = {} /\ gateValid = FALSE
  /\ store = 0 /\ gateTok = FALSE /\ ticket = None /\ cached = None
  /\ user = None /\ gateOk = "unknown" /\ loading = TRUE
  /\ \E s \in Slots :
       slot = [t \in Slots |-> IF t = s THEN Sent("start", None, 0, FALSE, FALSE) ELSE Idle]
  /\ left = FALSE /\ blame = "none"

------------------------------------------------------------------------------
(* What the person and the timers begin.                                   *)

\* Bound: nothing more is begun once a stale answer has been applied.
Begin(s, k, u) ==
  /\ Settled /\ blame # "stale"
  /\ slot[s].phase = "idle"
  /\ slot' = [slot EXCEPT ![s] = Sent(k, u, store, Passes, FALSE)]
  /\ UNCHANGED <<server, device, screen, history>>

\* Form of Auth.tsx: shown when the door is not shut and nobody is in; "busy"
\* until getMe has answered, not while handleLogin waits for the ticket.
LogIn(s, u) ==
  /\ ~loading /\ gateOk # "shut" /\ user = None
  /\ ~Asking({"login", "profile"})
  /\ Begin(s, "login", u)

Unlock(s) ==
  /\ ~loading /\ gateOk = "shut" /\ ~Asking({"unlock"})
  /\ Begin(s, "unlock", None)

Inside == ~loading /\ gateOk # "shut" /\ user # None

\* The timers: the chats, the heartbeat, the media ticket.
Poll(s) == user # None /\ Begin(s, "poll", None)

\* The button of the profile, after its question; the row stays clickable.
LogOut(s) == Inside /\ Begin(s, "logout", None)

DeleteAccount(s) == Inside /\ ~Asking({"delete"}) /\ Begin(s, "delete", None)

------------------------------------------------------------------------------
(* The server.  A gate pass is asked for before everything under /auth,    *)
(* /media and the data; logging out needs no valid token.                  *)

\* Fault: a token id that is not the next one.
FaultMint(u, n) == owner' = [i \in Minted \cup {n} |-> IF i = n THEN u ELSE owner[i]]

Mint(u, n) ==
  /\ n = Cardinality(Minted) + 1 /\ n \in Tok
  /\ owner' = [i \in Minted \cup {n} |-> IF i = n THEN u ELSE owner[i]]

Of(u) == {n \in Minted : owner[n] = u}

Answer(s, a, n) ==
  slot' = [slot EXCEPT ![s] = [@ EXCEPT !.phase = "back", !.ans = a, !.pair = n, !.tok = 0]]

GateDenies(s) == ~slot[s].pass /\ slot[s].kind \notin {"start", "unlock"}

Denied(s) ==
  /\ slot[s].phase = "out" /\ GateDenies(s)
  /\ Answer(s, "gate", 0)
  /\ UNCHANGED <<server, blame>>

Failed(s) ==    \* 429, 5xx, a wrong password of the log-in, wrong gate answers
  /\ slot[s].phase = "out" /\ slot[s].kind # "start"
  /\ Answer(s, "error", 0)
  /\ UNCHANGED <<server, blame>>

ServeGate(s) ==
  /\ slot[s].phase = "out" /\ slot[s].kind \in {"start", "unlock"}
  /\ Answer(s, IF slot[s].kind = "unlock" \/ slot[s].pass
                 THEN "ok" ELSE "shut", 0)
  /\ gateValid' = (gateValid \/ slot[s].kind = "unlock")
  /\ UNCHANGED <<owner, live, fresh, spent, blame>>

ServeLogin(s) ==
  /\ slot[s].phase = "out" /\ slot[s].kind = "login" /\ ~GateDenies(s)
  /\ \E n \in Tok :
       /\ Mint(slot[s].who, n)
       /\ live' = live \cup {n} /\ fresh' = fresh \cup {n}
       /\ Answer(s, "ok", n)
  /\ UNCHANGED <<spent, gateValid, blame>>

\* The pair of the body (or the cookie) is revoked, and nothing else.
ServeLogout(s) ==
  /\ slot[s].phase = "out" /\ slot[s].kind = "logout" /\ ~GateDenies(s)
  /\ live' = live \ {slot[s].tok} /\ fresh' = fresh \ {slot[s].tok}
  /\ Answer(s, "ok", 0)
  /\ UNCHANGED <<owner, spent, gateValid, blame>>

\* Requests that need an access token; deleting also needs the password, and
\* a wrong one is a 401 as well.
ServeCall(s) ==
  /\ slot[s].phase = "out" /\ ~GateDenies(s)
  /\ slot[s].kind \notin {"start", "unlock", "login", "logout"}
  /\ \/ /\ slot[s].tok \in fresh
        /\ Answer(s, "ok", slot[s].tok)
        /\ IF slot[s].kind = "delete"
             THEN /\ live' = live \ Of(owner[slot[s].tok])
                  /\ fresh' = fresh \ Of(owner[slot[s].tok])
             ELSE UNCHANGED <<live, fresh>>
     \/ /\ slot[s].tok \notin fresh \/ slot[s].kind = "delete"
        /\ Answer(s, "401", 0)
        /\ UNCHANGED <<live, fresh>>
  /\ UNCHANGED <<owner, spent, gateValid, blame>>

Refreshed(s, a, n) ==
  slot' = [slot EXCEPT ![s] = [@ EXCEPT !.phase = "refreshed", !.ans = a, !.pair = n,
                                    !.tok = 0]]

\* /auth/refresh: exchange a live token; a token exchanged before is a theft
\* to the server, and every session of its owner ends.
ServeRefresh(s) ==
  /\ slot[s].phase = "refreshing"
  /\ \/ /\ ~Passes
        /\ Refreshed(s, "gate", 0)
        /\ UNCHANGED <<owner, live, fresh, spent>>
     \/ /\ Refreshed(s, "error", 0)
        /\ UNCHANGED <<owner, live, fresh, spent>>
     \/ /\ Passes /\ slot[s].tok \in live
        /\ \E n \in Tok :
             /\ Mint(owner[slot[s].tok], n)
             /\ live' = (live \ {slot[s].tok}) \cup {n}
             /\ fresh' = fresh \cup {n}
             /\ spent' = spent \cup {slot[s].tok}
             /\ Refreshed(s, "ok", n)
     \/ /\ Passes /\ slot[s].tok \notin live
        /\ live' = live \ Of(owner[slot[s].tok])
        /\ fresh' = fresh \ Of(owner[slot[s].tok])
        /\ Refreshed(s, "refused", 0)
        /\ UNCHANGED <<owner, spent>>
  /\ UNCHANGED <<gateValid, blame>>

Serve(s) ==
  /\ Settled
  /\ \/ Denied(s) \/ Failed(s) \/ ServeGate(s) \/ ServeLogin(s)
     \/ ServeLogout(s) \/ ServeCall(s) \/ ServeRefresh(s)
  /\ UNCHANGED <<device, screen, left>>

\* The connection breaks, before the server handled the request or after.
Lose(s) ==
  /\ Settled
  /\ \/ /\ slot[s].phase \in {"out", "back"}
        /\ slot[s].ans # "lost"
        /\ Answer(s, "lost", 0)
        /\ UNCHANGED blame
     \/ /\ slot[s].phase \in {"refreshing", "refreshed"}
        /\ slot[s].ans # "lost"
        /\ blame' = LostIf(slot[s].pair # 0)
        \* cut within the body, res.json() throws no NetworkError
        /\ \/ Refreshed(s, "lost", 0)
           \/ slot[s].ans = "ok" /\ Refreshed(s, "error", 0)
  /\ UNCHANGED <<server, device, screen, left>>

AccessExpires ==
  /\ Settled /\ fresh # {}
  /\ fresh' = {}
  /\ UNCHANGED <<owner, live, spent, gateValid, device, screen, slot, history>>

GateExpires ==
  /\ Settled /\ gateValid
  /\ gateValid' = FALSE
  /\ slot' = [s \in Slots |-> [slot[s] EXCEPT !.pass = FALSE]]
  /\ UNCHANGED <<owner, live, fresh, spent, device, screen, history>>

------------------------------------------------------------------------------
(* The client's side of an answer.                                         *)

Retries(s) == /\ slot[s].phase = "back" /\ slot[s].ans = "401"
              /\ slot[s].kind # "login" /\ ~slot[s].again

\* tryRefresh(): one refresh at a time, everyone else waits for its outcome.
TryRefresh(s) ==
  /\ Settled /\ Retries(s)
  /\ slot' = [slot EXCEPT ![s] =
       IF Refresher # {} THEN [@ EXCEPT !.phase = "queued", !.ans = "none"]
       ELSE IF store = 0 THEN [@ EXCEPT !.phase = "woken", !.ans = "refused"]
       ELSE [@ EXCEPT !.phase = "refreshing", !.ans = "none", !.tok = store]]
  /\ UNCHANGED <<server, device, screen, history>>

\* Fault: only a granted refresh wakes the queue.
FaultRefreshOver(s) ==
  /\ Settled /\ slot[s].phase = "refreshed"
  /\ store' = IF slot[s].ans = "ok" THEN slot[s].pair ELSE store
  /\ slot' = [t \in Slots |->
       IF t = s \/ (slot[t].phase = "queued" /\ slot[s].ans = "ok")
         THEN [slot[t] EXCEPT !.phase = "woken", !.ans = slot[s].ans, !.pair = 0] ELSE slot[t]]
  /\ UNCHANGED <<server, gateTok, gateOk, ticket, cached, user, loading, history>>

\* The refresh is over: its pair is stored, or the door asked for, and the
\* slot and everyone queued go on with the same outcome.
RefreshOver(s) ==
  /\ Settled /\ slot[s].phase = "refreshed"
  /\ LET a == slot[s].ans IN
     /\ store' = IF a = "ok" THEN slot[s].pair ELSE store
     /\ blame' = StaleIf(a = "ok" /\ slot[s].old)
     /\ gateTok' = (gateTok /\ a # "gate")
     /\ gateOk' = IF a = "gate" THEN "shut" ELSE gateOk
     /\ slot' = [t \in Slots |->
          IF t = s \/ slot[t].phase = "queued"
            THEN [slot[t] EXCEPT !.phase = "woken", !.ans = a, !.pair = 0] ELSE slot[t]]
  /\ UNCHANGED <<server, ticket, cached, user, loading, left>>

\* After a refresh the request goes out again, with the token that was stored
\* and everything else as it was built.
Retry(s) ==
  /\ slot[s].phase = "woken" /\ slot[s].ans = "ok"
  /\ slot' = [slot EXCEPT ![s] =
       [@ EXCEPT !.phase = "out", !.ans = "none", !.again = TRUE,
                 !.tok = store]]
  /\ UNCHANGED <<server, device, screen, history>>

\* The call ends: answered, or given up by the refresh it waited for.
Ended(s) == \/ Settled /\ slot[s].phase = "back" /\ ~Retries(s)
            \/ slot[s].phase = "woken" /\ slot[s].ans # "ok"

\* Fault: req() takes every failure of the refresh for a refusal.
FaultExpired(s) == slot[s].phase = "woken"

\* A lost connection or a closed door is no reason to leave the account.
Expired(s) == slot[s].phase = "woken" /\ slot[s].ans \notin {"lost", "gate"}
UserThen(s) == IF Expired(s) THEN None ELSE user
CachedThen(s) == IF Expired(s) THEN None ELSE cached

Got(s) == slot[s].phase = "back" /\ slot[s].ans = "ok"
AtDoor(s) == slot[s].phase = "back" /\ slot[s].ans = "gate"

Done(s) == slot' = [slot EXCEPT ![s] = Idle]
Then(s, k, u, tok, pass) ==
  slot' = [slot EXCEPT ![s] = Sent(k, u, tok, pass, slot[s].old)]
Door(s) == /\ gateTok' = (gateTok /\ ~AtDoor(s))
           /\ gateOk' = IF AtDoor(s) THEN "shut" ELSE gateOk

\* gateStatus of the first effect.
Start(s) ==
  /\ Ended(s) /\ slot[s].kind = "start"
  /\ IF Got(s) \/ (slot[s].ans = "lost" /\ cached # None)
       THEN /\ gateOk' = "open" /\ Then(s, "session", None, store, Passes)
            /\ UNCHANGED loading
       ELSE /\ gateOk' = IF slot[s].ans = "shut" THEN "shut" ELSE gateOk
            /\ loading' = FALSE /\ Done(s)
  /\ UNCHANGED <<server, device, user, history>>

Unlocked(s) ==
  /\ Ended(s) /\ slot[s].kind = "unlock"
  /\ IF Got(s)
       THEN gateTok' = TRUE /\ gateOk' = "open" /\ Then(s, "session", None, store, gateValid)
       ELSE UNCHANGED <<gateTok, gateOk>> /\ Done(s)
  /\ UNCHANGED <<server, store, ticket, cached, user, loading, history>>

\* loadSession behind getMe and the ticket: in, unless the keys are not on this
\* device (KeyPairs), when only the password helps.
Enter(s, u) ==
  /\ user' \in {u, None}
  /\ cached' = user'
  /\ blame' = StaleIf(slot[s].old)
  /\ loading' = FALSE
  /\ Done(s)

Session(s) ==
  /\ Ended(s) /\ slot[s].kind = "session"
  /\ IF Got(s)
       THEN \/ /\ ticket # None
               /\ Enter(s, owner[slot[s].pair])
            \/ /\ Then(s, "ticket1", owner[slot[s].pair], store, Passes)
               /\ UNCHANGED <<user, cached, loading, blame>>
       ELSE /\ user' = IF slot[s].ans = "lost" /\ cached # None THEN cached ELSE UserThen(s)
            /\ cached' = IF slot[s].ans = "lost" \/ (slot[s].ans = "gate" /\ ~AtDoor(s))
                           THEN cached ELSE None
            /\ blame' = StaleIf(slot[s].old /\ user' # user)
            /\ loading' = FALSE /\ Done(s)
  /\ Door(s)
  /\ UNCHANGED <<server, store, ticket, left>>

SessionTicket(s) ==
  /\ Ended(s) /\ slot[s].kind = "ticket1"
  /\ ticket' = IF Got(s) THEN owner[slot[s].pair] ELSE ticket
  /\ Enter(s, slot[s].who)
  /\ Door(s)
  /\ UNCHANGED <<server, store, left>>

\* handleLogin of Auth.tsx: api.login, then getMe.
LoggedIn(s) ==
  /\ Ended(s) /\ slot[s].kind = "login"
  /\ IF Got(s)
       THEN /\ store' = slot[s].pair /\ left' = FALSE
            /\ Then(s, "profile", slot[s].who, slot[s].pair, Passes)
       ELSE UNCHANGED <<store, left>> /\ Done(s)
  /\ Door(s)
  /\ UNCHANGED <<server, ticket, cached, user, loading, blame>>

ProfileLoaded(s) ==
  /\ Ended(s) /\ slot[s].kind = "profile"
  /\ IF Got(s) THEN Then(s, "enter", owner[slot[s].pair], store, Passes) ELSE Done(s)
  /\ user' = UserThen(s) /\ cached' = CachedThen(s)
  /\ Door(s)
  /\ UNCHANGED <<server, store, ticket, loading, history>>

\* handleLogin of App.tsx: the ticket or not, then the screen (and the keys,
\* see KeyPairs).
EnterLogin(s) ==
  /\ Ended(s) /\ slot[s].kind = "enter"
  /\ ticket' = IF Got(s) THEN owner[slot[s].pair] ELSE ticket
  /\ user' = slot[s].who /\ cached' = CachedThen(s)
  /\ blame' = StaleIf(slot[s].old)
  /\ Door(s) /\ Done(s)
  /\ UNCHANGED <<server, store, loading, left>>

Polled(s) ==
  /\ Ended(s) /\ slot[s].kind = "poll"
  /\ ticket' \in {ticket} \cup {owner[n] : n \in {slot[s].pair} \ {0}}
  /\ user' = UserThen(s) /\ cached' = CachedThen(s)
  /\ Door(s) /\ Done(s)
  /\ blame' = StaleIf(slot[s].old /\ Got(s))
  /\ UNCHANGED <<server, store, loading, left>>

\* What log-out and deletion clear in api.js, whatever the server said.
ForgetTokens == store' = 0 /\ ticket' = None

\* Fault: logout leaves the cached profile.
FaultLoggedOut(s) ==
  /\ Ended(s) /\ slot[s].kind = "logout"
  /\ ForgetTokens /\ user' = None /\ left' = TRUE
  /\ slot' = [t \in Slots |-> IF t = s THEN Idle
                ELSE [slot[t] EXCEPT !.old = slot[t].phase # "idle"]]
  /\ Door(s)
  /\ UNCHANGED <<server, cached, loading, blame>>

\* api.logout swallows every error; then logout of App.tsx.
LoggedOut(s) ==
  /\ Ended(s) /\ slot[s].kind = "logout"
  /\ ForgetTokens /\ cached' = None /\ user' = None
  /\ left' = TRUE
  /\ slot' = [t \in Slots |-> IF t = s THEN Idle
                ELSE [slot[t] EXCEPT !.old = slot[t].phase # "idle"]]
  /\ Door(s)
  /\ UNCHANGED <<server, loading, blame>>

Deleted(s) ==
  /\ Ended(s) /\ slot[s].kind = "delete"
  /\ IF Got(s) THEN ForgetTokens /\ Then(s, "logout", None, 0, Passes)
               ELSE UNCHANGED <<store, ticket>> /\ Done(s)
  /\ user' = UserThen(s) /\ cached' = CachedThen(s)
  /\ Door(s)
  /\ UNCHANGED <<server, loading, history>>

Finish(s) == \/ Start(s) \/ Unlocked(s) \/ Session(s) \/ SessionTicket(s)
             \/ LoggedIn(s) \/ ProfileLoaded(s) \/ EnterLogin(s)
             \/ Polled(s) \/ LoggedOut(s) \/ Deleted(s)

\* The process dies and starts again; the device keeps what it stored.
Restart ==
  /\ user' = None /\ gateOk' = "unknown" /\ loading' = TRUE
  /\ \E s \in Slots : slot' = [t \in Slots |->
       IF t = s THEN Sent("start", None, store, Passes, FALSE) ELSE Idle]
  /\ blame' = LostIf(\E s \in Refresher : slot[s].pair # 0)
  /\ UNCHANGED <<server, device, left>>

------------------------------------------------------------------------------
Client(s) == TryRefresh(s) \/ RefreshOver(s) \/ Retry(s) \/ Finish(s)
Network(s) == Serve(s) \/ Lose(s)

Person(s) == \/ \E u \in Users : LogIn(s, u)
             \/ Unlock(s) \/ Poll(s) \/ LogOut(s) \/ DeleteAccount(s)

Next == \/ \E s \in Slots : Person(s) \/ Network(s) \/ Client(s)
        \/ AccessExpires \/ GateExpires \/ Restart

Spec == Init /\ [][Next]_vars

------------------------------------------------------------------------------
TypeOK ==
  /\ Minted = 1 .. Cardinality(Minted) /\ Minted \subseteq Tok
  /\ \A n \in Minted : owner[n] \in Users
  /\ live \subseteq Minted /\ fresh \subseteq Minted /\ spent \subseteq Minted
  /\ gateValid \in BOOLEAN
  /\ store \in Minted \cup {0} /\ gateTok \in BOOLEAN
  /\ ticket \in Who /\ cached \in Who
  /\ user \in Who /\ gateOk \in {"unknown", "open", "shut"} /\ loading \in BOOLEAN
  /\ slot \in [Slots -> Slot]
  /\ \A s \in Slots : {slot[s].tok, slot[s].pair} \subseteq Minted \cup {0}
  /\ left \in BOOLEAN /\ blame \in {"none", "lost", "stale"}

\* Once the person has logged out, nothing of the session is on the device or
\* the screen until the next log-in, except through an answer that was already
\* on its way at the log-out: the cached profile, the tokens and the ticket
\* leave no other way back in, offline, after a restart or through the door.
OnlyStaleAnswersReturn ==
  left /\ (user # None \/ cached # None \/ store # 0 \/ ticket # None)
    => blame = "stale"

\* The client's own concurrency never makes the server see a refresh token
\* twice (which ends every session of the account, on every device): that
\* takes a refresh whose answer got lost, or one that outlived a log-out.
NoSelfReuse ==
  \A s \in Slots : slot[s].phase = "refreshing" /\ slot[s].tok \in spent => blame # "none"

\* Nobody is put out to the log-in form because a connection broke or the door
\* shut: it takes a log-out, a refresh the server did not grant, or an account
\* whose keys are not on the device.
SessionKept ==
  [][user # None /\ user' = None =>
       \/ Restart
       \/ \E s \in Slots :
            /\ slot'[s] # slot[s]
            /\ \/ slot[s].kind = "logout"
               \/ slot[s].ans \in {"refused", "error"}
               \/ slot[s].kind = "ticket1"
               \/ (slot[s].kind = "session" /\ slot[s].ans = "ok")]_vars

\* Nobody waits for a refresh that is not running: whoever queued is woken by
\* its outcome, whatever it is and whoever else gave up meanwhile.
QueueHasRefresher ==
  (\E s \in Slots : slot[s].phase = "queued") => Cardinality(Refresher) = 1
==============================================================================
