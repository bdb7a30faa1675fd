---------------------------- MODULE MessageCache ----------------------------
(***************************************************************************)
(* The device's cache of a chat's messages: src/frontend/src/messageCache.ts*)
(* with the handlers of src/frontend/src/App.tsx that fill, change and     *)
(* clear it, and the order in which the server (src/src/chats/service.py)  *)
(* commits and publishes.                                                  *)
(*                                                                         *)
(* One chat: the keys of different chats never meet, and a device keeps    *)
(* one entry per user who opened it.  Every await on IndexedDB, on the     *)
(* network or on WebCrypto separates two actions.  A message is its place  *)
(* in the order of posting; it is deleted at most once and never edited.   *)
(***************************************************************************)
EXTENDS Lists, SequencesExt

CONSTANTS Users, NoOne, Absent,
          MaxPerChat,            \* MAX_PER_CHAT
          PageSize,              \* messages in a page of the history
          MaxMsgs,               \* bound: messages ever posted
          MaxStarts              \* bound: log-ins and restarts of the app

ASSUME BoundsAssumption == /\ MaxPerChat \in Nat \ {0} /\ PageSize \in Nat \ {0}
                           /\ MaxMsgs \in Nat \ {0} /\ MaxStarts \in Nat

ASSUME NobodyAssumption == NoOne \notin Users

VARIABLES row,       \* the message's row in the database
          owed,      \* events of committed changes, until they are delivered
          me,        \* userIdRef, which follows the user of the screen
          session,   \* somebody is logged in
          starts,    \* log-ins after the first and restarts so far
          loaded,    \* loadedChats holds the chat
          loads,     \* openChat's requests for the history, then their writes
          handlers,  \* onmessage calls that await the decryption
          queue,     \* _writeQueue: appends that wait for their turn
          job,       \* the append whose turn it is
          drops,     \* dropCachedMessage calls
          clearing,  \* clearMessageCache was called
          store,     \* IndexedDB: the entry of each user
          fate       \* history: how the drop of a message met the other tasks

server == <<row, owed>>
account == <<me, session, starts, clearing>>
tasks == <<loaded, loads, handlers, queue, job, drops>>
vars == <<server, account, tasks, store, fate>>

Msgs == 1 .. MaxMsgs
Event == {"message", "delete"} \X Msgs

NewDrop == [msg |-> 1, at |-> "keys", todo |-> {},
            user |-> NoOne, items |-> <<>>]
NoJob == [busy |-> FALSE, user |-> NoOne, msg |-> 1, items |-> <<>>]

TypeOK ==
  /\ row \in [Msgs -> {"none", "there", "gone"}]
  /\ owed \subseteq Event
  /\ me \in Users \cup {NoOne} /\ (session => me # NoOne)
  /\ session \in BOOLEAN /\ starts \in 0 .. MaxStarts
  /\ clearing \in BOOLEAN
  /\ loaded \in BOOLEAN
  /\ \A l \in loads : l \in [at : {"asked", "answered"}, user : Users, items : Seq(Msgs)]
  /\ handlers \subseteq Msgs
  /\ queue \in Seq([user : Users, msg : Msgs])
  /\ job \in [busy : BOOLEAN, user : Users \cup {NoOne}, msg : Msgs, items : Seq(Msgs)]
  /\ \A d \in drops : d \in [msg : Msgs, at : {"keys", "read", "write"},
                             todo : SUBSET Users, user : Users \cup {NoOne}, items : Seq(Msgs)]
  /\ \A u \in Users : store[u] = Absent \/ store[u] \in Seq(Msgs)
  /\ \A u \in Users : store[u] # Absent => Len(store[u]) <= MaxPerChat
  /\ fate \in [Msgs -> {"none", "alone", "raced"}]

Init ==
  /\ row = [m \in Msgs |-> "none"]
  /\ owed = {}
  /\ me \in Users /\ session = TRUE /\ starts = 0
  /\ clearing = FALSE
  /\ loaded = FALSE /\ loads = {}
  /\ handlers = {} /\ queue = <<>> /\ job = NoJob /\ drops = {}
  /\ store = [u \in Users |-> Absent]
  /\ fate = [m \in Msgs |-> "none"]

-----------------------------------------------------------------------------
\* The server: every change is committed first and published afterwards.

Post(m) ==
  /\ row[m] = "none" /\ \A k \in 1 .. m - 1 : row[k] # "none"
  /\ row' = [row EXCEPT ![m] = "there"]
  /\ owed' = owed \cup {<<"message", m>>}
  /\ UNCHANGED <<account, tasks, store, fate>>

Delete(m) ==
  /\ row[m] = "there"
  /\ row' = [row EXCEPT ![m] = "gone"]
  /\ owed' = owed \cup {<<"delete", m>>}
  /\ UNCHANGED <<account, tasks, store, fate>>

\* get_messages_paginated: the latest page.
History == LastOf(Only([m \in Msgs |-> m], {m \in Msgs : row[m] = "there"}), PageSize)

-----------------------------------------------------------------------------
\* The app.

\* openChat the first time; the user is captured here.
OpenChat ==
  /\ session /\ ~loaded
  /\ loaded' = TRUE
  /\ loads' = loads \cup {[at |-> "asked", user |-> me, items |-> <<>>]}
  /\ UNCHANGED <<server, account, handlers, queue, job, drops, store, fate>>

HistoryAnswered(l) ==
  /\ l.at = "asked"
  /\ loads' = (loads \ {l}) \cup {[l EXCEPT !.at = "answered", !.items = History]}
  /\ UNCHANGED <<server, account, loaded, handlers, queue, job, drops, store, fate>>

\* The request or the write failed: the cache stays, the chat counts as loaded.
HistoryFailed(l) ==
  /\ loads' = loads \ {l}
  /\ UNCHANGED <<server, account, loaded, handlers, queue, job, drops, store, fate>>

\* redis.publish and ws.onmessage: a new message is decrypted first, a deletion
\* acts at once.
Deliver(e) ==
  /\ e \in owed /\ session
  /\ owed' = owed \ {e}
  /\ IF e[1] = "message"
       THEN handlers' = handlers \cup {e[2]} /\ UNCHANGED drops
       ELSE drops' = drops \cup {[NewDrop EXCEPT !.msg = e[2]]} /\ UNCHANGED handlers
  /\ UNCHANGED <<row, account, loaded, loads, queue, job, store, fate>>

\* A device whose socket is not subscribed when the event is published, or that
\* loses the connection, never gets it.
Miss(e) ==
  /\ e \in owed
  /\ owed' = owed \ {e}
  /\ UNCHANGED <<row, account, tasks, store, fate>>

\* Fault: a message that is nobody's waits for its turn too.
FaultDecrypted(m) ==
  /\ m \in handlers
  /\ handlers' = handlers \ {m}
  /\ queue' = Append(queue, [user |-> me, msg |-> m])
  /\ UNCHANGED <<server, account, loaded, loads, job, drops, store, fate>>

\* appendCachedMessage for whoever is userIdRef by now, and not at all for nobody.
Decrypted(m) ==
  /\ m \in handlers
  /\ handlers' = handlers \ {m}
  /\ queue' = IF me = NoOne THEN queue ELSE Append(queue, [user |-> me, msg |-> m])
  /\ UNCHANGED <<server, account, loaded, loads, job, drops, store, fate>>

\* logout: nothing waits for the cache to be cleared.
Logout ==
  /\ session
  /\ session' = FALSE /\ clearing' = TRUE
  /\ loaded' = FALSE
  /\ UNCHANGED <<server, me, starts, loads, handlers, queue, job, drops, store, fate>>

\* auth:expired: the session is gone, what is on the disk stays.
Expired ==
  /\ session
  /\ session' = FALSE
  /\ loaded' = FALSE
  /\ UNCHANGED <<server, me, starts, clearing, loads, handlers, queue, job, drops, store, fate>>

\* userIdRef is emptied once the screen without a user has been drawn.
Rendered ==
  /\ ~session /\ me # NoOne
  /\ me' = NoOne
  /\ UNCHANGED <<server, session, starts, clearing, tasks, store, fate>>

\* handleLogin, from a form that has been drawn.
Login(u) ==
  /\ ~session /\ me = NoOne /\ starts < MaxStarts
  /\ session' = TRUE /\ me' = u /\ starts' = starts + 1
  /\ UNCHANGED <<server, clearing, tasks, store, fate>>

\* Android kills the WebView: what is on the disk stays, the session with it.
Restart ==
  /\ starts < MaxStarts
  /\ starts' = starts + 1
  /\ me' = IF session THEN me ELSE NoOne
  /\ clearing' = FALSE
  /\ loaded' = FALSE /\ loads' = {}
  /\ handlers' = {} /\ queue' = <<>> /\ job' = NoJob /\ drops' = {}
  /\ fate' = [m \in Msgs |-> IF \E d \in drops : d.msg = m THEN "none" ELSE fate[m]]
  /\ UNCHANGED <<server, session, store>>

-----------------------------------------------------------------------------
\* The cache.

\* readCachedMessages
Items(u) == IF store[u] = Absent THEN <<>> ELSE store[u]

\* writeCachedMessages: the tail is kept.
Write(u, items) == store' = [store EXCEPT ![u] = LastOf(items, MaxPerChat)]

\* Message m is on its way to the app, or into the cache in some task of the app.
InFlight(m) ==
  \/ <<"message", m>> \in owed
  \/ m \in handlers
  \/ \E q \in ToSet(queue) : q.msg = m
  \/ job.busy /\ m \in ToSet(job.items) \cup {job.msg}
  \/ \E d \in drops : d.msg # m /\ m \in ToSet(d.items)
  \/ \E l \in loads : m \in ToSet(l.items)

\* History: the drops of these messages are no longer alone.
Raced(ms) == fate' = [m \in Msgs |-> IF m \in ms /\ fate[m] = "alone" THEN "raced" ELSE fate[m]]

\* Fault: the cache takes every message it is given.
AppendReadBlindly ==
  /\ ~job.busy /\ queue # <<>>
  /\ queue' = Tail(queue)
  /\ LET q == Head(queue) IN
       /\ job' = [busy |-> TRUE, user |-> q.user, msg |-> q.msg, items |-> Items(q.user)]
       /\ Raced(ToSet(job'.items))
  /\ UNCHANGED <<server, account, loaded, loads, handlers, drops, store>>

\* The next append reads; if the cache has the message already, it is done.
AppendRead ==
  /\ ~job.busy /\ queue # <<>>
  /\ queue' = Tail(queue)
  /\ LET q == Head(queue) IN
       /\ job' = IF q.msg \in ToSet(Items(q.user)) THEN NoJob
                 ELSE [busy |-> TRUE, user |-> q.user, msg |-> q.msg, items |-> Items(q.user)]
       /\ Raced(ToSet(job'.items))
  /\ UNCHANGED <<server, account, loaded, loads, handlers, drops, store>>

AppendWrite ==
  /\ job.busy
  /\ Write(job.user, Append(job.items, job.msg))
  /\ job' = NoJob
  /\ UNCHANGED <<server, account, loaded, loads, handlers, queue, drops, fate>>

\* The history is written without waiting for the queue.
HistoryWrite(l) ==
  /\ l.at = "answered"
  /\ loads' = loads \ {l}
  /\ Write(l.user, l.items)
  /\ UNCHANGED <<server, account, loaded, handlers, queue, job, drops, fate>>

\* The drop is over once no entry is left.
Become(d, s) == drops' = (drops \ {d}) \cup {t \in s : t.at = "read" => t.todo # {}}

\* Fault: only the entry of whoever is logged in is looked at.
DropKeysOfMe(d) ==
  /\ d.at = "keys"
  /\ Become(d, {[d EXCEPT !.at = "read", !.todo = {u \in {me} \cap Users : store[u] # Absent}]})
  /\ fate' = [fate EXCEPT ![d.msg] = IF InFlight(d.msg) THEN "raced" ELSE "alone"]
  /\ UNCHANGED <<server, account, loaded, loads, handlers, queue, job, store>>

\* dropCachedMessage walks over the entries that exist when it starts.
DropKeys(d) ==
  /\ d.at = "keys"
  /\ Become(d, {[d EXCEPT !.at = "read", !.todo = {u \in Users : store[u] # Absent}]})
  /\ fate' = [fate EXCEPT ![d.msg] = IF InFlight(d.msg) THEN "raced" ELSE "alone"]
  /\ UNCHANGED <<server, account, loaded, loads, handlers, queue, job, store>>

\* Fault: the entry is written back whether it held the message or not.
DropReadBlindly(d, u) ==
  /\ d.at = "read" /\ u \in d.todo
  /\ Become(d, {[d EXCEPT !.at = "write", !.todo = @ \ {u}, !.user = u, !.items = Items(u)]})
  /\ Raced(ToSet(Items(u)) \ {d.msg})
  /\ UNCHANGED <<server, account, loaded, loads, handlers, queue, job, store>>

\* An entry that holds the message is written without it, in its own time.
DropRead(d, u) ==
  /\ d.at = "read" /\ u \in d.todo
  /\ IF d.msg \in ToSet(Items(u))
       THEN /\ Become(d, {[d EXCEPT !.at = "write", !.todo = @ \ {u}, !.user = u, !.items = Items(u)]})
            /\ Raced(ToSet(Items(u)) \ {d.msg})
       ELSE Become(d, {[d EXCEPT !.todo = @ \ {u}]}) /\ UNCHANGED fate
  /\ UNCHANGED <<server, account, loaded, loads, handlers, queue, job, store>>

DropWrite(d) ==
  /\ d.at = "write"
  /\ Write(d.user, Only(d.items, Msgs \ {d.msg}))
  /\ Become(d, {[d EXCEPT !.at = "read", !.items = <<>>]})
  /\ UNCHANGED <<server, account, loaded, loads, handlers, queue, job, fate>>

Clear ==
  /\ clearing
  /\ clearing' = FALSE
  /\ store' = [u \in Users |-> Absent]
  /\ UNCHANGED <<server, me, session, starts, tasks, fate>>

\* Whatever goes wrong in it is swallowed.
ClearFails ==
  /\ clearing
  /\ clearing' = FALSE
  /\ UNCHANGED <<server, me, session, starts, tasks, store, fate>>

-----------------------------------------------------------------------------
Server ==
  \/ \E m \in Msgs : Post(m) \/ Delete(m)
  \/ \E e \in Event : Miss(e)

App ==
  \/ OpenChat
  \/ \E l \in loads : HistoryAnswered(l) \/ HistoryFailed(l)
  \/ \E e \in Event : Deliver(e)
  \/ \E m \in Msgs : Decrypted(m)
  \/ Logout \/ Expired \/ Rendered
  \/ \E u \in Users : Login(u)
  \/ Restart

Cache ==
  \/ AppendRead
  \/ AppendWrite
  \/ \E l \in loads : HistoryWrite(l)
  \/ \E d \in drops : DropKeys(d) \/ (\E u \in Users : DropRead(d, u)) \/ DropWrite(d)
  \/ Clear \/ ClearFails

Next == Server \/ App \/ Cache

Spec == Init /\ [][Next]_vars

-----------------------------------------------------------------------------
\* What must hold.

\* No message is in an entry twice, whether it came with the history, over the
\* socket or both, in whatever order the writes happen.
NoDuplicates == \A u \in Users : IsInjective(Items(u))

\* A deleted message whose drop ran alone is in no entry and in no task that
\* could write it there, and stays so.
DroppedAloneIsGone ==
  \A m \in Msgs :
    fate[m] = "alone" /\ (\A d \in drops : d.msg # m) =>
      ~InFlight(m) /\ \A u \in Users : m \notin ToSet(Items(u))

\* Nothing that could write an entry for user u is under way: a message that is being
\* decrypted is one only until the screen without the user has been drawn.
Quiet(u) ==
  /\ ~(session /\ me = u)
  /\ store[u] = Absent
  /\ me = u => handlers = {}
  /\ \A q \in ToSet(queue) : q.user # u
  /\ job.busy => job.user # u
  /\ \A l \in loads : l.user # u
  /\ \A d \in drops : d.at = "write" => d.user # u

\* Once a log-out's clearing and the writes it ran into are over, no entry of
\* that user comes back before the user does: whoever logs in next, their
\* messages and their deletions do not bring it back.
ClearedStaysClear ==
  [][\A u \in Users : Quiet(u) /\ ~(session' /\ me' = u) => Quiet(u)']_vars
=============================================================================
