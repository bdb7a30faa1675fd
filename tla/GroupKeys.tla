------------------------------ MODULE GroupKeys ------------------------------
(***************************************************************************)
(* How the members of a group come by its key: startChat, addMembers,      *)
(* openChat, resolveChatKey and shareGroupKeyWithNewcomers of              *)
(* src/frontend/src/App.tsx, with the rows the server keeps for them       *)
(* (src/src/chats/repo.py, src/src/auth/repo.py).                          *)
(*                                                                         *)
(* One group.  The server holds, for each member, the group's key wrapped  *)
(* for one of the member's key pairs; it cannot unwrap it, so that only    *)
(* clients that hold the key can hand it on.  A user's key pairs are       *)
(* numbered in the order of publication and the user's client is taken to  *)
(* have the private half of the published one.  A client has one hand-over *)
(* under way at a time; two of one client differ in nothing from two of    *)
(* two clients.  Whether a lost answer or the call itself was lost makes   *)
(* no difference to the client, which ignores both.                        *)
(***************************************************************************)
EXTENDS Naturals, FiniteSets

CONSTANTS Users,
          Founders,        \* the people a group is started with
          MaxKeys,         \* bound: group keys ever generated
          MaxPairs,        \* bound: key pairs a user ever publishes
          MaxRotations,    \* bound: rotations altogether
          MaxTasks,        \* bound: clients busy with the key at a time
          MaxFailures      \* bound: failed calls and restarts altogether

ASSUME FoundersAssumption == Founders \subseteq Users /\ Cardinality(Founders) > 2
ASSUME BoundsAssumption ==
  /\ MaxKeys \in Nat /\ MaxPairs \in Nat /\ MaxTasks \in Nat
  /\ MaxRotations \in Nat /\ MaxFailures \in Nat

VARIABLES members,         \* chat_members
          pub,             \* users.public_key: the published pair, 0 if none
          row,             \* chat_keys: each member's row
          keys,            \* number of group keys generated
          held,            \* chatKeysRef: the key each client holds, 0 if none
          task,            \* what each client is about
          rotations, failures,
          overtaken        \* history: users who rotated while a client was about
                           \* to upload a row for their previous pair

server == <<members, pub, row>>
client == <<held, task, keys>>
bounds == <<rotations, failures>>
vars == <<server, client, bounds, overtaken>>

NoRow == [key |-> 0, pair |-> 0]
Row == [key : 1 .. keys, pair : 1 .. MaxPairs]

\* A task: "created" after createChat, "listing" while it asks who has no row,
\* "wrapping" while it fetches public keys (todo) and wraps the key (wraps: for
\* which pair, 0 if none), and until its upload is answered.
NewTask(at, k, who) ==
  [at |-> at, key |-> k, todo |-> who, wraps |-> [x \in Users |-> 0]]
NoTask == NewTask("none", 0, {})
Created == NewTask("created", 0, {})
Listing(k) == NewTask("listing", k, {})
Wrapping(k, who) == NewTask("wrapping", k, who)

TypeOK ==
  /\ members \subseteq Users
  /\ pub \in [Users -> 0 .. MaxPairs]
  /\ row \in [Users -> Row \cup {NoRow}]
  /\ keys \in 0 .. MaxKeys
  /\ held \in [Users -> 0 .. keys]
  /\ task \in [Users -> [at : {"none", "created", "listing", "wrapping"},
                         key : 0 .. keys, todo : SUBSET Users,
                         wraps : [Users -> 0 .. MaxPairs]]]
  /\ \A u \in Users : task[u].at \in {"listing", "wrapping"} => task[u].key # 0
  /\ rotations \in 0 .. MaxRotations /\ failures \in 0 .. MaxFailures
  /\ overtaken \subseteq Users

Init ==
  /\ members = {}
  /\ pub = [u \in Users |-> 0]
  /\ row = [u \in Users |-> NoRow]
  /\ keys = 0
  /\ held = [u \in Users |-> 0]
  /\ task = [u \in Users |-> NoTask]
  /\ rotations = 0 /\ failures = 0
  /\ overtaken = {}

-----------------------------------------------------------------------------
\* The server.

\* set_public_key writes only into an empty field.
Publish(u) ==
  /\ pub[u] = 0 /\ MaxPairs > 0
  /\ pub' = [pub EXCEPT ![u] = 1]
  /\ UNCHANGED <<members, row, client, bounds, overtaken>>

\* A client that has wrapped a key for u's published pair, and not uploaded it.
AboutToUpload(u) == \E v \in Users : task[v].wraps[u] # 0 /\ task[v].wraps[u] = pub[u]

\* Fault: the rows wrapped for the previous pair stay.
RotateKeepingRows(u) ==
  /\ pub[u] \in 1 .. MaxPairs - 1 /\ rotations < MaxRotations
  /\ pub' = [pub EXCEPT ![u] = @ + 1]
  /\ rotations' = rotations + 1
  /\ overtaken' = IF AboutToUpload(u) THEN overtaken \cup {u} ELSE overtaken
  /\ UNCHANGED <<members, row, client, failures>>

\* rotate_keys: the new pair and the deletion of the user's rows in one commit.
Rotate(u) ==
  /\ pub[u] \in 1 .. MaxPairs - 1 /\ rotations < MaxRotations
  /\ pub' = [pub EXCEPT ![u] = @ + 1]
  /\ row' = [row EXCEPT ![u] = NoRow]
  /\ rotations' = rotations + 1
  /\ overtaken' = IF AboutToUpload(u) THEN overtaken \cup {u} ELSE overtaken
  /\ UNCHANGED <<members, client, failures>>

\* set_chat_keys: on_conflict_do_nothing.
Insert(k, wraps) ==
  [x \in Users |-> IF wraps[x] # 0 /\ row[x] = NoRow
                     THEN [key |-> k, pair |-> wraps[x]] ELSE row[x]]

\* members_without_keys
Missing == {x \in members : row[x] = NoRow}

-----------------------------------------------------------------------------
\* The clients.

Idle(u) == task[u].at = "none"
Busy == {u \in Users : ~Idle(u)}
MayStart(u) == Idle(u) /\ Cardinality(Busy) < MaxTasks
Become(u, t) == task' = [task EXCEPT ![u] = t]

\* The bound on keys is kept where a task starts, so that none is stuck by it.
KeyLeft == keys + Cardinality({u \in Users : task[u].at = "created"}) < MaxKeys

\* A chat of two has no key of its own: it is derived from the two pairs.
IsGroup == Cardinality(members) > 2

\* startChat: createChat makes the group, or returns the one with exactly these
\* members.  A user without a key pair creates the group and no key.
Start(u) ==
  /\ u \in Founders /\ members \in {{}, Founders}
  /\ members' = Founders
  /\ \/ MayStart(u) /\ pub[u] # 0 /\ KeyLeft /\ Become(u, Created)
     \/ pub[u] = 0 /\ UNCHANGED task
  /\ UNCHANGED <<pub, row, held, keys, bounds, overtaken>>

\* startChat: a new key, held at once, whether the group had one or not.
Generate(u) ==
  /\ task[u].at = "created" /\ keys < MaxKeys
  /\ keys' = keys + 1
  /\ held' = [held EXCEPT ![u] = keys + 1]
  /\ Become(u, Wrapping(keys + 1, Founders))
  /\ UNCHANGED <<server, bounds, overtaken>>

\* resolveChatKey, by openChat or by the synchronisation of all keys.
Resolve(u) ==
  /\ u \in members /\ IsGroup /\ held[u] = 0
  /\ row[u] # NoRow /\ row[u].pair = pub[u]
  /\ held' = [held EXCEPT ![u] = row[u].key]
  /\ UNCHANGED <<server, task, keys, bounds, overtaken>>

\* Fault: openChat does not look whether it has a key.
OpenWithoutKey(u) ==
  /\ u \in members /\ IsGroup /\ MayStart(u)
  /\ Become(u, Listing(held[u]))
  /\ UNCHANGED <<server, held, keys, bounds, overtaken>>

\* openChat hands the key it holds to those who have no row.
Open(u) ==
  /\ u \in members /\ IsGroup /\ held[u] # 0 /\ MayStart(u)
  /\ Become(u, Listing(held[u]))
  /\ UNCHANGED <<server, held, keys, bounds, overtaken>>

\* addMembers: the same for a newcomer x, if the client holds the key.
AddMember(u, x) ==
  /\ u \in members /\ IsGroup /\ x \notin members
  /\ members' = members \cup {x}
  /\ \/ held[u] # 0 /\ MayStart(u) /\ Become(u, Listing(held[u]))
     \/ held[u] = 0 /\ UNCHANGED task
  /\ UNCHANGED <<pub, row, held, keys, bounds, overtaken>>

\* getMembersWithoutKeys answers.
Listed(u) ==
  /\ task[u].at = "listing"
  /\ Become(u, IF Missing = {} THEN NoTask ELSE Wrapping(task[u].key, Missing))
  /\ UNCHANGED <<server, held, keys, bounds, overtaken>>

\* Fault: one member without a key pair spoils the hand-over to all.
WrapAllOrNothing(u, x) ==
  /\ task[u].at = "wrapping" /\ x \in task[u].todo
  /\ Become(u, IF pub[x] = 0 THEN NoTask
               ELSE [task[u] EXCEPT !.todo = @ \ {x}, !.wraps = [@ EXCEPT ![x] = pub[x]]])
  /\ UNCHANGED <<server, held, keys, bounds, overtaken>>

\* Member x's public key is fetched, and the group's key wrapped for it; if x
\* has none, x is left out.
Wrap(u, x) ==
  /\ task[u].at = "wrapping" /\ x \in task[u].todo
  /\ Become(u, [task[u] EXCEPT !.todo = @ \ {x}, !.wraps = [@ EXCEPT ![x] = pub[x]]])
  /\ UNCHANGED <<server, held, keys, bounds, overtaken>>

Failure == failures < MaxFailures /\ failures' = failures + 1

\* The public key could not be fetched: x is left out as well.
WrapFails(u, x) ==
  /\ Failure
  /\ task[u].at = "wrapping" /\ x \in task[u].todo
  /\ Become(u, [task[u] EXCEPT !.todo = @ \ {x}])
  /\ UNCHANGED <<server, held, keys, rotations, overtaken>>

\* setChatKeys with what there is.
Upload(u) ==
  /\ task[u].at = "wrapping" /\ task[u].todo = {}
  /\ row' = Insert(task[u].key, task[u].wraps)
  /\ Become(u, NoTask)
  /\ UNCHANGED <<members, pub, held, keys, bounds, overtaken>>

\* A call of the task fails and ends it.
Fail(u) ==
  /\ Failure
  /\ \/ task[u].at \in {"created", "listing"}
     \/ task[u].at = "wrapping" /\ task[u].todo = {}
  /\ Become(u, NoTask)
  /\ UNCHANGED <<server, held, keys, rotations, overtaken>>

\* The app is restarted, or its user logs out and in again.
Restart(u) ==
  /\ Failure
  /\ held' = [held EXCEPT ![u] = 0]
  /\ Become(u, NoTask)
  /\ UNCHANGED <<server, keys, rotations, overtaken>>

-----------------------------------------------------------------------------
Step(u) ==
  \/ Publish(u)
  \/ Rotate(u)
  \/ Start(u)
  \/ Generate(u)
  \/ Resolve(u)
  \/ Open(u)
  \/ Listed(u)
  \/ Upload(u)
  \/ Fail(u)
  \/ Restart(u)
  \/ \E x \in Users : AddMember(u, x) \/ Wrap(u, x) \/ WrapFails(u, x)

Next == \E u \in Users : Step(u)

Spec == Init /\ [][Next]_vars

\* What a client is about goes on until its call is answered.
Proceed(u) ==
  \/ Generate(u)
  \/ Listed(u)
  \/ \E x \in Users : Wrap(u, x)
  \/ Upload(u)

\* The hand-over counts on members who open the group again and again, and on
\* calls that are answered.
Fairness == \A u \in Users : SF_vars(Open(u)) /\ WF_vars(Proceed(u))

FairSpec == Spec /\ Fairness

-----------------------------------------------------------------------------
\* What must hold.

\* A row is wrapped for a pair that is not the published one only if the user
\* rotated between a client's look at the public key and its upload.
StaleOnlyIfOvertaken ==
  \A u \in Users : row[u] # NoRow /\ row[u].pair # pub[u] => u \in overtaken

\* As long as some member holds the key and opens the group now and then, every
\* member with a published pair gets a row, even if others have no pair.
OpeningHelps ==
  \A x \in Users :
    <>[](/\ x \in members /\ pub[x] # 0
         /\ \E h \in members : held[h] # 0)
      => <>[](row[x] # NoRow)
=============================================================================
