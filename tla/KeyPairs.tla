------------------------------ MODULE KeyPairs ------------------------------
(***************************************************************************)
(* The key pair of one account on its devices: setupCrypto and             *)
(* createAndBackupKeypair of App.tsx over the IndexedDB of crypto.js, and  *)
(* the two fields of the server, which these write only while they are     *)
(* empty.  rotate_keys replaces both: nothing in the client calls it, and  *)
(* GroupKeys has what it does to a group.                                  *)
(*                                                                         *)
(* A pair is a number; the two halves are stored under two keys of         *)
(* IndexedDB, one put after the other.  The backup is encrypted with the   *)
(* password of the account, which never changes, so it opens with every    *)
(* password the server let in; that it is damaged is a failure like those  *)
(* of the network and of the disk.  A task is one call of setupCrypto.     *)
(***************************************************************************)
EXTENDS Naturals

CONSTANTS Devices, Tasks, MaxPairs     \* bound of the pairs generated

MaxPairsAssumption == MaxPairs \in Nat

VARIABLES pub, backup,      \* server: users.public_key and users.key_backup
          priv, publ,       \* IndexedDB of a device: the two halves
          mem,              \* keyPairRef of the running app, by halves
          task,
          made,             \* pairs generated so far
          tripped           \* history: a step of a set-up failed, or two overlapped

vars == <<pub, backup, priv, publ, mem, task, made, tripped>>

Pair == 1 .. MaxPairs
Half == 0 .. MaxPairs                  \* 0: not there
Halves == [priv : Half, publ : Half]
NoPair == [priv |-> 0, publ |-> 0]
Both(p) == [priv |-> p, publ |-> p]

Pc == {"idle", "load", "loaded", "fetch", "restore", "restored",
       "store", "stored", "publish", "save"}

Task == [pc : Pc, dev : Devices, password : BOOLEAN, kp : Halves]
Idle(d) == [pc |-> "idle", dev |-> d, password |-> FALSE, kp |-> NoPair]

Init ==
  /\ pub = 0 /\ backup = 0
  /\ priv = [d \in Devices |-> 0] /\ publ = [d \in Devices |-> 0]
  /\ mem = [d \in Devices |-> NoPair]
  /\ task \in [Tasks -> {Idle(d) : d \in Devices}]
  /\ made = 0 /\ tripped = FALSE

Running(d) == {t \in Tasks : task[t].pc # "idle" /\ task[t].dev = d}
SomeoneRuns == \E t \in Tasks : task[t].pc # "idle"

Goto(t, pc) == task' = [task EXCEPT ![t] = [@ EXCEPT !.pc = pc]]
With(t, pc, kp) == task' = [task EXCEPT ![t] = [@ EXCEPT !.pc = pc, !.kp = kp]]
Over(t) == task' = [task EXCEPT ![t] = Idle(@.dev)]

\* The set-up begins, with the password at a log-in or a registration and
\* without it at a start-up; a registration goes straight to generating.
Begin(t, d, password, isNew) ==
  /\ task[t].pc = "idle"
  /\ isNew => password /\ made = 0
  /\ task' = [task EXCEPT ![t] =
       [pc |-> IF isNew THEN "store" ELSE "load", dev |-> d, password |-> password,
        kp |-> IF isNew THEN Both(1) ELSE NoPair]]
  /\ made' = IF isNew THEN 1 ELSE made
  /\ made' \in Half
  /\ tripped' = (tripped \/ SomeoneRuns)
  /\ UNCHANGED <<pub, backup, priv, publ, mem>>

\* loadKeypair: two reads, one after the other.
LoadPrivate(t) ==
  /\ task[t].pc = "load"
  /\ With(t, "loaded", [priv |-> priv[task[t].dev], publ |-> 0])
  /\ UNCHANGED <<pub, backup, priv, publ, mem, made, tripped>>

Complete(kp) == kp.priv # 0 /\ kp.publ # 0

LoadPublic(t) ==
  /\ task[t].pc = "loaded"
  /\ LET kp == [task[t].kp EXCEPT !.publ = publ[task[t].dev]]
         d == task[t].dev IN
     IF Complete(kp)
       THEN mem' = [mem EXCEPT ![d] = kp] /\ Over(t)
       ELSE /\ UNCHANGED mem
            /\ IF task[t].password THEN With(t, "fetch", NoPair) ELSE Over(t)
  /\ UNCHANGED <<pub, backup, priv, publ, made, tripped>>

\* generateKeypairFull, then the first put of storeKeypair is due.
Generate(t) ==
  /\ made + 1 \in Pair
  /\ made' = made + 1
  /\ With(t, "store", Both(made + 1))

\* Fault: a log-in does not look for a backup.
FaultFetchBackup(t) ==
  /\ task[t].pc = "fetch"
  /\ Generate(t)
  /\ UNCHANGED <<pub, backup, priv, publ, mem, tripped>>

\* getKeyBackup: a failure reads as "no backup".
FetchBackup(t) ==
  /\ task[t].pc = "fetch"
  /\ IF backup # 0
       THEN With(t, "restore", Both(backup)) /\ UNCHANGED made
       ELSE Generate(t)
  /\ UNCHANGED <<pub, backup, priv, publ, mem, tripped>>

FetchFails(t) ==
  /\ task[t].pc \in {"fetch", "restore", "restored"}
  /\ Generate(t)
  /\ tripped' = TRUE
  /\ UNCHANGED <<pub, backup, priv, publ, mem>>

\* storeKeypair: the private half, then the public one.
StorePrivate(t) ==
  /\ task[t].pc \in {"restore", "store"}
  /\ priv' = [priv EXCEPT ![task[t].dev] = task[t].kp.priv]
  /\ Goto(t, IF task[t].pc = "restore" THEN "restored" ELSE "stored")
  /\ UNCHANGED <<pub, backup, publ, mem, made, tripped>>

StorePublic(t) ==
  /\ task[t].pc \in {"restored", "stored"}
  /\ publ' = [publ EXCEPT ![task[t].dev] = task[t].kp.publ]
  /\ mem' = [mem EXCEPT ![task[t].dev] = task[t].kp]
  /\ IF task[t].pc = "restored" THEN Over(t) ELSE Goto(t, "publish")
  /\ UNCHANGED <<pub, backup, priv, made, tripped>>

StoreFails(t) ==
  /\ task[t].pc \in {"store", "stored"}
  /\ Over(t) /\ tripped' = TRUE
  /\ UNCHANGED <<pub, backup, priv, publ, mem, made>>

\* The server takes a public key only into an empty field, and says nothing;
\* that the request failed is swallowed.
Publish(t) ==
  /\ task[t].pc = "publish"
  /\ pub' = IF pub = 0 THEN task[t].kp.publ ELSE pub
  /\ Goto(t, "save")
  /\ UNCHANGED <<backup, priv, publ, mem, made, tripped>>

PublishFails(t) ==
  /\ task[t].pc = "publish"
  /\ Goto(t, "save") /\ tripped' = TRUE
  /\ UNCHANGED <<pub, backup, priv, publ, mem, made>>

SaveBackup(t) ==
  /\ task[t].pc = "save"
  /\ backup' = IF backup = 0 THEN task[t].kp.priv ELSE backup
  /\ Over(t)
  /\ UNCHANGED <<pub, priv, publ, mem, made, tripped>>

SaveFails(t) ==
  /\ task[t].pc = "save"
  /\ Over(t) /\ tripped' = TRUE
  /\ UNCHANGED <<pub, backup, priv, publ, mem, made>>

\* The app of a device dies, in the middle of a set-up or not.
Restart(d) ==
  /\ mem' = [mem EXCEPT ![d] = NoPair]
  /\ task' = [t \in Tasks |-> IF t \in Running(d) THEN Idle(d) ELSE task[t]]
  /\ tripped' = (tripped \/ Running(d) # {})
  /\ UNCHANGED <<pub, backup, priv, publ, made>>

Step(t) == \/ LoadPrivate(t) \/ LoadPublic(t) \/ FetchBackup(t)
           \/ StorePrivate(t) \/ StorePublic(t) \/ Publish(t) \/ SaveBackup(t)
Fails(t) == FetchFails(t) \/ StoreFails(t) \/ PublishFails(t) \/ SaveFails(t)

Next == \/ \E t \in Tasks, d \in Devices, p, n \in BOOLEAN : Begin(t, d, p, n)
        \/ \E t \in Tasks : Step(t) \/ Fails(t)
        \/ \E d \in Devices : Restart(d)

Spec == Init /\ [][Next]_vars

------------------------------------------------------------------------------
TypeOK ==
  /\ pub \in Half /\ backup \in Half /\ made \in Half
  /\ priv \in [Devices -> Half] /\ publ \in [Devices -> Half]
  /\ mem \in [Devices -> Halves]
  /\ task \in [Tasks -> Task]
  /\ tripped \in BOOLEAN

\* As long as every set-up ran alone and to its end, all devices work with one
\* pair: the one the server publishes to the others and keeps the backup of.
OnePairUnlessTripped ==
  tripped \/ \A d \in Devices :
    /\ mem[d] # NoPair /\ Running(d) = {} => mem[d] = Both(pub) /\ backup = pub
    /\ Complete([priv |-> priv[d], publ |-> publ[d]]) => priv[d] = publ[d]
==============================================================================
