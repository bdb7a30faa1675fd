------------------------------ MODULE MediaCache ------------------------------
(***************************************************************************)
(* The pictures kept on the device: mediaCache.ts and the hook             *)
(* useCachedImage.  IndexedDB holds the files and, as one object, the      *)
(* index of their sizes and last uses; the changes of the index wait in    *)
(* memory and are written in batches by passes that queue up.  The sweep   *)
(* of old files and the clearing at log-out run beside them.               *)
(*                                                                         *)
(* Every file has size 1, days stand for the times of use, and of the      *)
(* object URLs only the set of the live ones is kept: which of them is the *)
(* oldest is left open.                                                    *)
(***************************************************************************)
EXTENDS Naturals, FiniteSets

CONSTANTS Keys,
          Cap,        \* MAX_BYTES
          MaxLive,    \* MAX_LIVE_URLS
          MaxDay,     \* bound of the days that pass
          MaxQueue    \* bound of the passes queued at a time

BoundsAssumption == /\ Cap \in Nat /\ MaxLive \in Nat \ {0}
                    /\ MaxDay \in Nat \ {0} /\ MaxQueue \in Nat \ {0}

VARIABLES file, index,              \* IndexedDB: the files, and day of use (0: not listed)
          touched, pending, timer,  \* changes of the index not taken by a pass yet
          pass, queue,              \* the pass that runs, and the passes not over
          sweep, clear,
          live,                     \* keys with an object URL that is not revoked
          load,                     \* inflight of the hook
          writing,                  \* putCachedMedia under way
          day,
          raced                     \* history: the account may be wrong from here on

vars == <<file, index, touched, pending, timer, pass, queue, sweep, clear,
          live, load, writing, day, raced>>
stored == <<file, index>>
account == <<touched, pending, timer>>
images == <<live, load, writing>>

Index == [Keys -> 0 .. MaxDay]
Indexed(i) == {k \in Keys : i[k] # 0}
Empty == [k \in Keys |-> 0]

NoPass == [pc |-> "idle", added |-> {}, used |-> {}, idx |-> Empty]
NoSweep == [pc |-> "idle", ahead |-> 0, idx |-> Empty]
NoClear == [pc |-> "idle", ahead |-> 0]
NoLoad == [k \in Keys |-> "no"]

Init ==
  /\ file = {} /\ index = Empty
  /\ touched = {} /\ pending = {} /\ timer = FALSE
  /\ pass = NoPass /\ queue = 0 /\ sweep = NoSweep /\ clear = NoClear
  /\ live = {} /\ load = NoLoad /\ writing = {}
  /\ day = 1 /\ raced = FALSE

------------------------------------------------------------------------------
(* Object URLs and the hook *)

\* putLiveUrl: over the limit, others than the new ones are revoked.
LiveWith(S) ==
  {L \in SUBSET (live \cup S) :
     /\ Cardinality(L) = IF Cardinality(live \cup S) <= MaxLive
                           THEN Cardinality(live \cup S) ELSE MaxLive
     /\ S # {} => L \cap S # {}}

\* An entry of inflight that was answered from the device stays there for
\* ever, and with it the URL, revoked or not.
Revoked(ld, gone) ==
  [k \in Keys |-> IF k \in gone /\ ld[k] = "hit" THEN "dead" ELSE ld[k]]

PutLive(S, ld) ==
  \E L \in LiveWith(S) : live' = L /\ load' = Revoked(ld, live \ L)

\* A component asks for a picture that has no URL; the request takes effect
\* when the device is read.  getCachedMedia finds the file ...
Found(k) ==
  /\ k \notin live /\ load[k] = "no" /\ k \in file
  /\ touched' = touched \cup {k} /\ timer' = TRUE
  /\ PutLive({k}, [load EXCEPT ![k] = "hit"])
  /\ UNCHANGED <<stored, pending, pass, queue, sweep, clear, writing, day, raced>>

\* ... or does not, and the network is asked.
NotFound(k) ==
  /\ k \notin live /\ load[k] = "no" /\ k \notin file
  /\ load' = [load EXCEPT ![k] = "net"]
  /\ UNCHANGED <<stored, account, pass, queue, sweep, clear, live, writing, day, raced>>

Downloaded(k) ==
  /\ load[k] = "net"
  /\ writing' = writing \cup {k}
  /\ PutLive({k}, [load EXCEPT ![k] = "no"])
  /\ UNCHANGED <<stored, account, pass, queue, sweep, clear, day, raced>>

DownloadFails(k) ==
  /\ load[k] = "net"
  /\ load' = [load EXCEPT ![k] = "no"]
  /\ UNCHANGED <<stored, account, pass, queue, sweep, clear, live, writing, day, raced>>

\* putCachedMedia: the file first, its size when that is done.
Written(k) ==
  /\ k \in writing
  /\ writing' = writing \ {k}
  /\ file' = file \cup {k}
  /\ pending' = pending \cup {k} /\ timer' = TRUE
  /\ UNCHANGED <<index, touched, pass, queue, sweep, clear, live, load, day, raced>>

WriteFails(k) ==
  /\ k \in writing
  /\ writing' = writing \ {k}
  /\ UNCHANGED <<stored, account, pass, queue, sweep, clear, live, load, day, raced>>

\* warmLiveUrls: many files in one transaction, before they are drawn.
Warm(S) ==
  LET found == (S \ live) \cap file IN
  /\ found # {}
  /\ touched' = touched \cup found /\ timer' = TRUE
  /\ PutLive(found, load)
  /\ UNCHANGED <<stored, pending, pass, queue, sweep, clear, writing, day, raced>>

------------------------------------------------------------------------------
(* The index *)

\* flushIndex, from the timer or because the app goes to the background.
Flush ==
  /\ timer /\ queue < MaxQueue
  /\ timer' = FALSE /\ queue' = queue + 1
  /\ UNCHANGED <<stored, touched, pending, pass, sweep, clear, images, day, raced>>

PassOver ==
  /\ pass' = NoPass /\ queue' = queue - 1
  /\ sweep' = [sweep EXCEPT !.ahead = IF @ = 0 THEN 0 ELSE @ - 1]
  /\ clear' = [clear EXCEPT !.ahead = IF @ = 0 THEN 0 ELSE @ - 1]

NothingToWrite ==
  /\ queue > 0 /\ pass.pc = "idle" /\ touched \cup pending = {}
  /\ PassOver
  /\ UNCHANGED <<stored, account, images, day, raced>>

TakeBatch ==
  /\ queue > 0 /\ pass.pc = "idle" /\ touched \cup pending # {}
  /\ pass' = [NoPass EXCEPT !.pc = "read", !.added = pending, !.used = touched]
  /\ touched' = {} /\ pending' = {}
  /\ UNCHANGED <<stored, timer, queue, sweep, clear, images, day, raced>>

\* The index is read, and the batch put into the copy.
ReadIndex ==
  /\ pass.pc = "read"
  /\ pass' = [pass EXCEPT !.pc = "evict",
       !.idx = [k \in Keys |->
         IF k \in pass.added \/ (k \in pass.used /\ index[k] # 0) THEN day ELSE index[k]]]
  /\ UNCHANGED <<stored, account, queue, sweep, clear, images, day, raced>>

Oldest(i) == {k \in Indexed(i) : \A l \in Indexed(i) : i[k] <= i[l]}
Over(i) == Cardinality(Indexed(i)) > Cap

\* evictIfNeeded: the files go one by one, the index last; a file may have been
\* put on the device again since it was listed.
Evict(k) ==
  /\ pass.pc = "evict" /\ Over(pass.idx) /\ k \in Oldest(pass.idx)
  /\ file' = file \ {k}
  /\ pass' = [pass EXCEPT !.idx[k] = 0]
  /\ raced' = (raced \/ k \in pending)
  /\ UNCHANGED <<index, account, queue, sweep, clear, images, day>>

\* Fault: what waited is forgotten when the index is written, not when it
\* was taken.
FaultWriteIndex ==
  /\ pass.pc = "evict" /\ ~Over(pass.idx)
  /\ index' = pass.idx /\ pending' = {}
  /\ PassOver
  /\ raced' = (raced \/ sweep.pc = "delete")
  /\ UNCHANGED <<file, touched, timer, images, day>>

\* The sweep and the clearing may have changed the index since it was read,
\* or hold a copy that lacks this batch.
WriteIndex ==
  /\ pass.pc = "evict" /\ ~Over(pass.idx)
  /\ index' = pass.idx
  /\ PassOver
  /\ raced' = (raced \/ sweep.pc = "delete")
  /\ UNCHANGED <<file, account, images, day>>

PassFails ==
  /\ pass.pc \in {"read", "evict"}
  /\ PassOver /\ raced' = TRUE
  /\ UNCHANGED <<stored, account, images, day>>

------------------------------------------------------------------------------
(* Sweep, clearing, restart *)

StartSweep ==
  /\ sweep.pc = "idle" /\ queue < MaxQueue
  /\ timer' = FALSE /\ queue' = queue + 1
  /\ sweep' = [pc |-> "wait", ahead |-> queue + 1, idx |-> Empty]
  /\ UNCHANGED <<stored, touched, pending, pass, clear, images, day, raced>>

Expired(i) == {k \in Indexed(i) : i[k] < day}

SweepReads ==
  /\ sweep.pc = "wait" /\ sweep.ahead = 0
  /\ sweep' = IF Expired(index) = {} THEN NoSweep
                ELSE [sweep EXCEPT !.pc = "delete", !.idx = index]
  /\ UNCHANGED <<stored, account, pass, queue, clear, images, day, raced>>

\* A file may have been put on the device again since the index was read.
SweepDeletes(k) ==
  /\ sweep.pc = "delete" /\ k \in Expired(sweep.idx)
  /\ file' = file \ {k}
  /\ sweep' = [sweep EXCEPT !.idx[k] = 0]
  /\ raced' = (raced \/ k \in pending \/ pass.pc # "idle")
  /\ UNCHANGED <<index, account, pass, queue, clear, images, day>>

SweepWrites ==
  /\ sweep.pc = "delete" /\ Expired(sweep.idx) = {}
  /\ index' = sweep.idx /\ sweep' = NoSweep
  /\ raced' = (raced \/ pass.pc # "idle")
  /\ UNCHANGED <<file, account, pass, queue, clear, images, day>>

SweepFails ==
  /\ sweep.pc = "delete"
  /\ sweep' = NoSweep /\ raced' = TRUE
  /\ UNCHANGED <<stored, account, pass, queue, clear, images, day>>

\* Fault: a clearing takes the passes under way for over.
FaultStartClear ==
  /\ clear.pc = "idle"
  /\ live' = {} /\ load' = Revoked(load, live)
  /\ timer' = FALSE /\ touched' = {} /\ pending' = {} /\ queue' = 0
  /\ clear' = [pc |-> "wait", ahead |-> 0]
  /\ UNCHANGED <<stored, pass, sweep, writing, day, raced>>

StartClear ==
  /\ clear.pc = "idle"
  /\ live' = {} /\ load' = Revoked(load, live)
  /\ timer' = FALSE /\ touched' = {} /\ pending' = {}
  /\ clear' = [pc |-> "wait", ahead |-> queue]
  /\ UNCHANGED <<stored, pass, queue, sweep, writing, day, raced>>

\* What began after the clearing did may come to its end before it.
Clear ==
  /\ clear.pc = "wait" /\ clear.ahead = 0
  /\ file' = {} /\ index' = Empty /\ clear' = NoClear
  /\ raced' = (raced \/ pass.pc # "idle" \/ sweep.pc = "delete" \/ pending # {})
  /\ UNCHANGED <<account, pass, queue, sweep, images, day>>

ClearFails ==
  /\ clear.pc = "wait" /\ clear.ahead = 0
  /\ clear' = NoClear /\ raced' = TRUE
  /\ UNCHANGED <<stored, account, pass, queue, sweep, images, day>>

\* The app is killed: IndexedDB is all that is left.
Restart ==
  /\ raced' = (raced \/ pending # {} \/ pass.pc # "idle" \/ sweep.pc = "delete"
                     \/ clear.pc # "idle")
  /\ touched' = {} /\ pending' = {} /\ timer' = FALSE
  /\ pass' = NoPass /\ queue' = 0 /\ sweep' = NoSweep /\ clear' = NoClear
  /\ live' = {} /\ load' = NoLoad /\ writing' = {}
  /\ UNCHANGED <<stored, day>>

NewDay ==
  /\ day < MaxDay /\ day' = day + 1
  /\ UNCHANGED <<stored, account, pass, queue, sweep, clear, images, raced>>

Next ==
  \/ \E k \in Keys : \/ Found(k) \/ NotFound(k)
                     \/ Downloaded(k) \/ DownloadFails(k)
                     \/ Written(k) \/ WriteFails(k)
                     \/ Evict(k) \/ SweepDeletes(k)
  \/ \E S \in SUBSET Keys : Warm(S)
  \/ Flush \/ NothingToWrite \/ TakeBatch \/ ReadIndex \/ WriteIndex \/ PassFails
  \/ StartSweep \/ SweepReads \/ SweepWrites \/ SweepFails
  \/ StartClear \/ Clear \/ ClearFails \/ Restart \/ NewDay

Spec == Init /\ [][Next]_vars

------------------------------------------------------------------------------
TypeOK ==
  /\ file \subseteq Keys /\ index \in Index
  /\ touched \subseteq Keys /\ pending \subseteq Keys /\ timer \in BOOLEAN
  /\ pass \in [pc : {"idle", "read", "evict"}, added : SUBSET Keys,
               used : SUBSET Keys, idx : Index]
  /\ queue \in 0 .. MaxQueue /\ (pass.pc # "idle" => queue > 0)
  /\ sweep \in [pc : {"idle", "wait", "delete"}, ahead : 0 .. MaxQueue, idx : Index]
  /\ clear \in [pc : {"idle", "wait"}, ahead : 0 .. MaxQueue]
  /\ live \subseteq Keys /\ load \in [Keys -> {"no", "net", "hit", "dead"}]
  /\ writing \subseteq Keys
  /\ day \in 1 .. MaxDay /\ raced \in BOOLEAN

\* The index is what the limit of the cache is kept by.  Unless one of the
\* overlaps and failures above happened, it lists every file on the device
\* that no pass has still to list, and no file that is gone (a clearing under
\* way aside); and it never lists more than the limit allows.
Accounted ==
  /\ Cardinality(Indexed(index)) <= Cap
  /\ ~raced /\ clear.pc = "idle" =>
       /\ file \subseteq Indexed(index) \cup pending \cup pass.added
       /\ pass.pc = "idle" /\ sweep.pc # "delete" => Indexed(index) \subseteq file
==============================================================================
