------------------------------- MODULE DataCache -------------------------------
(***************************************************************************)
(* Lists that are shown from the device first and from the server then:    *)
(* withCache of dataCache.ts as loadAlbums, the album, the post and the    *)
(* profile use it, and loadChats of App.tsx, which does the same by hand.  *)
(*                                                                         *)
(* One screen shows what one key is about, an album say, and goes from key *)
(* to key; a value is the key with the version of the server's answer.     *)
(***************************************************************************)
EXTENDS Naturals

CONSTANTS Keys, Calls,
          MaxVersion, MaxDay       \* bounds of the changes and of the days

BoundsAssumption == MaxVersion \in Nat /\ MaxDay \in Nat \ {0} /\ "none" \notin Keys

VARIABLES version,       \* what the server would answer
          entry,         \* IndexedDB dragram_data
          about, shown,  \* the screen: the key it is about, and what it shows
          call,
          clearing,      \* clearDataCache has begun
          day,
          newest,        \* history: newest version shown since the screen is about its key
          raced          \* history: loads overlapped, a log-out overtook one, or
                         \* an answer could not be saved or the device not cleared

vars == <<version, entry, about, shown, call, clearing, day, newest, raced>>

Version == 0 .. MaxVersion
Nothing == [key |-> "none", version |-> 0]
Value == [key : Keys, version : Version]
NoEntry == [version |-> 0, day |-> 0]            \* no entry: saved on no day

Call == [key : Keys \cup {"none"}, read : {"due", "ready", "over"},
         net : {"asked", "served", "ready", "write", "over"}, gotFresh : BOOLEAN,
         cached : Version, fresh : Version]
Idle == [key |-> "none", read |-> "over", net |-> "over", gotFresh |-> FALSE,
         cached |-> 0, fresh |-> 0]

Init ==
  /\ version = [k \in Keys |-> 0]
  /\ entry = [k \in Keys |-> NoEntry]
  /\ about = "none" /\ shown = Nothing
  /\ call = [c \in Calls |-> Idle]
  /\ clearing = FALSE /\ day = 1
  /\ newest = 0 /\ raced = FALSE

InFlight == {c \in Calls : call[c].read # "over" \/ call[c].net # "over"}
Set(c, r) == call' = [call EXCEPT ![c] = r]

\* The screen opens, is opened for another key, or loads once more.  Without
\* "always" the device is asked only if nothing is shown, as loadChats does.
Load(c, k, always) ==
  /\ c \notin InFlight
  /\ about' = k
  /\ shown' = IF k = about THEN shown ELSE Nothing
  /\ newest' = IF k = about THEN newest ELSE 0
  /\ Set(c, [Idle EXCEPT !.key = k, !.net = "asked",
               !.read = IF always \/ shown' = Nothing THEN "due" ELSE "over"])
  /\ raced' = (raced \/ InFlight # {} \/ clearing)
  /\ UNCHANGED <<version, entry, clearing, day>>

\* readCache: an entry of more than a day is none.
Usable(k) == entry[k].day # 0 /\ entry[k].day + 1 >= day

ReadEntry(c) ==
  LET q == call[c] IN
  /\ q.read = "due"
  /\ Set(c, IF Usable(q.key) /\ ~q.gotFresh
              THEN [q EXCEPT !.read = "ready", !.cached = entry[q.key].version]
              ELSE [q EXCEPT !.read = "over"])
  /\ UNCHANGED <<version, entry, about, shown, clearing, day, newest, raced>>

Show(k, n) ==
  /\ shown' = [key |-> k, version |-> n]
  /\ newest' = IF k = about /\ n > newest THEN n ELSE newest

\* The pictures are ready: the saved value is shown, if it is still of use.
ShowCached(c) ==
  LET q == call[c] IN
  /\ q.read = "ready"
  /\ IF q.gotFresh THEN UNCHANGED <<shown, newest>> ELSE Show(q.key, q.cached)
  /\ Set(c, [q EXCEPT !.read = "over"])
  /\ UNCHANGED <<version, entry, about, clearing, day, raced>>

Serve(c) ==
  /\ call[c].net = "asked"
  /\ Set(c, [call[c] EXCEPT !.net = "served", !.fresh = version[call[c].key]])
  /\ UNCHANGED <<version, entry, about, shown, clearing, day, newest, raced>>

\* Fault: the flag is set when the pictures are ready.
FaultArrive(c) ==
  /\ call[c].net = "served"
  /\ Set(c, [call[c] EXCEPT !.net = "ready"])
  /\ UNCHANGED <<version, entry, about, shown, clearing, day, newest, raced>>

\* The flag is set before the pictures are looked for.
Arrive(c) ==
  /\ call[c].net = "served"
  /\ Set(c, [call[c] EXCEPT !.net = "ready", !.gotFresh = TRUE])
  /\ UNCHANGED <<version, entry, about, shown, clearing, day, newest, raced>>

Fails(c) ==
  /\ call[c].net \in {"asked", "served"}
  /\ Set(c, [call[c] EXCEPT !.net = "over"])
  /\ UNCHANGED <<version, entry, about, shown, clearing, day, newest, raced>>

ShowFresh(c) ==
  /\ call[c].net = "ready"
  /\ Show(call[c].key, call[c].fresh)
  /\ Set(c, [call[c] EXCEPT !.net = "write"])
  /\ UNCHANGED <<version, entry, about, clearing, day, raced>>

\* writeCache, for which nobody waits.
WriteEntry(c) ==
  LET q == call[c] IN
  /\ q.net = "write"
  /\ entry' = [entry EXCEPT ![q.key] = [version |-> q.fresh, day |-> day]]
  /\ Set(c, [q EXCEPT !.net = "over"])
  /\ UNCHANGED <<version, about, shown, clearing, day, newest, raced>>

WriteFails(c) ==
  /\ call[c].net = "write"
  /\ Set(c, [call[c] EXCEPT !.net = "over"])
  /\ raced' = TRUE
  /\ UNCHANGED <<version, entry, about, shown, clearing, day, newest>>

\* sweepDataCache, once a day.
Sweep ==
  /\ \E k \in Keys : entry[k].day # 0 /\ ~Usable(k)
  /\ entry' = [k \in Keys |-> IF Usable(k) THEN entry[k] ELSE NoEntry]
  /\ UNCHANGED <<version, about, shown, call, clearing, day, newest, raced>>

\* Log-out clears the screen at once and the device in a while.
LogOut ==
  /\ about # "none"
  /\ about' = "none" /\ shown' = Nothing /\ newest' = 0
  /\ clearing' = TRUE
  /\ raced' = (raced \/ InFlight # {} \/ clearing)
  /\ UNCHANGED <<version, entry, call, day>>

ClearData ==
  /\ clearing
  /\ clearing' = FALSE
  /\ entry' = [k \in Keys |-> NoEntry]
  /\ UNCHANGED <<version, about, shown, call, day, newest, raced>>

\* That it fails is swallowed, and everything stays.
ClearFails ==
  /\ clearing
  /\ clearing' = FALSE /\ raced' = TRUE
  /\ UNCHANGED <<version, entry, about, shown, call, day, newest>>

Change(k) ==
  /\ version[k] < MaxVersion
  /\ version' = [version EXCEPT ![k] = @ + 1]
  /\ UNCHANGED <<entry, about, shown, call, clearing, day, newest, raced>>

NewDay ==
  /\ day < MaxDay /\ day' = day + 1
  /\ UNCHANGED <<version, entry, about, shown, call, clearing, newest, raced>>

Next ==
  \/ \E c \in Calls, k \in Keys, a \in BOOLEAN : Load(c, k, a)
  \/ \E c \in Calls : \/ ReadEntry(c) \/ ShowCached(c) \/ Serve(c) \/ Arrive(c)
                      \/ Fails(c) \/ ShowFresh(c) \/ WriteEntry(c) \/ WriteFails(c)
  \/ \E k \in Keys : Change(k)
  \/ Sweep \/ LogOut \/ ClearData \/ ClearFails \/ NewDay

Spec == Init /\ [][Next]_vars

------------------------------------------------------------------------------
TypeOK ==
  /\ version \in [Keys -> Version]
  /\ entry \in [Keys -> [version : Version, day : 0 .. MaxDay]]
  /\ about \in Keys \cup {"none"} /\ shown \in Value \cup {Nothing}
  /\ call \in [Calls -> Call]
  /\ clearing \in BOOLEAN /\ day \in 1 .. MaxDay
  /\ newest \in Version /\ raced \in BOOLEAN

\* As long as one load runs at a time and the device does as told, the screen shows what
\* it is about and is never taken back from an answer of the server to an older
\* saved one; and nothing is left on the device once it was cleared.
ShownIsRight ==
  ~raced => /\ shown # Nothing => shown.key = about /\ shown.version >= newest
            /\ about = "none" /\ ~clearing => \A k \in Keys : entry[k] = NoEntry

------------------------------------------------------------------------------
(* Why it holds (proved in ClientProofs), as long as nothing raced.           *)

\* Every load is for a key.
Keyed == \A c \in InFlight : call[c].key \in Keys

\* One load at a time, for the key on the screen, and none beside a log-out.
Alone ==
  /\ \A c, d \in InFlight : c = d
  /\ \A c \in InFlight : call[c].key = about
  /\ about = "none" \/ clearing => InFlight = {}
  /\ clearing => about = "none"

\* The server's version is the newest: nothing that was saved, read or shown is
\* newer than an answer that comes after it.
Ordered ==
  /\ \A k \in Keys : entry[k].version <= version[k]
  /\ about # "none" => newest <= version[about]
  /\ \A c \in InFlight : LET q == call[c] IN
       /\ q.read = "ready" => q.cached <= version[about]
       /\ q.net \in {"served", "ready", "write"} =>
            /\ newest <= q.fresh /\ q.fresh <= version[about]
            /\ entry[about].version <= q.fresh
            /\ q.read = "ready" => q.cached <= q.fresh

\* A saved value that may still be shown is as new as what was shown: it is not
\* used after the answer, and written anew before the next load begins.
Kept ==
  /\ \A c \in InFlight : LET q == call[c] IN
       /\ q.net \in {"ready", "write"} => q.gotFresh
       /\ q.read = "ready" /\ ~q.gotFresh =>
            newest <= q.cached /\ (entry[about].day # 0 => q.cached <= entry[about].version)
  /\ about # "none" /\ entry[about].day # 0 /\ (\A c \in InFlight : call[c].net # "write")
       => newest <= entry[about].version

InOrder == Keyed /\ ShownIsRight /\ (~raced => Alone /\ Ordered /\ Kept)
==============================================================================
