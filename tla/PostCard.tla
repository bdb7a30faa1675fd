------------------------------ MODULE PostCard ------------------------------
(***************************************************************************)
(* The heart of PostCard.tsx, which shows the change before the server has *)
(* made it; the bookmark is the same.  One post.                           *)
(***************************************************************************)
EXTENDS Naturals

CONSTANT Taps           \* requests under way at a time

VARIABLES marked, saved,     \* the server; the flag in the saved list
          card, tap,
          raced              \* history: what the card shows may be wrong

vars == <<marked, saved, card, tap, raced>>

NoCard == [there |-> FALSE, on |-> FALSE]
NoTap == [pc |-> "idle", was |-> FALSE, mine |-> FALSE, saw |-> FALSE]

Init == /\ marked = FALSE /\ saved \in BOOLEAN
        /\ card = NoCard /\ tap = [t \in Taps |-> NoTap] /\ raced = FALSE

\* A card takes the mark from the list when it appears, and not from the list
\* that comes after.
Listed(fresh) ==
  /\ card' = IF card.there THEN card
               ELSE [there |-> TRUE, on |-> IF fresh THEN marked ELSE saved]
  /\ saved' = IF fresh THEN marked ELSE saved
  /\ raced' = (raced \/ (~card.there /\ ~fresh /\ saved # marked))
  /\ UNCHANGED <<marked, tap>>

LeaveList ==
  /\ card.there
  /\ card' = NoCard
  /\ tap' = [t \in Taps |-> [tap[t] EXCEPT !.mine = FALSE]]
  /\ raced' = \E t \in Taps : tap[t].pc # "idle"
  /\ UNCHANGED <<marked, saved>>

\* handleLike, handleBookmark: nothing keeps a second tap from coming.
Tap(t) ==
  /\ card.there /\ tap[t].pc = "idle"
  /\ tap' = [tap EXCEPT ![t] = [pc |-> "sent", was |-> card.on, mine |-> TRUE,
                               saw |-> FALSE]]
  /\ card' = [card EXCEPT !.on = ~@]
  /\ UNCHANGED <<marked, saved, raced>>

\* toggle_like, toggle_bookmark: the server looks whether the row is there ...
Read(t) ==
  /\ tap[t].pc = "sent"
  /\ tap' = [tap EXCEPT ![t].pc = "read", ![t].saw = marked]
  /\ raced' = (raced \/ \E u \in Taps \ {t} : tap[u].pc = "read")
  /\ UNCHANGED <<marked, saved, card>>

\* ... and then deletes it, if it still is there, or inserts it, which the key of
\* the table refuses when another request has done so, and commits.
Toggle(t) ==
  /\ tap[t].pc = "read" /\ (tap[t].saw \/ ~marked)
  /\ marked' = ~tap[t].saw
  /\ tap' = [tap EXCEPT ![t].pc = "done"]
  /\ UNCHANGED <<saved, card, raced>>

\* Fault: the answer sets the mark the tap had meant.
FaultToggled(t) ==
  /\ tap[t].pc = "done"
  /\ card' = IF tap[t].mine THEN [card EXCEPT !.on = ~tap[t].was] ELSE card
  /\ tap' = [tap EXCEPT ![t] = NoTap]
  /\ UNCHANGED <<marked, saved, raced>>

Toggled(t) ==
  /\ tap[t].pc = "done"
  /\ tap' = [tap EXCEPT ![t] = NoTap]
  /\ UNCHANGED <<marked, saved, card, raced>>

\* The request is refused, or its answer lost: back to what was before the tap.
TapFails(t) ==
  /\ tap[t].pc # "idle"
  /\ card' = IF tap[t].mine THEN [card EXCEPT !.on = tap[t].was] ELSE card
  /\ raced' = (raced \/ tap[t].pc # "sent" \/ card.on = tap[t].was
               \/ \E u \in Taps \ {t} : tap[u].pc # "idle")
  /\ tap' = [tap EXCEPT ![t] = NoTap]
  /\ UNCHANGED <<marked, saved>>

\* The connection breaks, and the server serves the request all the same.
TapLost(t) ==
  /\ tap[t].mine
  /\ card' = [card EXCEPT !.on = tap[t].was]
  /\ raced' = TRUE
  /\ tap' = [tap EXCEPT ![t].mine = FALSE]
  /\ UNCHANGED <<marked, saved>>

Next == \/ \E fresh \in BOOLEAN : Listed(fresh)
        \/ LeaveList
        \/ \E t \in Taps : \/ Tap(t) \/ Read(t) \/ Toggle(t)
                          \/ Toggled(t) \/ TapFails(t) \/ TapLost(t)

Spec == Init /\ [][Next]_vars

------------------------------------------------------------------------------
TypeOK ==
  /\ marked \in BOOLEAN /\ saved \in BOOLEAN /\ raced \in BOOLEAN
  /\ card \in [there : BOOLEAN, on : BOOLEAN]
  /\ tap \in [Taps -> [pc : {"idle", "sent", "read", "done"},
                       was : BOOLEAN, mine : BOOLEAN, saw : BOOLEAN]]

\* However fast one taps, the card ends with what the server has, as long as the
\* server serves the taps one at a time: unless it looked for two before it had
\* written the first, the card came from an older list, or a tap failed after the
\* server had taken it or beside another one.
MarkIsTrue ==
  ~raced /\ card.there /\ (\A t \in Taps : tap[t].pc = "idle") => card.on = marked
==============================================================================
