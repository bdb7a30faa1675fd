----------------------------- MODULE PostThread -----------------------------
(***************************************************************************)
(* PostThread.tsx: a post with its comments, which are written, answered   *)
(* and removed while it stays open, and by other people meanwhile.  The    *)
(* list is loaded once, when the thread opens, and the screen then follows *)
(* the answers to its own requests.  A thread that is left is forgotten    *)
(* with all it waits for; its requests go on.  A comment is the number of  *)
(* the text that was typed, here or by somebody else.                      *)
(***************************************************************************)
EXTENDS Naturals, FiniteSets

CONSTANTS Limit,            \* comments in the answer (50 in the code), the oldest
          MaxTexts          \* bound of the texts typed

PostThreadAssumption == Limit \in Nat /\ MaxTexts \in Nat

VARIABLES lives, comments, mine,     \* the server: the post, its comments, one's own of them
          posting, removing,         \* requests the server has still to take
          thread, page, shown,       \* the screen: its state, the answer, the list
          draft, typed, quote,       \* the field, the texts so far, the comment being answered
          sending, waiting,          \* what an answer is awaited for: a comment, removals
          raced                      \* history: one came back before a request of before was
                                     \* taken, an answer was lost, or the list is not all

server == <<lives, comments, mine, posting, removing>>
field == <<draft, typed, quote>>
vars == <<server, thread, page, shown, field, sending, waiting, raced>>

Text == 1 .. MaxTexts

Init == /\ lives = TRUE /\ comments = {} /\ mine = {} /\ posting = {} /\ removing = {}
        /\ thread = "closed" /\ page = {} /\ shown = {}
        /\ draft = 0 /\ typed = 0 /\ quote = 0
        /\ sending = 0 /\ waiting = {} /\ raced = FALSE

------------------------------------------------------------------------------
(* The server.                                                              *)

\* add_comment and delete_comment commit; the answer follows.  A comment of
\* nobody's or of a post that is gone is refused, which is as if it were lost.
PostTaken(c) ==
  /\ c \in posting /\ lives
  /\ posting' = posting \ {c} /\ comments' = comments \cup {c}
  /\ UNCHANGED <<lives, mine, removing, thread, page, shown, field, sending, waiting, raced>>

RemoveTaken(c) ==
  /\ c \in removing
  /\ removing' = removing \ {c} /\ comments' = comments \ {c}
  /\ UNCHANGED <<lives, mine, posting, thread, page, shown, field, sending, waiting, raced>>

Lost(c) ==
  /\ c \in posting \cup removing
  /\ posting' = posting \ {c} /\ removing' = removing \ {c}
  /\ UNCHANGED <<lives, comments, mine, thread, page, shown, field, sending, waiting, raced>>

\* Other people write and remove comments of theirs.
OthersWrite ==
  /\ lives /\ typed < MaxTexts
  /\ typed' = typed + 1 /\ comments' = comments \cup {typed + 1}
  /\ UNCHANGED <<lives, mine, posting, removing, thread, page, shown, draft, quote,
                 sending, waiting, raced>>

OthersRemove(c) ==
  /\ c \in comments \ mine /\ comments' = comments \ {c}
  /\ UNCHANGED <<lives, mine, posting, removing, thread, page, shown, field,
                 sending, waiting, raced>>

\* delete_post takes the comments along; its author may be somebody else.
PostGoes ==
  /\ lives /\ lives' = FALSE /\ comments' = {}
  /\ UNCHANGED <<mine, posting, removing, thread, page, shown, field, sending, waiting, raced>>

------------------------------------------------------------------------------
(* The screen.                                                              *)

\* A thread is opened anew each time: nothing of the last one is left in it.
OpenThread ==
  /\ thread = "closed" /\ thread' = "loading"
  /\ page' = {} /\ shown' = {} /\ draft' = 0 /\ quote' = 0
  /\ raced' = (posting \cup removing # {})
  /\ UNCHANGED <<server, typed, sending, waiting>>

\* onBack, at any time.
Leave ==
  /\ thread # "closed" /\ thread' = "closed"
  /\ sending' = 0 /\ waiting' = {}
  /\ UNCHANGED <<server, page, shown, field, raced>>

\* getComments: the oldest ones, and nothing asks for those after.
FirstPage == {c \in comments : Cardinality({d \in comments : d < c}) < Limit}

Served ==
  /\ thread = "loading" /\ lives
  /\ thread' = "served" /\ page' = FirstPage
  /\ raced' = (raced \/ FirstPage # comments)
  /\ UNCHANGED <<server, shown, field, sending, waiting>>

Shown ==
  /\ thread = "served" /\ thread' = "open"
  /\ shown' = page
  /\ UNCHANGED <<server, page, field, sending, waiting, raced>>

\* Without the network, or the post, there is what was saved some time.
LoadFails ==
  /\ thread \in {"loading", "served"} /\ thread' = "open"
  /\ shown' \in SUBSET (1 .. typed)
  /\ raced' = TRUE
  /\ UNCHANGED <<server, page, field, sending, waiting>>

Ready == thread \in {"open", "deleting"}

Type ==
  /\ Ready /\ typed < MaxTexts
  /\ typed' = typed + 1 /\ draft' = typed + 1
  /\ UNCHANGED <<server, thread, page, shown, quote, sending, waiting, raced>>

Quote(c) ==
  /\ Ready /\ c # quote /\ c \in shown \cup {0}
  /\ quote' = c
  /\ UNCHANGED <<server, thread, page, shown, draft, typed, sending, waiting, raced>>

Send ==
  /\ Ready /\ draft # 0 /\ sending = 0
  /\ sending' = draft /\ posting' = posting \cup {draft} /\ mine' = mine \cup {draft}
  /\ UNCHANGED <<lives, comments, removing, thread, page, shown, field, waiting, raced>>

\* The field and the quote are emptied when the answer comes, whatever they hold
\* by then.
Sent ==
  /\ sending # 0 /\ sending \notin posting
  /\ lives => sending \in comments
  /\ shown' = shown \cup {sending}
  /\ draft' = 0 /\ quote' = 0 /\ sending' = 0
  /\ UNCHANGED <<server, thread, page, typed, waiting, raced>>

\* The comment was not taken, or it was and nobody knows.
SendFails ==
  /\ sending # 0 /\ sending \notin posting
  /\ sending' = 0 /\ raced' = (raced \/ sending \in comments)
  /\ UNCHANGED <<server, thread, page, shown, field, waiting>>

\* The button is on one's own comments only.  Each is asked for once at a time.
Remove(c) ==
  /\ Ready /\ c \in (shown \cap mine) \ waiting
  /\ removing' = removing \cup {c} /\ waiting' = waiting \cup {c}
  /\ UNCHANGED <<lives, comments, mine, posting, thread, page, shown, field, sending, raced>>

\* Fault: the list is made of the one at the time of the request.
FaultRemoved(c) ==
  /\ c \in waiting \ (removing \cup comments)
  /\ shown' = (shown \cap 1 .. c) \ {c} /\ waiting' = waiting \ {c}
  /\ UNCHANGED <<server, thread, page, field, sending, raced>>

Removed(c) ==
  /\ c \in waiting \ (removing \cup comments)
  /\ shown' = shown \ {c} /\ waiting' = waiting \ {c}
  /\ UNCHANGED <<server, thread, page, field, sending, raced>>

\* Refused, lost, or taken with the answer lost.
RemoveFails(c) ==
  /\ c \in waiting \ removing
  /\ waiting' = waiting \ {c} /\ raced' = (raced \/ c \notin comments)
  /\ UNCHANGED <<server, thread, page, shown, field, sending>>

\* removePost, confirmed; its answer leads back (Leave), or leaves all as it was.
RemovePost ==
  /\ thread = "open" /\ thread' = "deleting"
  /\ UNCHANGED <<server, page, shown, field, sending, waiting, raced>>

PostStays ==
  /\ thread = "deleting" /\ thread' = "open"
  /\ UNCHANGED <<server, page, shown, field, sending, waiting, raced>>

Next == \/ OpenThread \/ Leave \/ Served \/ Shown \/ LoadFails
        \/ Type \/ Send \/ Sent \/ SendFails
        \/ \E c \in Text : \/ PostTaken(c) \/ RemoveTaken(c) \/ Lost(c) \/ OthersRemove(c)
                           \/ Remove(c) \/ Removed(c) \/ RemoveFails(c)
        \/ \E c \in {0} \cup Text : Quote(c)
        \/ OthersWrite \/ PostGoes \/ RemovePost \/ PostStays

Spec == Init /\ [][Next]_vars

------------------------------------------------------------------------------
TypeOK ==
  /\ thread \in {"closed", "loading", "served", "open", "deleting"}
  /\ {comments, mine, posting, removing, page, shown, waiting} \subseteq SUBSET (1 .. typed)
  /\ {draft, quote, sending} \subseteq 0 .. typed /\ typed \in 0 .. MaxTexts
  /\ {lives, raced} \subseteq BOOLEAN

\* Of one's own comments the open thread shows those the server has, each request
\* that is answered included, in whatever order the answers come and whatever other
\* people write meanwhile: unless one came back before a request of an earlier visit
\* was taken, an answer was lost after the commit, or the list is a saved one or
\* longer than one answer.  Of other people's it shows what there was at the start.
ThreadIsTrue ==
  Ready /\ lives /\ ~raced =>
    \A c \in mine \ ({sending} \cup waiting) : c \in shown <=> c \in comments
==============================================================================
