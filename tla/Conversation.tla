---------------------------- MODULE Conversation ----------------------------
(***************************************************************************)
(* The messages of one chat on the screen (App.tsx openChat, connectWS,    *)
(* sendMessage; ChatView.tsx loadMore, handleDelete): put together from    *)
(* the device's copy, the server's last page, the events of the socket,    *)
(* the messages just sent and the older pages asked for.  Read marks are   *)
(* left out; the device's copy is MessageCache, the sockets ChatSocket.    *)
(***************************************************************************)
EXTENDS Lists, FiniteSets

CONSTANTS Page,            \* messages in one answer (50 in the code)
          MaxMessages,     \* bound of the messages posted
          MaxSends         \* bound of the messages sent from this device

ConversationAssumption ==
  Page \in Nat \ {0} /\ MaxMessages \in Nat /\ MaxSends \in Nat

VARIABLES posted, gone,        \* the server: messages 1 .. posted, those deleted
          pending,             \* the server: events committed and not yet published
          list, hasMore,       \* the screen
          hist, more,          \* requests: the last page, an older page
          up, queue,           \* the socket and the events on their way
          opening,             \* events being deciphered
          sent, outbox,        \* messages sent; those the server has not read
          deleting,            \* own deletions whose answer is on its way
          cause                \* history: what the list may be wrong from

vars == <<posted, gone, pending, list, hasMore, hist, more, up, queue, opening, sent,
          outbox, deleting, cause>>

\* m: the message, 0 while the server has not numbered it; c: the client_id of
\* a message sent from here; plain: its text is deciphered.
Entry(m, c, plain) == [m |-> m, c |-> c, plain |-> plain]
Entries(rows, plain) == [i \in DOMAIN rows |-> Entry(rows[i], 0, plain)]
NoHist == [pc |-> "none", rows |-> <<>>, top |-> 0]     \* top: history, the newest then
NoMore == [pc |-> "idle", before |-> 0, rows |-> <<>>]

\* get_messages_paginated; one that is gone has no date to be before.
LastPage(log, before) ==
  LastOf(Only([m \in 1 .. log |-> m],
              {m \in 1 .. log \ gone : before = 0 \/ (before \notin gone /\ m < before)}),
         Page)

Listed == {list[i].m : i \in DOMAIN list}
Awaited == {opening[i].m : i \in DOMAIN opening}
Without(m) == Only(list, {e \in {list[i] : i \in DOMAIN list} : e.m # m})
Coming == {e.m : e \in {f \in pending \cup {queue[i] : i \in DOMAIN queue} :
                           f.kind = "message" /\ f.m > hist.top}}
Because(why, condition) == cause' = IF cause = "none" /\ condition THEN why ELSE cause

Init ==
  /\ posted \in 0 .. MaxMessages /\ gone = {} /\ pending = {}
  /\ list = <<>> /\ hasMore = TRUE /\ hist = NoHist /\ more = NoMore
  /\ up = FALSE /\ queue = <<>> /\ opening = <<>>
  /\ sent = 0 /\ outbox = {} /\ deleting = {} /\ cause = "none"

------------------------------------------------------------------------------
\* The device's copy is some earlier last page, shown before the server is asked.
OpenChat ==
  /\ hist.pc = "none"
  /\ \E old \in 0 .. posted : list' = Entries(LastPage(old, 0), TRUE)
  /\ hist' = [NoHist EXCEPT !.pc = "asked"]
  /\ UNCHANGED <<posted, gone, pending, hasMore, more, up, queue, opening, sent, outbox, deleting, cause>>

History ==
  /\ hist.pc = "asked"
  /\ hist' = [pc |-> "served", rows |-> LastPage(posted, 0), top |-> posted]
  /\ UNCHANGED <<posted, gone, pending, list, hasMore, more, up, queue, opening, sent, outbox, deleting, cause>>

\* The answer replaces the list; an older page asked for, or found to be the
\* last, belonged to the copy.
HistoryShown ==
  /\ hist.pc = "served"
  /\ list' = Entries(hist.rows, TRUE)
  /\ hist' = [hist EXCEPT !.pc = "over", !.rows = <<>>]
  /\ Because("copy", more.pc # "idle" \/ ~hasMore)
  /\ UNCHANGED <<posted, gone, pending, hasMore, more, up, queue, opening, sent, outbox, deleting>>

\* No network: the copy stays, and is not asked about again until a restart.
HistoryFails ==
  /\ hist.pc \in {"asked", "served"}
  /\ hist' = [hist EXCEPT !.pc = "over", !.rows = <<>>]
  /\ Because("offline", TRUE)
  /\ UNCHANGED <<posted, gone, pending, list, hasMore, more, up, queue, opening, sent, outbox, deleting>>

\* openChat connects when the list is there; a second openChat, finding the chat
\* in loadedChats, connects at once.
Connect ==
  /\ hist.pc # "none" /\ ~up /\ up' = TRUE
  /\ Because("early", hist.pc # "over")
  /\ UNCHANGED <<posted, gone, pending, list, hasMore, hist, more, queue, opening, sent, outbox, deleting>>

Disconnect ==
  /\ up /\ up' = FALSE /\ queue' = <<>>
  /\ Because("missed", queue # <<>>)
  /\ UNCHANGED <<posted, gone, pending, list, hasMore, hist, more, opening, sent, outbox, deleting>>

------------------------------------------------------------------------------
\* send_message and delete_message commit, and publish after further awaits.  What
\* happens while nobody listens is lost, once the server has been asked.
Asked == hist.pc \in {"served", "over"}

Post(c) ==
  /\ posted < MaxMessages
  /\ posted' = posted + 1
  /\ pending' = pending \cup {[kind |-> "message", m |-> posted + 1, c |-> c]}
  /\ UNCHANGED <<gone, list, hasMore, hist, more, up, queue, opening, sent, deleting, cause>>

PostByOther == Post(0) /\ UNCHANGED outbox
PostSent(c) == c \in outbox /\ Post(c) /\ outbox' = outbox \ {c}

\* Deleted by another, or from here: then the answer removes it as well.
Delete(m, own) ==
  /\ m \in 1 .. posted \ gone
  /\ own => \E i \in DOMAIN list : list[i].m = m
  /\ gone' = gone \cup {m}
  /\ pending' = pending \cup {[kind |-> "delete", m |-> m, c |-> 0]}
  /\ deleting' = IF own THEN deleting \cup {m} ELSE deleting
  /\ UNCHANGED <<posted, list, hasMore, hist, more, up, queue, opening, sent, outbox, cause>>

Unpublished(m) == \E e \in pending : e.kind = "delete" /\ e.m = m

Publish(e) ==
  /\ pending' = pending \ {e}
  /\ queue' = IF up THEN Append(queue, e) ELSE queue
  /\ UNCHANGED <<posted, gone, list, hasMore, hist, more, up, opening, sent, outbox, deleting>>

\* A message can come although the page asked for has it, or after its deletion.
PublishMessage(e) ==
  /\ e \in pending /\ e.kind = "message" /\ Publish(e)
  /\ IF up THEN Because("late", e.m <= hist.top \/ (e.m \in gone /\ ~Unpublished(e.m)))
           ELSE Because("missed", Asked /\ e.m > hist.top)

PublishDeletion(e) ==
  /\ e \in pending /\ e.kind = "delete" /\ Publish(e)
  /\ Because("missed", ~up /\ Asked /\ ~(e.m \in deleting /\ hist.pc = "over"))

\* Redis fails, and with it a deletion that has taken place.
PublishFails(e) ==
  /\ e \in pending /\ pending' = pending \ {e}
  /\ deleting' = IF e.kind = "delete" THEN deleting \ {e.m} ELSE deleting
  /\ Because("missed", Asked)
  /\ UNCHANGED <<posted, gone, list, hasMore, hist, more, up, queue, opening, sent, outbox>>

\* Fault: the echo is shown beside the message it repeats.
FaultMerged(e) == Append(list, Entry(e.m, e.c, TRUE))

\* An echo takes the place of the message shown when it was sent.
Merged(e) ==
  IF e.c # 0 /\ \E i \in DOMAIN list : list[i].c = e.c
  THEN [i \in DOMAIN list |-> IF list[i].c = e.c THEN Entry(e.m, e.c, TRUE) ELSE list[i]]
  ELSE Append(list, Entry(e.m, e.c, TRUE))

\* A deletion can overtake the message, or an older page, that brings it back.
Overtakes(m) == m \in Awaited \/ \E i \in DOMAIN more.rows : more.rows[i] = m

Deliver ==
  /\ queue # <<>> /\ queue' = Tail(queue)
  /\ LET e == Head(queue) IN
       IF e.kind = "message"
       THEN opening' = Append(opening, e) /\ UNCHANGED <<list, cause>>
       ELSE /\ list' = Without(e.m) /\ UNCHANGED opening
            /\ Because("overtaken", Overtakes(e.m))
  /\ UNCHANGED <<posted, gone, pending, hasMore, hist, more, up, sent, outbox, deleting>>

\* Deciphering is asynchronous: the events end in any order, and also after the
\* socket has closed.
Opened(i) ==
  /\ i \in DOMAIN opening
  /\ list' = Merged(opening[i])
  /\ opening' = [j \in 1 .. Len(opening) - 1 |-> opening[IF j < i THEN j ELSE j + 1]]
  /\ UNCHANGED <<posted, gone, pending, hasMore, hist, more, up, queue, sent, outbox, deleting, cause>>

DeleteAnswered(m) ==
  /\ m \in deleting /\ ~Unpublished(m)
  /\ deleting' = deleting \ {m} /\ list' = Without(m)
  /\ Because("overtaken", Overtakes(m))
  /\ UNCHANGED <<posted, gone, pending, hasMore, hist, more, up, queue, opening, sent, outbox>>

------------------------------------------------------------------------------
\* sendMessage shows the message before the server has it.
Send ==
  /\ up /\ sent < MaxSends
  /\ sent' = sent + 1 /\ outbox' = outbox \cup {sent + 1}
  /\ list' = Append(list, Entry(0, sent + 1, TRUE))
  /\ UNCHANGED <<posted, gone, pending, hasMore, hist, more, up, queue, opening, deleting, cause>>

\* The socket broke before the server read it, or the server refused it: the
\* error event is only logged.
SendLost(c) ==
  /\ c \in outbox /\ outbox' = outbox \ {c}
  /\ Because("lost", TRUE)
  /\ UNCHANGED <<posted, gone, pending, list, hasMore, hist, more, up, queue, opening, sent, deleting>>

\* The button stands over a full page only.  A first entry without a number asks
\* for the last page again; one that is not the oldest repeats what is below it.
LoadMore ==
  /\ hasMore /\ more.pc = "idle" /\ Len(list) >= Page
  /\ more' = [pc |-> "asked", before |-> list[1].m, rows |-> <<>>]
  /\ Because("disorder", list[1].m = 0 \/ \E m \in Listed \cup Awaited \cup Coming : m < list[1].m)
  /\ UNCHANGED <<posted, gone, pending, list, hasMore, hist, up, queue, opening, sent, outbox, deleting>>

Older ==
  /\ more.pc = "asked"
  /\ more' = [more EXCEPT !.pc = "served", !.rows = LastPage(posted, more.before)]
  /\ Because("overtaken", more.before \in gone)
  /\ UNCHANGED <<posted, gone, pending, list, hasMore, hist, up, queue, opening, sent, outbox, deleting>>

\* The older page is shown as it came: enciphered.
OlderShown ==
  /\ more.pc = "served" /\ more' = NoMore
  /\ list' = Entries(more.rows, FALSE) \o list
  /\ hasMore' = (Len(more.rows) = Page)
  /\ UNCHANGED <<posted, gone, pending, hist, up, queue, opening, sent, outbox, deleting, cause>>

OlderFails ==
  /\ more.pc # "idle" /\ more' = NoMore
  /\ UNCHANGED <<posted, gone, pending, list, hasMore, hist, up, queue, opening, sent, outbox, deleting, cause>>

\* The view is one for all chats: another whose first message was reached leaves
\* the button away in this one, while a wide window keeps the view mounted.
OtherChat ==
  /\ hist.pc = "over" /\ ~up /\ more.pc = "idle" /\ hasMore
  /\ hasMore' = FALSE
  /\ Because("other chat", TRUE)
  /\ UNCHANGED <<posted, gone, pending, list, hist, more, up, queue, opening, sent, outbox, deleting>>

Next ==
  \/ OpenChat \/ History \/ HistoryShown \/ HistoryFails
  \/ Connect \/ Disconnect \/ PostByOther \/ Deliver
  \/ \E m \in 1 .. posted, own \in BOOLEAN : Delete(m, own)
  \/ \E e \in pending : PublishMessage(e) \/ PublishDeletion(e) \/ PublishFails(e)
  \/ \E m \in deleting : DeleteAnswered(m)
  \/ \E i \in DOMAIN opening : Opened(i)
  \/ Send \/ \E c \in outbox : PostSent(c) \/ SendLost(c)
  \/ LoadMore \/ Older \/ OlderShown \/ OlderFails \/ OtherChat

Spec == Init /\ [][Next]_vars

------------------------------------------------------------------------------
Causes == {"none", "copy", "offline", "early", "missed", "late", "overtaken", "lost", "disorder",
           "other chat"}
Numbers == 0 .. MaxMessages

Item == [m : Numbers, c : 0 .. MaxSends, plain : BOOLEAN]
Event == [kind : {"message", "delete"}, m : Numbers, c : 0 .. MaxSends]

TypeOK ==
  /\ posted \in Numbers /\ gone \subseteq 1 .. posted /\ pending \subseteq Event
  /\ list \in Seq(Item) /\ hasMore \in BOOLEAN
  /\ hist \in [pc : {"none", "asked", "served", "over"}, rows : Seq(Numbers),
              top : Numbers]
  /\ more \in [pc : {"idle", "asked", "served"}, before : Numbers, rows : Seq(Numbers)]
  /\ up \in BOOLEAN /\ queue \in Seq(Event) /\ opening \in Seq(Event)
  /\ sent \in 0 .. MaxSends /\ outbox \subseteq 1 .. sent
  /\ deleting \subseteq gone /\ cause \in Causes

Settled == hist.pc = "over" /\ queue = <<>> /\ opening = <<>> /\ more.pc = "idle"
           /\ deleting = {} /\ outbox = {} /\ pending = {}

\* When nothing is on its way, the list has each of the newest messages of the
\* chat once, none of the deleted ones and no gap, and the button for older ones
\* is there unless it has them all.  cause names what can break it, each met by a
\* run of the program: the copy shown while the last page is on its way was paged
\* further, the network failed, the chat was opened twice, an event was published
\* while the socket was down, or after the page that has its message or the event of
\* its deletion, a deletion overtook a message, a message was lost, the first message
\* is not the oldest, the button was lost in another chat.
NoneTwiceNoneMissing ==
  cause = "none" /\ Settled =>
    /\ Cardinality(Listed) = Len(list)
    /\ Listed = {m \in 1 .. posted \ gone : \E i \in Listed : m >= i}
    /\ ~hasMore => Listed = 1 .. posted \ gone
==============================================================================
