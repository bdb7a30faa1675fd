----------------------------- MODULE ChatSocket -----------------------------
(***************************************************************************)
(* The client's websocket: connectWS, openChat, sendMessage and logout of  *)
(* src/frontend/src/App.tsx.                                               *)
(*                                                                         *)
(* Every openChat starts a chain: it awaits the chat's key and history,    *)
(* calls connectWS, awaits a ticket, opens a socket, and when the socket   *)
(* closes the chain waits for a timer and calls connectWS again.  A chain  *)
(* is in one place at a time, so a call, a socket and a timer of the       *)
(* program are the states of one record; wsRef and wsRetryTimer name the   *)
(* chain whose socket or timer was stored there last.  The lengths of the  *)
(* delays are left out.                                                    *)
(***************************************************************************)
EXTENDS Naturals

CONSTANTS Chats, NoChat,
          MaxOpens,          \* bound: how often the user opens a chat
          MaxSends           \* bound: how often the user sends

ASSUME ChatsAssumption == NoChat \notin Chats
ASSUME BoundsAssumption == MaxOpens \in Nat /\ MaxSends \in Nat

VARIABLES net,               \* the server can be reached
          active,            \* activeChatRef
          loaded,            \* loadedChats
          opens,             \* number of chains started
          chain,             \* the chains
          wsRef, timer,      \* chain of wsRef and of wsRetryTimer, 0 if null
          sending,           \* chat of the message being encrypted
          sends, posts       \* history: calls of sendMessage, and for which chat
                             \* and to which it returned true

vars == <<net, active, loaded, opens, chain, wsRef, timer, sending, sends, posts>>

Chains == 1 .. MaxOpens
State == {"over",            \* not started, or given up
          "key", "history",  \* openChat awaits resolveChatKey, the history
          "ticket",          \* connectWS awaits api.getWsTicket
          "connecting", "open", "closing",
          "waiting"}         \* for its timer
Over == [at |-> "over", chat |-> NoChat]

TypeOK ==
  /\ net \in BOOLEAN
  /\ active \in Chats \cup {NoChat}
  /\ loaded \subseteq Chats
  /\ opens \in 0 .. MaxOpens
  /\ chain \in [Chains -> [at : State, chat : Chats \cup {NoChat}]]
  /\ \A i \in Chains : chain[i].at = "over" <=> chain[i].chat = NoChat
  /\ \A i \in Chains : i > opens => chain[i] = Over
  /\ wsRef \in 0 .. opens /\ timer \in 0 .. opens
  /\ sending \in Chats \cup {NoChat}
  /\ sends \in 0 .. MaxSends
  /\ posts \subseteq [for : Chats, to : Chats \cup {NoChat}]

Init ==
  /\ net = TRUE
  /\ active = NoChat
  /\ loaded = {}
  /\ opens = 0
  /\ chain = [i \in Chains |-> Over]
  /\ wsRef = 0 /\ timer = 0
  /\ sending = NoChat
  /\ sends = 0
  /\ posts = {}

-----------------------------------------------------------------------------
\* The socket in wsRef.

Current == IF wsRef = 0 THEN Over ELSE chain[wsRef]

\* wsRef.current?.close(): a socket that is not closed yet starts closing.
CloseCurrent ==
  [i \in Chains |->
     IF i = wsRef /\ chain[i].at \in {"connecting", "open"}
       THEN [chain[i] EXCEPT !.at = "closing"] ELSE chain[i]]

\* Fault: the previous socket is left to itself.
ConnectOverOld(i, c) == chain' = [chain EXCEPT ![i] = [at |-> "ticket", chat |-> c]]

\* connectWS(c) up to its await.
Connect(i, c) == chain' = [CloseCurrent EXCEPT ![i] = [at |-> "ticket", chat |-> c]]

\* openChat once the key is there: the history is awaited the first time.
Load(i, c) ==
  IF c \in loaded
    THEN Connect(i, c) /\ UNCHANGED loaded
    ELSE /\ chain' = [chain EXCEPT ![i] = [at |-> "history", chat |-> c]]
         /\ loaded' = loaded \cup {c}

\* The user opens chat c, which may be the one that is open already.  The key
\* is awaited unless the client has it.
OpenChat(c) ==
  /\ opens < MaxOpens
  /\ opens' = opens + 1
  /\ active' = c
  /\ \/ /\ chain' = [chain EXCEPT ![opens + 1] = [at |-> "key", chat |-> c]]
        /\ UNCHANGED loaded
     \/ Load(opens + 1, c)
  /\ UNCHANGED <<net, wsRef, timer, sending, sends, posts>>

KeyResolved(i) ==
  /\ chain[i].at = "key"
  /\ Load(i, chain[i].chat)
  /\ UNCHANGED <<net, active, opens, wsRef, timer, sending, sends, posts>>

\* The history came or failed: connectWS is called for the chain's chat, even
\* if another one is active by now.
HistoryLoaded(i) ==
  /\ chain[i].at = "history"
  /\ Connect(i, chain[i].chat)
  /\ UNCHANGED <<net, active, loaded, opens, wsRef, timer, sending, sends, posts>>

\* Fault: a chain that is given up keeps its chat.
RetryKeepsChat(i) ==
  IF chain[i].chat = active
    THEN chain' = [chain EXCEPT ![i].at = "waiting"] /\ timer' = i
    ELSE chain' = [chain EXCEPT ![i].at = "over"] /\ UNCHANGED timer

\* The chain sets its timer if its chat is the active one, else it is over.
Retry(i) ==
  IF chain[i].chat = active
    THEN chain' = [chain EXCEPT ![i].at = "waiting"] /\ timer' = i
    ELSE chain' = [chain EXCEPT ![i] = Over] /\ UNCHANGED timer

\* No ticket: the server is out of reach.
TicketRefused(i) ==
  /\ chain[i].at = "ticket" /\ ~net
  /\ Retry(i)
  /\ UNCHANGED <<net, active, loaded, opens, wsRef, sending, sends, posts>>

TicketGranted(i) ==
  /\ chain[i].at = "ticket" /\ net
  /\ IF chain[i].chat = active
       THEN chain' = [chain EXCEPT ![i].at = "connecting"] /\ wsRef' = i
       ELSE chain' = [chain EXCEPT ![i] = Over] /\ UNCHANGED wsRef
  /\ UNCHANGED <<net, active, loaded, opens, timer, sending, sends, posts>>

\* ws.onopen
Opened(i) ==
  /\ chain[i].at = "connecting" /\ net
  /\ chain' = [chain EXCEPT ![i].at = "open"]
  /\ UNCHANGED <<net, active, loaded, opens, wsRef, timer, sending, sends, posts>>

\* Fault: a socket the client closed itself does not come back.
ClosedForGood(i) ==
  /\ \/ chain[i].at = "closing"
     \/ chain[i].at \in {"connecting", "open"} /\ ~net
  /\ IF chain[i].at = "closing"
       THEN chain' = [chain EXCEPT ![i] = Over] /\ UNCHANGED timer ELSE Retry(i)
  /\ UNCHANGED <<net, active, loaded, opens, wsRef, sending, sends, posts>>

\* ws.onclose: after close(), or because the connection broke.
Closed(i) ==
  /\ \/ chain[i].at = "closing"
     \/ chain[i].at \in {"connecting", "open"} /\ ~net
  /\ Retry(i)
  /\ UNCHANGED <<net, active, loaded, opens, wsRef, sending, sends, posts>>

\* The timer fires whatever chat is active by then.
TimerFires(i) ==
  /\ chain[i].at = "waiting"
  /\ Connect(i, chain[i].chat)
  /\ UNCHANGED <<net, active, loaded, opens, wsRef, timer, sending, sends, posts>>

\* logout and auth:expired: the last timer is cleared, the last socket closed.
Leave ==
  /\ active # NoChat
  /\ chain' = [i \in Chains |->
       IF i = timer /\ chain[i].at = "waiting" THEN Over ELSE CloseCurrent[i]]
  /\ active' = NoChat
  /\ loaded' = {}
  /\ UNCHANGED <<net, opens, wsRef, timer, sending, sends, posts>>

NetToggle ==
  /\ net' = ~net
  /\ UNCHANGED <<active, loaded, opens, chain, wsRef, timer, sending, sends, posts>>

-----------------------------------------------------------------------------
\* sendMessage.

\* The socket is looked at, then the text is encrypted for the active chat.
SendStart ==
  /\ sending = NoChat /\ active # NoChat
  /\ Current.at = "open"
  /\ sends < MaxSends
  /\ sends' = sends + 1
  /\ sending' = active
  /\ UNCHANGED <<net, active, loaded, opens, chain, wsRef, timer, posts>>

\* send() on whatever socket wsRef holds by now: one that is connecting throws
\* and sendMessage returns false, one that is closing or closed drops the text.
SendFinish ==
  /\ sending # NoChat
  /\ sending' = NoChat
  /\ posts' = posts \cup
       CASE Current.at = "connecting" -> {}
         [] Current.at = "open" -> {[for |-> sending, to |-> Current.chat]}
         [] OTHER -> {[for |-> sending, to |-> NoChat]}
  /\ UNCHANGED <<net, active, loaded, opens, chain, wsRef, timer, sends>>

-----------------------------------------------------------------------------
Step(i) ==
  \/ KeyResolved(i)
  \/ HistoryLoaded(i)
  \/ TicketRefused(i)
  \/ TicketGranted(i)
  \/ Opened(i)
  \/ Closed(i)
  \/ TimerFires(i)

Next ==
  \/ \E c \in Chats : OpenChat(c)
  \/ \E i \in Chains : Step(i)
  \/ Leave
  \/ NetToggle
  \/ SendStart
  \/ SendFinish

Spec == Init /\ [][Next]_vars

\* Calls are answered, sockets close and timers fire.  A handshake takes less
\* than the three seconds a timer takes at least, and longer waits follow
\* failures, so the other chains' timers do not cut every handshake short.
Fairness ==
  /\ \A i \in Chains :
       /\ WF_vars(KeyResolved(i)) /\ WF_vars(HistoryLoaded(i))
       /\ WF_vars(TicketRefused(i) \/ TicketGranted(i))
       /\ WF_vars(Closed(i)) /\ WF_vars(TimerFires(i))
       /\ SF_vars(Opened(i))
  /\ WF_vars(SendFinish)

FairSpec == Spec /\ Fairness

-----------------------------------------------------------------------------
\* What must hold.

\* sendMessage writes to the socket of another chat than the one on the screen
\* only while openChat still waits for the key or the history of the latter.
WrongSocketOnlyWhileLoading ==
  Current.at \in {"connecting", "open"} /\ Current.chat # active =>
    \E i \in Chains : chain[i].at \in {"key", "history"} /\ chain[i].chat = active

\* As long as a chat stays open and the server can be reached, the chat gets
\* its socket back, whatever happened before.
Reconnects ==
  \A c \in Chats :
    <>[](net /\ active = c) => []<>(Current.at = "open" /\ Current.chat = c)
=============================================================================
