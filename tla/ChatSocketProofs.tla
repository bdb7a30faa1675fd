-------------------------- MODULE ChatSocketProofs --------------------------
(***************************************************************************)
(* Proofs about ChatSocket for any number of chats, openings and sends:    *)
(* type correctness, where the socket in wsRef may lead, and which chat a  *)
(* socket is opened to.                                                    *)
(***************************************************************************)
EXTENDS ChatSocket, TLAPS

LEMMA TypeInit == Init => TypeOK
  BY ChatsAssumption, BoundsAssumption DEF Init, TypeOK, Over, State

\* What connectWS does to the chains up to its await.
LEMMA ConnectFacts ==
  ASSUME TypeOK, NEW i \in Chains, NEW c \in Chats, Connect(i, c)
  PROVE  /\ chain' \in [Chains -> [at : State, chat : Chats \cup {NoChat}]]
         /\ chain'[i] = [at |-> "ticket", chat |-> c]
         /\ \A j \in Chains \ {i} :
              /\ chain'[j].chat = chain[j].chat
              /\ chain'[j].at = IF j = wsRef /\ chain[j].at \in {"connecting", "open"}
                                  THEN "closing" ELSE chain[j].at
              /\ chain[j] = Over => chain'[j] = Over
  <1>1. chain \in [Chains -> [at : State, chat : Chats \cup {NoChat}]]
    BY DEF TypeOK
  <1>2. CloseCurrent \in [Chains -> [at : State, chat : Chats \cup {NoChat}]]
    BY <1>1 DEF CloseCurrent, State
  <1>3. [at |-> "ticket", chat |-> c] \in [at : State, chat : Chats \cup {NoChat}]
    BY DEF State
  <1>4. QED
    BY <1>1, <1>2, <1>3 DEF Connect, CloseCurrent, Over, State

\* What becomes of the chains in a chain's turn or when the user leaves.
LEMMA RetryFacts ==
  ASSUME TypeOK, NEW i \in Chains, chain[i].chat # NoChat, Retry(i)
  PROVE  /\ chain' \in [Chains -> [at : State, chat : Chats \cup {NoChat}]]
         /\ \A j \in Chains \ {i} : chain'[j] = chain[j]
         /\ chain'[i] = Over \/ chain'[i] = [at |-> "waiting", chat |-> chain[i].chat]
         /\ timer' \in {timer, i}
  <1>1. chain \in [Chains -> [at : State, chat : Chats \cup {NoChat}]]
    BY DEF TypeOK
  <1>2. Over \in [at : State, chat : Chats \cup {NoChat}]
    BY DEF Over, State
  <1>3. [chain[i] EXCEPT !.at = "waiting"] = [at |-> "waiting", chat |-> chain[i].chat]
    BY <1>1
  <1>4. [at |-> "waiting", chat |-> chain[i].chat] \in [at : State, chat : Chats \cup {NoChat}]
    BY <1>1 DEF State
  <1>5. QED
    BY <1>1, <1>2, <1>3, <1>4 DEF Retry

-----------------------------------------------------------------------------
THEOREM TypeStep == TypeOK /\ [Next]_vars => TypeOK'
<1> SUFFICES ASSUME TypeOK, [Next]_vars PROVE TypeOK'
  OBVIOUS
<1> USE ChatsAssumption, BoundsAssumption
<1>0. /\ chain \in [Chains -> [at : State, chat : Chats \cup {NoChat}]]
      /\ opens \in 0 .. MaxOpens /\ wsRef \in 0 .. opens /\ timer \in 0 .. opens
      /\ \A i \in Chains : chain[i] # Over => i <= opens /\ chain[i].chat \in Chats
      /\ Over \in [at : State, chat : Chats \cup {NoChat}]
  BY DEF TypeOK, Over, State, Chains
<1>1. ASSUME NEW c \in Chats, OpenChat(c) PROVE TypeOK'
  <2>1. /\ opens + 1 \in Chains /\ opens' = opens + 1 /\ opens' \in 0 .. MaxOpens
        /\ active' = c /\ UNCHANGED <<net, wsRef, timer, sending, sends, posts>>
    BY <1>1, <1>0 DEF OpenChat, Chains
  <2>2. CASE Connect(opens + 1, c) /\ UNCHANGED loaded
    <3>1. /\ chain' \in [Chains -> [at : State, chat : Chats \cup {NoChat}]]
          /\ chain'[opens + 1] = [at |-> "ticket", chat |-> c]
          /\ \A j \in Chains \ {opens + 1} :
              /\ chain'[j].chat = chain[j].chat
              /\ chain'[j].at = IF j = wsRef /\ chain[j].at \in {"connecting", "open"}
                                  THEN "closing" ELSE chain[j].at
              /\ chain[j] = Over => chain'[j] = Over
      BY <2>1, <2>2, ConnectFacts
    <3>2. QED
      BY <1>0, <2>1, <2>2, <3>1 DEF TypeOK, Over, Chains
  <2>3. ASSUME NEW at \in {"key", "history"},
               chain' = [chain EXCEPT ![opens + 1] = [at |-> at, chat |-> c]],
               loaded' \in {loaded, loaded \cup {c}}
        PROVE  TypeOK'
    BY <1>0, <2>1, <2>3 DEF TypeOK, Over, Chains, State
  <2>4. QED
    BY <1>1, <2>1, <2>2, <2>3 DEF OpenChat, Load
\* connectWS and Load called by a chain that has been started.
<1>2. ASSUME NEW i \in Chains, chain[i] # Over, Connect(i, chain[i].chat),
             UNCHANGED <<net, active, loaded, opens, wsRef, timer, sending, sends, posts>>
      PROVE  TypeOK'
  <2>1. /\ chain' \in [Chains -> [at : State, chat : Chats \cup {NoChat}]]
        /\ chain'[i] = [at |-> "ticket", chat |-> chain[i].chat]
        /\ \A j \in Chains \ {i} :
             /\ chain'[j].chat = chain[j].chat
             /\ chain'[j].at = IF j = wsRef /\ chain[j].at \in {"connecting", "open"}
                                 THEN "closing" ELSE chain[j].at
             /\ chain[j] = Over => chain'[j] = Over
    BY <1>0, <1>2, ConnectFacts DEF TypeOK
  <2>2. QED
    BY <1>0, <1>2, <2>1 DEF TypeOK, Over, Chains
<1>3. ASSUME NEW i \in Chains, chain[i].at \in State \ {"over"}, Retry(i),
             UNCHANGED <<net, active, loaded, opens, wsRef, sending, sends, posts>>
      PROVE  TypeOK'
  <2>1. i <= opens /\ i \in 1 .. opens /\ chain[i].chat # NoChat
    BY <1>0, <1>3 DEF Over, Chains
  <2>2. /\ chain' \in [Chains -> [at : State, chat : Chats \cup {NoChat}]]
        /\ \A j \in Chains \ {i} : chain'[j] = chain[j]
        /\ chain'[i] = Over \/ chain'[i] = [at |-> "waiting", chat |-> chain[i].chat]
        /\ timer' \in {timer, i}
    BY <1>3, <2>1, RetryFacts
  <2>3. QED
    BY <1>0, <1>3, <2>1, <2>2 DEF TypeOK, Over, Chains
<1>4. ASSUME NEW i \in Chains, chain[i].at \in State \ {"over"},
             NEW at \in State \ {"over"}, chain' = [chain EXCEPT ![i].at = at],
             wsRef' \in {wsRef, i},
             loaded' \in {loaded, loaded \cup {chain[i].chat}},
             UNCHANGED <<net, active, opens, timer, sending, sends, posts>>
      PROVE  TypeOK'
  BY <1>0, <1>4 DEF TypeOK, Over, Chains
<1>5. CASE \E i \in Chains : Step(i)
  <2> PICK i \in Chains : Step(i)
    BY <1>5
  <2>1. CASE KeyResolved(i)
    <3>1. [chain[i] EXCEPT !.at = "history"] = [at |-> "history", chat |-> chain[i].chat]
      BY <1>0
    <3>2. QED
      BY SMTT(30), <1>0, <1>2, <1>4, <2>1, <3>1 DEF KeyResolved, Load, State, Over
  <2>2. CASE HistoryLoaded(i)
    BY <1>2, <2>2 DEF HistoryLoaded, Over
  <2>3. CASE TicketRefused(i)
    BY <1>3, <2>3 DEF TicketRefused, State
  <2>4. CASE TicketGranted(i)
    <3>1. CASE chain[i].chat = active
      BY <1>4, <2>4, <3>1 DEF TicketGranted, State
    <3>2. CASE chain[i].chat # active
      BY SMTT(30), <1>0, <2>4, <3>2 DEF TicketGranted, TypeOK, Over, Chains
    <3>3. QED
      BY <3>1, <3>2
  <2>5. CASE Opened(i)
    BY <1>4, <2>5 DEF Opened, State
  <2>6. CASE Closed(i)
    BY <1>3, <2>6 DEF Closed, State
  <2>7. CASE TimerFires(i)
    BY <1>2, <2>7 DEF TimerFires, Over
  <2>8. QED
    BY <2>1, <2>2, <2>3, <2>4, <2>5, <2>6, <2>7 DEF Step
<1>6. CASE Leave
  <2>1. CloseCurrent \in [Chains -> [at : State, chat : Chats \cup {NoChat}]]
    BY <1>0 DEF CloseCurrent, State
  <2>2. \A j \in Chains : /\ CloseCurrent[j].chat = chain[j].chat
                          /\ CloseCurrent[j].at = "over" <=> chain[j].at = "over"
                          /\ chain[j] = Over => CloseCurrent[j] = Over
    BY <1>0 DEF CloseCurrent, Over
  <2>3. chain' \in [Chains -> [at : State, chat : Chats \cup {NoChat}]]
    BY <1>0, <1>6, <2>1 DEF Leave
  <2>4. \A j \in Chains : chain'[j] = Over \/ chain'[j] = CloseCurrent[j]
    BY <1>6 DEF Leave
  <2>5. QED
    BY <1>0, <1>6, <2>2, <2>3, <2>4 DEF TypeOK, Over, Leave
<1>7. CASE NetToggle
  BY <1>7 DEF NetToggle, TypeOK
<1>8. CASE SendStart
  BY <1>8 DEF SendStart, TypeOK
<1>9. CASE SendFinish
  <2>1. Current \in [at : State, chat : Chats \cup {NoChat}]
    BY <1>0 DEF Current, Chains
  <2>2. Current.at = "open" => Current.chat \in Chats \cup {NoChat}
    BY <2>1
  <2>3. posts' \subseteq [for : Chats, to : Chats \cup {NoChat}]
    BY <1>9, <2>2 DEF SendFinish, TypeOK
  <2>4. QED
    BY <1>9, <2>3 DEF SendFinish, TypeOK
<1>10. CASE UNCHANGED vars
  BY <1>10 DEF vars, TypeOK
<1>11. QED
  BY <1>1, <1>5, <1>6, <1>7, <1>8, <1>9, <1>10 DEF Next

\* Every reachable state of the client is well formed.
THEOREM TypeCorrect == Spec => []TypeOK
<1>1. TypeOK /\ [Next]_vars => TypeOK'
  BY TypeStep
<1>2. QED
  BY TypeInit, <1>1, PTL DEF Spec

-----------------------------------------------------------------------------
\* Where the socket in wsRef leads.

\* connectWS leaves wsRef with a socket that is closing or with none.
LEMMA ConnectCloses ==
  ASSUME TypeOK, NEW i \in Chains, NEW c \in Chats, Connect(i, c), wsRef' = wsRef
  PROVE  Current'.at \notin {"connecting", "open"}
<1>1. /\ chain'[i] = [at |-> "ticket", chat |-> c]
      /\ \A j \in Chains \ {i} :
           chain'[j].at = IF j = wsRef /\ chain[j].at \in {"connecting", "open"}
                            THEN "closing" ELSE chain[j].at
  BY ConnectFacts
<1>2. wsRef = 0 \/ wsRef \in Chains
  BY BoundsAssumption DEF TypeOK, Chains
<1>3. CASE wsRef = 0
  BY <1>3 DEF Current, Over
<1>4. CASE wsRef \in Chains /\ wsRef # 0
  <2>1. Current' = chain'[wsRef]
    BY <1>4 DEF Current
  <2>2. chain'[wsRef].at \notin {"connecting", "open"}
    BY <1>1, <1>4
  <2>3. QED
    BY <2>1, <2>2
<1>5. QED
  BY <1>2, <1>3, <1>4

\* A chain in its turn that is not loading, and does not call connectWS, keeps
\* the other chains, and so whatever loads.
LEMMA WrongSocketStep ==
  TypeOK /\ TypeOK' /\ WrongSocketOnlyWhileLoading /\ [Next]_vars
    => WrongSocketOnlyWhileLoading'
<1> SUFFICES ASSUME TypeOK, TypeOK', WrongSocketOnlyWhileLoading, [Next]_vars
             PROVE  WrongSocketOnlyWhileLoading'
  OBVIOUS
<1> USE ChatsAssumption, BoundsAssumption
<1>0. /\ chain \in [Chains -> [at : State, chat : Chats \cup {NoChat}]]
      /\ opens \in 0 .. MaxOpens /\ wsRef \in 0 .. opens
      /\ \A i \in Chains : chain[i] # Over => i <= opens /\ chain[i].chat \in Chats
      /\ Over.at = "over"
  BY DEF TypeOK, Over, State, Chains
<1>1. ASSUME NEW c \in Chats, OpenChat(c) PROVE WrongSocketOnlyWhileLoading'
  <2>1. opens + 1 \in Chains /\ active' = c /\ wsRef' = wsRef
    BY <1>0, <1>1 DEF OpenChat, Chains
  <2>2. CASE Connect(opens + 1, c)
    BY <2>1, <2>2, ConnectCloses DEF WrongSocketOnlyWhileLoading
  <2>3. ASSUME NEW at \in {"key", "history"},
               chain' = [chain EXCEPT ![opens + 1] = [at |-> at, chat |-> c]]
        PROVE  WrongSocketOnlyWhileLoading'
    <3>1. chain'[opens + 1] = [at |-> at, chat |-> c]
      BY <1>0, <2>1, <2>3
    <3>2. QED
      BY <2>1, <3>1 DEF WrongSocketOnlyWhileLoading
  <2>4. QED
    BY <1>1, <2>2, <2>3 DEF OpenChat, Load
<1>2. ASSUME NEW i \in Chains, chain[i] # Over, Connect(i, chain[i].chat),
             UNCHANGED <<active, wsRef>>
      PROVE  WrongSocketOnlyWhileLoading'
  BY <1>0, <1>2, ConnectCloses DEF WrongSocketOnlyWhileLoading
\* A step of a chain i that was not loading and is then not connected, while
\* the others stay as they are.
<1>3. ASSUME NEW i \in Chains, chain[i].at \notin {"key", "history"},
             \A j \in Chains \ {i} : chain'[j] = chain[j],
             \/ chain'[i].at \notin {"connecting", "open"}
             \/ /\ chain'[i].chat = chain[i].chat
                /\ (chain'[i].chat = active \/ chain[i].at = "connecting"),
             wsRef' = wsRef \/ (wsRef' = i /\ chain'[i].chat = active),
             UNCHANGED <<active>>
      PROVE  WrongSocketOnlyWhileLoading'
  <2> SUFFICES ASSUME Current'.at \in {"connecting", "open"}, Current'.chat # active
               PROVE  \E j \in Chains : /\ chain'[j].at \in {"key", "history"}
                                        /\ chain'[j].chat = active
    BY <1>3 DEF WrongSocketOnlyWhileLoading
  <2>1. wsRef' = wsRef /\ wsRef # 0 /\ Current' = chain'[wsRef] /\ wsRef \in Chains
    BY <1>0, <1>3 DEF Current, Over, Chains
  <2>2. Current = chain[wsRef]
    BY <2>1 DEF Current
  <2>3. Current.at \in {"connecting", "open"} /\ Current.chat # active
    BY <1>3, <2>1, <2>2
  <2>4. PICK j \in Chains : chain[j].at \in {"key", "history"} /\ chain[j].chat = active
    BY <2>3 DEF WrongSocketOnlyWhileLoading
  <2>5. chain'[j] = chain[j]
    BY <1>3, <2>4
  <2>6. QED
    BY <2>4, <2>5
<1>4. ASSUME NEW i \in Chains, chain[i].chat # NoChat, Retry(i),
             chain[i].at \notin {"key", "history"}, UNCHANGED <<active, wsRef>>
      PROVE  WrongSocketOnlyWhileLoading'
  <2>1. /\ \A j \in Chains \ {i} : chain'[j] = chain[j]
        /\ chain'[i] = Over \/ chain'[i] = [at |-> "waiting", chat |-> chain[i].chat]
    BY <1>4, RetryFacts
  <2>2. chain'[i].at \notin {"connecting", "open"}
    BY <1>0, <2>1
  <2>3. QED
    BY <1>3, <1>4, <2>1, <2>2
<1>5. CASE \E i \in Chains : Step(i)
  <2> PICK i \in Chains : Step(i)
    BY <1>5
  <2>0. chain[i].at # "over" => chain[i] # Over /\ chain[i].chat # NoChat
    BY <1>0
  <2>1. CASE KeyResolved(i)
    <3>1. CASE Connect(i, chain[i].chat)
      BY <1>2, <2>0, <2>1, <3>1 DEF KeyResolved
    <3>2. CASE chain' = [chain EXCEPT ![i] = [at |-> "history", chat |-> chain[i].chat]]
      <4>1. /\ \A j \in Chains \ {i} : chain'[j] = chain[j]
            /\ chain'[i] = [at |-> "history", chat |-> chain[i].chat]
        BY <1>0, <3>2
      <4>2. \A j \in Chains : /\ chain'[j].chat = chain[j].chat
                              /\ \/ chain'[j].at = chain[j].at
                                 \/ /\ chain[j].at = "key"
                                    /\ chain'[j].at = "history"
        BY <2>1, <4>1 DEF KeyResolved
      <4>3. Current'.at \in {"connecting", "open"} =>
              Current.at = Current'.at /\ Current.chat = Current'.chat
        <5>1. wsRef' = wsRef /\ (wsRef = 0 \/ wsRef \in Chains)
          BY <1>0, <2>1 DEF KeyResolved, Chains
        <5>2. CASE wsRef = 0
          BY <5>1, <5>2 DEF Current, Over
        <5>3. CASE wsRef # 0
          <6>1. wsRef \in Chains /\ Current = chain[wsRef] /\ Current' = chain'[wsRef]
            BY <5>1, <5>3 DEF Current
          <6>2. QED
            BY <4>2, <6>1
        <5>4. QED
          BY <5>2, <5>3
      <4>4. active' = active
        BY <2>1 DEF KeyResolved
      <4>5. ASSUME NEW j \in Chains, chain[j].at \in {"key", "history"}, chain[j].chat = active
            PROVE  chain'[j].at \in {"key", "history"} /\ chain'[j].chat = active
        BY <4>2, <4>5
      <4>6. QED
        BY <4>3, <4>4, <4>5 DEF WrongSocketOnlyWhileLoading
    <3>3. QED
      BY <2>1, <3>1, <3>2 DEF KeyResolved, Load
  <2>2. CASE HistoryLoaded(i)
    BY <1>2, <2>0, <2>2 DEF HistoryLoaded
  <2>3. CASE TicketRefused(i)
    BY <1>4, <2>0, <2>3 DEF TicketRefused
  <2>4. CASE TicketGranted(i)
    <3>1. CASE chain[i].chat = active
      <4>1. /\ \A j \in Chains \ {i} : chain'[j] = chain[j]
            /\ chain'[i].chat = active /\ chain'[i].chat = chain[i].chat
        BY <1>0, <2>4, <3>1 DEF TicketGranted
      <4>2. QED
        BY <1>3, <2>4, <3>1, <4>1 DEF TicketGranted
    <3>2. CASE chain[i].chat # active
      <4>1. (\A j \in Chains \ {i} : chain'[j] = chain[j]) /\ chain'[i].at = "over"
        BY <1>0, <2>4, <3>2 DEF TicketGranted
      <4>2. QED
        BY <1>3, <2>4, <3>2, <4>1 DEF TicketGranted
    <3>3. QED
      BY <3>1, <3>2
  <2>5. CASE Opened(i)
    <3>1. (\A j \in Chains \ {i} : chain'[j] = chain[j]) /\ chain'[i].chat = chain[i].chat
      BY <1>0, <2>5 DEF Opened
    <3>2. QED
      BY <1>3, <2>5, <3>1 DEF Opened
  <2>6. CASE Closed(i)
    BY <1>4, <2>0, <2>6 DEF Closed
  <2>7. CASE TimerFires(i)
    BY <1>2, <2>0, <2>7 DEF TimerFires
  <2>8. QED
    BY <2>1, <2>2, <2>3, <2>4, <2>5, <2>6, <2>7 DEF Step
<1>6. CASE Leave
  <2>1. wsRef # 0 => CloseCurrent[wsRef].at \notin {"connecting", "open"}
    BY <1>0 DEF CloseCurrent, Chains
  <2>2. wsRef # 0 => chain'[wsRef].at \notin {"connecting", "open"}
    BY <1>0, <1>6, <2>1 DEF Leave, Chains
  <2>3. Current'.at \notin {"connecting", "open"}
    BY <1>6, <2>2 DEF Leave, Current, Over
  <2>4. QED
    BY <2>3 DEF WrongSocketOnlyWhileLoading
<1>7. CASE UNCHANGED <<active, chain, wsRef>>
  BY <1>7 DEF WrongSocketOnlyWhileLoading, Current
<1>8. QED
  BY <1>1, <1>5, <1>6, <1>7 DEF Next, NetToggle, SendStart, SendFinish, vars

\* While no history is awaited for the chat on the screen, what the user sends
\* there goes nowhere else.
THEOREM WrongSocketOnlyWhileLoadingHolds == Spec => []WrongSocketOnlyWhileLoading
<1>1. Init => WrongSocketOnlyWhileLoading
  BY DEF Init, WrongSocketOnlyWhileLoading, Current, Over
<1>2. TypeOK /\ TypeOK' /\ WrongSocketOnlyWhileLoading /\ [Next]_vars
        => WrongSocketOnlyWhileLoading'
  BY WrongSocketStep
<1>3. QED
  BY <1>1, <1>2, TypeCorrect, PTL DEF Spec
=============================================================================
