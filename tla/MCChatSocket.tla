---------------------------- MODULE MCChatSocket ----------------------------
(***************************************************************************)
(* Instances of ChatSocket for TLC, and what the comments of App.tsx say   *)
(* of the socket where the code does something else.                       *)
(***************************************************************************)
EXTENDS ChatSocket, TLC

CONSTANTS c1, c2

TwoChats == {c1, c2}

\* Comment of sendMessage: it returns false if the message did not go out, so
\* that no text is lost: what it returned true for went to the chat it was
\* written in.
TrueMeansSent == \A p \in posts : p.to = p.for
=============================================================================
