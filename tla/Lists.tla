------------------------------- MODULE Lists -------------------------------
(***************************************************************************)
(* What the client and the server do to lists of messages: take some of    *)
(* them, in their order (filter, WHERE), and the last ones (slice(-n), a   *)
(* page of the history).                                                   *)
(***************************************************************************)
EXTENDS Naturals, Sequences

\* The items that are in ms, in their order.
Only(items, ms) ==
  LET first[n \in 0 .. Len(items)] ==
        IF n = 0 THEN <<>>
        ELSE IF items[n] \in ms THEN Append(first[n - 1], items[n]) ELSE first[n - 1]
  IN  first[Len(items)]

\* items.slice(-n)
LastOf(items, n) ==
  SubSeq(items, IF Len(items) > n THEN Len(items) - n + 1 ELSE 1, Len(items))
=============================================================================
