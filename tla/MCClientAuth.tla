---------------------------- MODULE MCClientAuth ----------------------------
(***************************************************************************)
(* Instances of ClientAuth for TLC.                                        *)
(***************************************************************************)
EXTENDS ClientAuth, TLC

Symmetric == Permutations(Slots)

\* Bounds: of two answers that are back one is good, and the pass of the gate
\* does not expire under a log-in or a deletion.
OneFailure ==
  Cardinality({s \in Slots : slot[s].phase = "back" /\ slot[s].ans \in {"lost", "error", "gate"}}) <= 1

PassLasts == gateTok /\ ~gateValid => ~Asking({"login", "profile", "enter", "delete"})
=============================================================================
