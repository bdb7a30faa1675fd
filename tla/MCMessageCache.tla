--------------------------- MODULE MCMessageCache ---------------------------
(***************************************************************************)
(* Instances of MessageCache for TLC.                                      *)
(***************************************************************************)
EXTENDS MessageCache, TLC

CONSTANTS u1, u2

TwoUsers == {u1, u2}
UserSymmetry == Permutations(TwoUsers)
=============================================================================
