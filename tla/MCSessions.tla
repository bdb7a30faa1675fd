----------------------------- MODULE MCSessions -----------------------------
(***************************************************************************)
(* Instances of Sessions for TLC.                                          *)
(***************************************************************************)
EXTENDS Sessions, TLC

CONSTANTS u1, s1, s2

OneUser == {u1}
TwoSlots == {s1, s2}
SlotSymmetry == Permutations(TwoSlots)
=============================================================================
