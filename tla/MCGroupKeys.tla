---------------------------- MODULE MCGroupKeys ----------------------------
(***************************************************************************)
(* Instances of GroupKeys for TLC, and what a comment of the repository    *)
(* says of the rows where the code does something else.                    *)
(***************************************************************************)
EXTENDS GroupKeys, TLC

CONSTANTS u1, u2, u3, u4

FourUsers == {u1, u2, u3, u4}
ThreeFounders == {u1, u2, u3}
FounderSymmetry == Permutations(ThreeFounders)

\* Docstring of members_without_keys: the rows of a pair that was rotated away
\* are deleted, or the member would stay in the group without access for ever.
\* A row that does not open with the published pair is never replaced.
RowsOpen == \A u \in Users : row[u] # NoRow => row[u].pair = pub[u]
=============================================================================
