---------------------------- MODULE MCMediaStore ----------------------------
(***************************************************************************)
(* Instances of MediaStore for TLC, and what a comment of the repository   *)
(* says of the media of a post where the code does something else.         *)
(***************************************************************************)
EXTENDS MediaStore, TLC

CONSTANTS u1, u2, chat, p1, a1, m1, m2, m3, t1, t2

TwoUsers == {u1, u2}
OnePost == {p1}
OneAlbum == {a1}
ThreeMessages == {m1, m2, m3}
TwoTasks == {t1, t2}
TaskSymmetry == Permutations(TwoTasks)

Owners == (p1 :> u1) @@ (a1 :> u1) @@ (m1 :> u1) @@ (m2 :> u2) @@ (m3 :> u1)
Types == (m1 :> "video") @@ (m2 :> "video") @@ (m3 :> "file")

OneUser == {u1}
Nothing == {}
OwnerOfPost == p1 :> u1
NoTypes == [m \in {} |-> "image"]

\* Comment at add_media (src/src/posts/repo.py): the lock keeps two calls from
\* overwriting each other's uploads.  What a finished upload put into a post is
\* there as long as the post is.
UploadsAreKept == \A f \in stored : origin[f].at \in alive => f \in files[origin[f].at]
=============================================================================
