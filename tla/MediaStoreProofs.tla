-------------------------- MODULE MediaStoreProofs --------------------------
(***************************************************************************)
(* Proofs about MediaStore for any users, rows, requests in flight and     *)
(* bounds: its types; by one inductive invariant (Inv) that only forwarded *)
(* files are named after they are gone and that a post loses uploads only  *)
(* to an upload beside them; and by a second one (LeakInv) that no file is *)
(* left in the bucket but for a known reason.                              *)
(***************************************************************************)
EXTENDS MediaStore, TLAPS

USE OwnerAssumption, TypeAssumption, BoundsAssumption, RowsAssumption

Tuples == [pc : {"idle", "work", "delete"}, kind : Kinds, user : Users,
           at : Rows, base : SUBSET (1 .. uploads), held : SUBSET (1 .. uploads),
           left : Nat, broken : BOOLEAN, trash : SUBSET (1 .. uploads)]

\* A request that has ended is a request.
LEMMA IdleType == Idle \in Tuples /\ Idle.pc = "idle" /\ Idle.at = Chat
  BY DEF Idle, State, Tuples, Kinds, Rows

\* The system starts with its types: users and a chat, no files, no requests.
LEMMA TypeInit == Init => TypeOK
  <1> SUFFICES ASSUME Init PROVE TypeOK
    OBVIOUS
  <1>1. NoOrigin \in [by : Users, at : Rows]
    BY DEF NoOrigin, Rows
  <1>2. Idle \in Tuples
    BY IdleType
  <1>3. QED
    BY <1>1, <1>2, IdleType DEF Init, TypeOK, Tuples, Rows, Known

\* A request that begins takes its place among the others.
LEMMA BeginType ==
  ASSUME TypeOK, NEW t \in Tasks, NEW r \in Tuples, Begin(t, r),
         r.at \in Known', made \subseteq made'
  PROVE  /\ task' \in [Tasks -> Tuples] /\ requests' \in 0 .. MaxRequests
         /\ faults' = faults
         /\ \A s \in Tasks : task'[s].at \in Known'
  <1>1. task \in [Tasks -> Tuples] /\ task' = [task EXCEPT ![t] = r]
    BY DEF TypeOK, Begin, Tuples
  <1>2. requests' \in 0 .. MaxRequests /\ faults' = faults
    BY DEF TypeOK, Begin
  <1>3. \A s \in Tasks : task[s].at \in Known'
    BY DEF TypeOK, Known
  <1>4. QED
    BY <1>1, <1>2, <1>3

\* Failures stay within their bound.
LEMMA FaultType == TypeOK /\ Fault => faults' \in 0 .. MaxFaults /\ requests' = requests
  BY DEF TypeOK, Fault

\* Every handler, continuation and failure keeps the types.
THEOREM TypeStep == TypeOK /\ [Next]_vars => TypeOK'
<1> SUFFICES ASSUME TypeOK, [Next]_vars PROVE TypeOK'
  OBVIOUS
<1> USE DEF TypeOK, Known, database, bucket, history, bounds
<1>0. /\ task \in [Tasks -> Tuples] /\ Idle \in Tuples
  BY IdleType DEF Tuples
<1>u. ASSUME UNCHANGED uploads, task' \in [Tasks -> Tuples]
      PROVE  task' \in [Tasks -> [pc : {"idle", "work", "delete"}, kind : Kinds, user : Users,
                         at : Rows, base : SUBSET (1 .. uploads'),
                         held : SUBSET (1 .. uploads'), left : Nat,
                         broken : BOOLEAN, trash : SUBSET (1 .. uploads')]]
  BY <1>u DEF Tuples
<1>1. ASSUME NEW u \in Users, NEW x \in Posts \cup Albums, Create(u, x) PROVE TypeOK'
  BY <1>1 DEF Create, Owned, Rows
<1>2. ASSUME NEW u \in Users, NEW a \in Albums, AddMember(a, u) PROVE TypeOK'
  BY <1>2 DEF AddMember
<1>3. ASSUME NEW u \in Users, NEW a \in Albums, RemoveMember(a, u) PROVE TypeOK'
  BY <1>3 DEF RemoveMember
<1>4. ASSUME NEW u \in Users, NEW from \in Messages, NEW m \in Messages, Forward(u, from, m)
      PROVE TypeOK'
  BY <1>4 DEF Forward, Owned, Rows
<1>5. ASSUME NEW t \in Tasks, NEW u \in Users, NEW x \in {u, Chat}, StartPicture(t, u, x)
      PROVE TypeOK'
  <2>1. LET r == Request("picture", u, x, files[x], 1) IN r \in Tuples /\ r.at = x
    BY DEF Request, State, Tuples, Kinds, Rows
  <2>2. /\ task' \in [Tasks -> Tuples] /\ requests' \in 0 .. MaxRequests /\ faults' = faults
        /\ \A s \in Tasks : task'[s].at \in Known'
    BY <1>5, <2>1, BeginType DEF StartPicture, Owned
  <2>3. raced' \subseteq Rows
    BY <1>5 DEF StartPicture, Race, Rows
  <2>4. QED
    BY <1>5, <2>2, <2>3, <1>u DEF StartPicture
<1>6. ASSUME NEW t \in Tasks, NEW u \in Users, NEW m \in Messages, StartMessage(t, u, m)
      PROVE TypeOK'
  <2>1. \A n \in {1, 2} :
         LET r == Request("message", u, m, {}, n) IN r \in Tuples /\ r.at = m
    BY DEF Request, State, Tuples, Kinds, Rows, Owned
  <2>2. /\ task' \in [Tasks -> Tuples] /\ requests' \in 0 .. MaxRequests /\ faults' = faults
        /\ \A s \in Tasks : task'[s].at \in Known'
    BY <1>6, <2>1, BeginType DEF StartMessage, Owned
  <2>3. QED
    BY <1>6, <2>2, <1>u DEF StartMessage, Owned
<1>7. ASSUME NEW t \in Tasks, NEW u \in Users, NEW p \in Posts, NEW n \in 1 .. MaxBatch,
             StartPost(t, u, p, n)
      PROVE TypeOK'
  <2>1. LET r == Request("post", u, p, files[p], n) IN r \in Tuples /\ r.at = p
    BY DEF Request, State, Tuples, Kinds, Rows, Owned
  <2>2. /\ task' \in [Tasks -> Tuples] /\ requests' \in 0 .. MaxRequests /\ faults' = faults
        /\ \A s \in Tasks : task'[s].at \in Known'
    BY <1>7, <2>1, BeginType DEF StartPost, Owned
  <2>3. raced' \subseteq Rows
    BY <1>7 DEF StartPost, Race, Rows, Owned
  <2>4. QED
    BY <1>7, <2>2, <2>3, <1>u DEF StartPost
<1>8. ASSUME NEW t \in Tasks, NEW u \in Users, NEW a \in Albums, NEW n \in 1 .. MaxBatch,
             StartAlbum(t, u, a, n)
      PROVE TypeOK'
  <2>1. LET r == Request("album", u, a, {}, n) IN r \in Tuples /\ r.at = a
    BY DEF Request, State, Tuples, Kinds, Rows, Owned
  <2>2. /\ task' \in [Tasks -> Tuples] /\ requests' \in 0 .. MaxRequests /\ faults' = faults
        /\ \A s \in Tasks : task'[s].at \in Known'
    BY <1>8, <2>1, BeginType DEF StartAlbum, Owned
  <2>3. QED
    BY <1>8, <2>2, <1>u DEF StartAlbum
<1>9. ASSUME NEW t \in Tasks, NEW u \in Users, NEW a \in Albums, NEW f \in Files,
             StartDrop(t, u, a, f)
      PROVE TypeOK'
  <2>1. f \in 1 .. uploads
    BY <1>9 DEF StartDrop, Rows, Owned
  <2>2. LET r == Request("drop", u, a, {f}, 0) IN r \in Tuples /\ r.at = a
    BY <2>1 DEF Request, State, Tuples, Kinds, Rows, Owned
  <2>3. /\ task' \in [Tasks -> Tuples] /\ requests' \in 0 .. MaxRequests /\ faults' = faults
        /\ \A s \in Tasks : task'[s].at \in Known'
    BY <1>9, <2>2, BeginType DEF StartDrop, Owned
  <2>4. QED
    BY <1>9, <2>3, <1>u DEF StartDrop
<1>10. ASSUME NEW t \in Tasks, NEW u \in Users, StartAccount(t, u) PROVE TypeOK'
  <2>1. LET r == Request("account", u, u, files[u], 1) IN r \in Tuples /\ r.at = u
    BY DEF Request, State, Tuples, Kinds, Rows
  <2>2. /\ task' \in [Tasks -> Tuples] /\ requests' \in 0 .. MaxRequests /\ faults' = faults
        /\ \A s \in Tasks : task'[s].at \in Known'
    BY <1>10, <2>1, BeginType DEF StartAccount, Owned
  <2>3. QED
    BY <1>10, <2>2, <1>u DEF StartAccount
<1>11. ASSUME NEW t \in Tasks, NEW m \in Messages, DeleteMessage(t, m) PROVE TypeOK'
  <2>1. m \in Rows /\ files[m] \subseteq 1 .. uploads /\ Owner[m] \in Users
    BY DEF Rows, Owned
  <2>2. \A fs \in SUBSET files[m] :
         LET r == Deleting("message", Owner[m], m, fs) IN r \in Tuples /\ r.at = m
    BY <2>1 DEF Deleting, State, Tuples, Kinds, Rows, Owned
  <2>3. /\ task' \in [Tasks -> Tuples] /\ requests' \in 0 .. MaxRequests /\ faults' = faults
        /\ \A s \in Tasks : task'[s].at \in Known'
    BY <1>11, <2>2, BeginType DEF DeleteMessage, Owned
  <2>4. QED
    BY <1>11, <2>1, <2>3, <1>u DEF DeleteMessage
<1>12. ASSUME NEW t \in Tasks, NEW p \in Posts, DeletePost(t, p) PROVE TypeOK'
  <2>1. p \in Rows /\ files[p] \subseteq 1 .. uploads /\ Owner[p] \in Users
    BY DEF Rows, Owned
  <2>2. LET r == Deleting("post", Owner[p], p, files[p]) IN r \in Tuples /\ r.at = p
    BY <2>1 DEF Deleting, State, Tuples, Kinds, Rows, Owned
  <2>3. /\ task' \in [Tasks -> Tuples] /\ requests' \in 0 .. MaxRequests /\ faults' = faults
        /\ \A s \in Tasks : task'[s].at \in Known'
    BY <1>12, <2>2, BeginType DEF DeletePost, Owned
  <2>4. QED
    BY <1>12, <2>1, <2>3, <1>u DEF DeletePost
<1>13. ASSUME NEW t \in Tasks, Upload(t) PROVE TypeOK'
  <2>1. /\ uploads' = uploads + 1 /\ uploads' \in 0 .. MaxFiles
        /\ 1 .. uploads' = (1 .. uploads) \cup {uploads + 1} /\ uploads + 1 \in Files
    BY <1>13 DEF Upload, Files
  <2>2. origin' \in [Files -> [by : Users, at : Rows]]
    BY <1>13, <2>1, <1>0 DEF Upload, Tuples
  <2>3. task' \in [Tasks -> [pc : {"idle", "work", "delete"}, kind : Kinds, user : Users,
                         at : Rows, base : SUBSET (1 .. uploads'),
                         held : SUBSET (1 .. uploads'), left : Nat,
                         broken : BOOLEAN, trash : SUBSET (1 .. uploads')]]
    BY <1>13, <2>1, <1>0 DEF Upload, Tuples
  <2>4. files' \in [Rows -> SUBSET (1 .. uploads')]
    BY <1>13, <2>1 DEF Upload
  <2>5. QED
    BY <1>13, <2>1, <2>2, <2>3, <2>4 DEF Upload
<1>14. ASSUME NEW t \in Tasks, UploadFails(t) PROVE TypeOK'
  <2>1. task' \in [Tasks -> Tuples]
    <3> DEFINE n == IF task[t].kind = "message" THEN 0 ELSE task[t].left - 1
               b == task[t].broken \/ task[t].kind # "message" \/ task[t].held = {}
    <3>1. task'[t] = [task[t] EXCEPT !.left = n, !.broken = b]
      BY <1>14, <1>0 DEF UploadFails, Tuples
    <3>2. [task[t] EXCEPT !.left = n, !.broken = b] \in Tuples
      <4>1. n \in Nat /\ b \in BOOLEAN /\ task[t] \in Tuples
        BY <1>0, <1>14 DEF UploadFails, Tuples
      <4> HIDE DEF n, b
      <4>2. QED
        BY <4>1 DEF Tuples
    <3>3. task' = [task EXCEPT ![t] = task'[t]]
      BY <1>14, <1>0 DEF UploadFails, Tuples
    <3>4. QED
      BY <1>0, <3>1, <3>2, <3>3
  <2>2. QED
    BY <1>14, <2>1, <1>u, FaultType DEF UploadFails
<1>15. ASSUME NEW t \in Tasks, Withdraw(t) PROVE TypeOK'
  <2>1. task' \in [Tasks -> Tuples]
    <3>1. task'[t] = [task[t] EXCEPT !.pc = "delete", !.trash = task[t].held, !.held = {}]
      BY <1>15, <1>0 DEF Withdraw, Tuples
    <3>2. [task[t] EXCEPT !.pc = "delete", !.trash = task[t].held, !.held = {}] \in Tuples
      BY <1>0 DEF Tuples
    <3>3. task' = [task EXCEPT ![t] = task'[t]]
      BY <1>15, <1>0 DEF Withdraw, Tuples
    <3>4. QED
      BY <1>0, <3>1, <3>2, <3>3
  <2>2. QED
    BY <1>15, <2>1, <1>u DEF Withdraw
<1>16. ASSUME NEW t \in Tasks, Save(t) PROVE TypeOK'
  <2>1. task' \in [Tasks -> Tuples]
    <3> DEFINE fs == IF task[t].kind = "picture" THEN task[t].base ELSE {}
    <3>1. task'[t] = [task[t] EXCEPT !.pc = "delete", !.held = {}, !.trash = fs]
      BY <1>16, <1>0 DEF Save, Tuples
    <3>5. fs \in SUBSET (1 .. uploads)
      BY <1>0 DEF Tuples
    <3> HIDE DEF fs
    <3>2. [task[t] EXCEPT !.pc = "delete", !.held = {}, !.trash = fs] \in Tuples
      BY <1>0, <3>5 DEF Tuples
    <3>3. task' = [task EXCEPT ![t] = task'[t]]
      BY <1>16, <1>0 DEF Save, Tuples
    <3>4. QED
      BY <1>0, <3>1, <3>2, <3>3
  <2>2. SavedFiles(t) \subseteq 1 .. uploads /\ LeftBehind(t) \subseteq 1 .. uploads
    BY <1>0 DEF SavedFiles, LeftBehind, Tuples
  <2>3. files' \in [Rows -> SUBSET (1 .. uploads)]
    BY <1>16, <2>2 DEF Save
  <2>4. QED
    <3>1. alive' \subseteq Rows /\ alive' \cap Owned \subseteq made'
      BY <1>16, <1>0 DEF Save, Tuples
    <3>2. stored' \subseteq 1 .. uploads
      BY <1>16, <1>0 DEF Save, Tuples
    <3>3. QED
      BY <1>16, <2>1, <2>2, <2>3, <3>1, <3>2, <1>u DEF Save
<1>17. ASSUME NEW t \in Tasks, SaveFails(t) PROVE TypeOK'
  <2>1. task' \in [Tasks -> Tuples]
    BY <1>17, <1>0 DEF SaveFails
  <2>2. QED
    <3>1. faults' \in 0 .. MaxFaults /\ requests' \in 0 .. MaxRequests
      BY <1>17, FaultType DEF SaveFails
    <3>2. excused' \subseteq 1 .. uploads
      BY <1>17, <1>0 DEF SaveFails, Tuples
    <3>3. QED
      BY <1>17, <2>1, <3>1, <3>2, <1>u, IdleType DEF SaveFails
<1>18. ASSUME NEW t \in Tasks, Drop(t) PROVE TypeOK'
  <2>1. task' \in [Tasks -> Tuples]
    <3>1. task'[t] = [task[t] EXCEPT !.pc = "delete", !.trash = task[t].base]
      BY <1>18, <1>0 DEF Drop, Tuples
    <3>2. [task[t] EXCEPT !.pc = "delete", !.trash = task[t].base] \in Tuples
      BY <1>0 DEF Tuples
    <3>3. task' = [task EXCEPT ![t] = task'[t]]
      BY <1>18, <1>0 DEF Drop, Tuples
    <3>4. QED
      BY <1>0, <3>1, <3>2, <3>3
  <2>2. QED
    BY <1>18, <1>0, <2>1, <1>u DEF Drop
<1>19. ASSUME NEW t \in Tasks, ListOrphaned(t) PROVE TypeOK'
  <2>1. Orphaned(task[t].at) \subseteq 1 .. uploads
    BY DEF Orphaned, MaterialsOf, FilesOf, RowsOf, Owned, Rows
  <2>2. task' \in [Tasks -> Tuples]
    BY <1>19, <1>0, <2>1 DEF ListOrphaned, Tuples
  <2>3. QED
    BY <1>19, <2>2, <1>u DEF ListOrphaned
<1>20. ASSUME NEW t \in Tasks, DeleteAccount(t) PROVE TypeOK'
  <2>1. task' \in [Tasks -> Tuples]
    <3>1. task'[t] = [task[t] EXCEPT !.pc = "delete", !.trash = task[t].base]
      BY <1>20, <1>0 DEF DeleteAccount, Tuples
    <3>2. [task[t] EXCEPT !.pc = "delete", !.trash = task[t].base] \in Tuples
      BY <1>0 DEF Tuples
    <3>3. task' = [task EXCEPT ![t] = task'[t]]
      BY <1>20, <1>0 DEF DeleteAccount, Tuples
    <3>4. QED
      BY <1>0, <3>1, <3>2, <3>3
  <2>2. files' \in [Rows -> SUBSET (1 .. uploads)]
    BY <1>20 DEF DeleteAccount
  <2>3. excused' \subseteq 1 .. uploads
    <3>1. \A S \in SUBSET Rows : FilesOf(S) \subseteq 1 .. uploads
      BY DEF FilesOf
    <3>2. Documents(task[t].at) \subseteq 1 .. uploads
      BY <3>1 DEF Documents, RowsOf, Rows, Owned
    <3>3. FilesOf(RowsOf(task[t].at) \cap Albums) \subseteq 1 .. uploads
      BY <3>1 DEF RowsOf, Rows, Owned
    <3>4. FilesOf({Chat}) \subseteq 1 .. uploads /\ FilesOf({}) \subseteq 1 .. uploads
      BY <3>1 DEF Rows
    <3>5. QED
      BY <1>20, <3>2, <3>3, <3>4 DEF DeleteAccount
  <2>4. members' \in [Albums -> SUBSET Users]
    BY <1>20 DEF DeleteAccount
  <2>5. QED
    <3>1. alive' \subseteq alive /\ made' = made /\ Known' = Known
      BY <1>20 DEF DeleteAccount
    <3>2. \A s \in Tasks : task'[s].at \in Known'
      BY <1>20, <1>0, <3>1 DEF DeleteAccount, Tuples
    <3>3. QED
      BY <1>20, <2>1, <2>2, <2>3, <2>4, <3>1, <3>2, <1>u DEF DeleteAccount
<1>21. ASSUME NEW t \in Tasks, NEW f \in Files, Remove(t, f) PROVE TypeOK'
  <2>1. task' \in [Tasks -> Tuples]
    BY SMTT(30), <1>21, <1>0 DEF Remove, Tuples
  <2>2. QED
    BY SMTT(30), <1>21, <2>1, <1>u DEF Remove
<1>22. ASSUME NEW t \in Tasks, NEW f \in Files, RemoveRefused(t, f) PROVE TypeOK'
  <2>1. task' \in [Tasks -> Tuples] /\ f \in 1 .. uploads
    BY <1>22, <1>0 DEF RemoveRefused, Tuples
  <2>2. QED
    BY SMTT(30), <1>22, <2>1, <1>u, FaultType DEF RemoveRefused
<1>23. ASSUME NEW t \in Tasks, RemoveRaises(t) PROVE TypeOK'
  <2>1. task' \in [Tasks -> Tuples] /\ task[t].trash \subseteq 1 .. uploads
    BY <1>23, <1>0 DEF RemoveRaises, Tuples
  <2>2. QED
    BY <1>23, <2>1, <1>u, FaultType, IdleType DEF RemoveRaises
<1>24. ASSUME NEW t \in Tasks, End(t) PROVE TypeOK'
  <2>1. task' \in [Tasks -> Tuples]
    BY <1>24, <1>0 DEF End
  <2>2. QED
    BY <1>24, <2>1, <1>u, IdleType DEF End
<1>25. ASSUME Crash PROVE TypeOK'
  <2>1. task' \in [Tasks -> Tuples]
    BY <1>25, <1>0 DEF Crash
  <2>2. Carried \subseteq 1 .. uploads
    BY <1>0 DEF Carried, Tuples
  <2>3. QED
    BY <1>25, <2>1, <2>2, <1>u, FaultType, IdleType DEF Crash
<1>26. ASSUME UNCHANGED vars PROVE TypeOK'
  BY <1>26 DEF vars
<1>27. QED
  BY SMTT(30), <1>1, <1>2, <1>3, <1>4, <1>5, <1>6, <1>7, <1>8, <1>9, <1>10, <1>11, <1>12, <1>13,
     <1>14, <1>15, <1>16, <1>17, <1>18, <1>19, <1>20, <1>21, <1>22, <1>23, <1>24, <1>25,
     <1>26 DEF Next, RowStep, Start, Delete, Continue

\* What a row names, what requests hold and what is in the bucket are uploaded
\* files, and rows, requests and histories have their types.
THEOREM TypeCorrect == Spec => []TypeOK
  BY TypeInit, TypeStep, PTL DEF Spec

-----------------------------------------------------------------------------
(***************************************************************************)
(* What requests in flight may know of rows and files, whatever runs       *)
(* beside them.                                                            *)
(***************************************************************************)

\* Each kind of request is about a row of its table.
Sorts ==
  \A t \in Tasks : task[t].pc = "work" =>
    /\ task[t].kind = "picture" => task[t].at \in {task[t].user, Chat}
    /\ task[t].kind = "message" => task[t].at \in Messages \cap made
    /\ task[t].kind = "post" => task[t].at \in Posts \cap made
    /\ task[t].kind \in {"album", "drop"} => task[t].at \in Albums \cap made
    /\ task[t].kind = "account" => task[t].at = task[t].user

\* Only a forwarded file is named by a row it was not uploaded for.
Home ==
  /\ \A x \in Rows : \A f \in files[x] \ shared : origin[f].at = x
  /\ \A x \in Owned \ made : files[x] = {}

\* What an upload holds is in the bucket, and nobody else knows of it.
Apart(t, f) ==
  /\ Uploading(t) /\ f \in objects /\ origin[f].at = task[t].at
  /\ f \notin shared \cup stored
  /\ \A x \in Rows : f \notin files[x]
  /\ \A s \in Tasks : f \notin task[s].base /\ f \notin task[s].trash
  /\ \A s \in Tasks : f \in task[s].held => s = t
HeldApart == \A t \in Tasks : \A f \in task[t].held : Apart(t, f)

\* What a request has read belongs to its row, or to the account it deletes.
OfUser(u, f) ==
  \/ origin[f].at = u
  \/ origin[f].at \in Posts \cup Messages /\ Owner[origin[f].at] = u
  \/ origin[f].at \in Albums /\ origin[f].by = u

Own(t, f) ==
  IF task[t].kind = "account" THEN OfUser(task[t].at, f) ELSE origin[f].at = task[t].at
BaseOwn ==
  \A t \in Tasks : task[t].pc = "work" => \A f \in task[t].base \ shared : Own(t, f)

\* What an upload to a post that is still there has read is still in the bucket.
PostBase ==
  \A t \in Tasks : Working(t, "post") /\ task[t].at \in alive =>
    \A f \in task[t].base : f \in objects \cup shared

\* A file about to be deleted is not named by the row it was uploaded for, nor
\* will an upload that has read this row name it again.
Free(f) ==
  origin[f].at \in alive =>
    /\ f \notin files[origin[f].at]
    /\ \A s \in Tasks : Working(s, "post") => f \notin task[s].base
TrashFree ==
  \A t \in Tasks : \A f \in task[t].trash \ shared : task[t].pc = "delete" /\ Free(f)

\* DanglingOnlyIfShared, row by row.
Present == \A x \in alive : \A f \in files[x] : f \in objects \/ f \in shared

\* The only upload to a post has read all that finished uploads have put there.
StoredAtPosts == \A f \in stored : origin[f].at \in Posts \cap made
PostKept ==
  \A t \in Tasks : Working(t, "post") /\ task[t].at \in alive \ raced =>
    \A f \in stored : origin[f].at = task[t].at => f \in task[t].base
PostRaced ==
  \A s, t \in Tasks :
    s # t /\ Working(s, "post") /\ Working(t, "post") /\ task[s].at = task[t].at
      => task[t].at \in raced

Inv ==
  /\ Sorts /\ Home /\ HeldApart /\ BaseOwn /\ PostBase /\ TrashFree
  /\ StoredAtPosts /\ PostKept /\ PostRaced
  /\ Present /\ LostOnlyIfRaced

\* What account deletion lists (get_orphaned_media) is named by a row of the user,
\* or is a material of theirs in an album.
LEMMA OrphanedNamed ==
  ASSUME TypeOK, NEW u \in Users, NEW f \in Orphaned(u)
  PROVE  \E x \in alive \cap Owned :
           /\ f \in files[x]
           /\ x \notin Albums => Owner[x] = u
           /\ x \in Albums => origin[f].by = u
  <1>1. CASE f \in MaterialsOf(u)
    BY <1>1 DEF MaterialsOf, FilesOf, Owned
  <1>2. CASE f \notin MaterialsOf(u)
    BY <1>2 DEF Orphaned, FilesOf, RowsOf
  <1>3. QED
    BY <1>1, <1>2

\* An upload puts into its row what it has uploaded, what it has read (post) or what
\* is there (album).
LEMMA SavedKnown == ASSUME NEW t, NEW f \in SavedFiles(t)
                    PROVE  \/ f \in task[t].held
                           \/ task[t].kind = "post" /\ f \in task[t].base
                           \/ task[t].kind = "album" /\ f \in files[task[t].at]
  BY DEF SavedFiles

\* Row by row it says the same as for all that is referenced.
LEMMA PresentMeans == Present => DanglingOnlyIfShared
  BY DEF Present, DanglingOnlyIfShared, Referenced, FilesOf

\* A step that changes no row and no file, and at most ends requests or takes
\* files off what they delete.
LEMMA QuietStep ==
  ASSUME TypeOK, Inv,
         UNCHANGED <<alive, files, made, objects, origin, shared, raced, stored>>,
         \A t \in Tasks :
           \/ /\ task'[t].pc = "idle" /\ task'[t].base = {}
              /\ task'[t].held = {} /\ task'[t].trash = {}
           \/ /\ task'[t].pc = task[t].pc /\ task'[t].kind = task[t].kind
              /\ task'[t].user = task[t].user /\ task'[t].at = task[t].at
              /\ task'[t].base = task[t].base /\ task'[t].held = task[t].held
              /\ task'[t].trash \subseteq task[t].trash
  PROVE  Inv'
  <1>1. /\ Sorts /\ Home /\ HeldApart /\ BaseOwn /\ PostBase /\ TrashFree
        /\ StoredAtPosts /\ PostKept /\ PostRaced /\ Present /\ LostOnlyIfRaced
    BY DEF Inv
  <1>2. Sorts'
    BY <1>1 DEF Sorts
  <1>3. Home'
    BY <1>1 DEF Home, Working
  <1>4. HeldApart'
    <2> SUFFICES ASSUME NEW t \in Tasks, NEW f \in task'[t].held PROVE Apart(t, f)'
      BY DEF HeldApart
    <2>1. f \in task[t].held /\ Apart(t, f)
      BY <1>1 DEF HeldApart
    <2>2. QED
      BY <2>1 DEF Apart, Uploading
  <1>5. BaseOwn'
    BY <1>1 DEF BaseOwn, Own, OfUser
  <1>6. PostBase'
    BY <1>1 DEF PostBase, Working
  <1>7. TrashFree'
    BY <1>1 DEF TrashFree, Free, Working
  <1>8. StoredAtPosts'
    BY <1>1 DEF StoredAtPosts
  <1>9. PostKept'
    BY <1>1 DEF PostKept, Working
  <1>10. PostRaced'
    BY <1>1 DEF PostRaced, Working
  <1>11. Present'
    BY <1>1 DEF Present
  <1>12. LostOnlyIfRaced'
    BY <1>1 DEF LostOnlyIfRaced
  <1>13. QED
    BY <1>2, <1>3, <1>4, <1>5, <1>6, <1>7, <1>8, <1>9, <1>10, <1>11, <1>12 DEF Inv

\* A request that has ended carries and has read nothing.
LEMMA IdleFacts == Idle.pc = "idle" /\ Idle.held = {} /\ Idle.base = {} /\ Idle.trash = {}
  BY DEF Idle, State

\* Every step keeps the strengthened invariant: what a request has read, holds and
\* is about to delete stays apart from what others do to the same rows.
THEOREM InvStep == TypeOK /\ TypeOK' /\ Inv /\ [Next]_vars => Inv'
<1> SUFFICES ASSUME TypeOK, TypeOK', Inv, [Next]_vars PROVE Inv'
  OBVIOUS
<1>0. /\ task \in [Tasks -> Tuples] /\ files \in [Rows -> SUBSET (1 .. uploads)]
      /\ objects \subseteq 1 .. uploads /\ shared \subseteq 1 .. uploads
      /\ stored \subseteq 1 .. uploads /\ origin \in [Files -> [by : Users, at : Rows]]
      /\ 1 .. uploads \subseteq Files /\ alive \subseteq Rows /\ alive \cap Owned \subseteq made
      /\ \A t \in Tasks : task[t].at \in Rows /\ task[t].at \in Users \cup {Chat} \cup made
  BY DEF TypeOK, Tuples, Files, Known
<1>r. /\ Sorts /\ Home /\ HeldApart /\ BaseOwn /\ PostBase /\ TrashFree
      /\ StoredAtPosts /\ PostKept /\ PostRaced
      /\ Present /\ LostOnlyIfRaced
  BY DEF Inv
<1>1. ASSUME NEW u \in Users, NEW x \in Posts \cup Albums, Create(u, x)
      PROVE Inv'
  <2>1. /\ x \in (Posts \cup Albums) \ made
        /\ alive' = alive \cup {x}
        /\ made' = made \cup {x}
        /\ UNCHANGED <<files, objects, task, uploads, origin, shared, raced, stored>>
    BY <1>1, <1>0 DEF Create, Tuples, database, bucket, history
  <2>2. Sorts'
    BY <1>0, <1>r, <2>1 DEF Sorts, Known, Tuples, Rows, Owned
  <2>3. Home'
    BY <1>0, <1>r, <2>1 DEF Home, Working, Tuples, Rows, Owned
  <2>4. HeldApart'
    <3> SUFFICES ASSUME NEW s \in Tasks, NEW f \in task'[s].held PROVE Apart(s, f)'
      BY DEF HeldApart
    <3>1. f \in task[s].held /\ Apart(s, f)
      BY <1>0, <1>r, <2>1 DEF HeldApart
    <3>2. QED
      BY <1>0, <1>r, <2>1, <3>1 DEF Apart, Uploading, Rows, Owned
  <2>5. BaseOwn'
    BY <1>0, <1>r, <2>1 DEF BaseOwn, Own, OfUser, Tuples, Rows, Owned
  <2>6. PostBase'
    BY <1>0, <1>r, <2>1 DEF PostBase, Working, Sorts, Tuples, Rows, Owned
  <2>7. TrashFree'
    <3> SUFFICES ASSUME NEW s \in Tasks, NEW f \in task'[s].trash, f \notin shared'
                 PROVE  task'[s].pc = "delete" /\ Free(f)'
      BY DEF TrashFree
    <3>1. f \in task[s].trash /\ task[s].pc = "delete" /\ Free(f)
      BY <1>0, <1>r, <2>1 DEF TrashFree
    <3>2. QED
      BY <1>0, <1>r, <2>1, <3>1 DEF Free, Working, Rows, Owned, Home, Sorts, BaseOwn, Own
  <2>8. StoredAtPosts'
    BY <1>0, <1>r, <2>1 DEF StoredAtPosts, Tuples, Rows, Owned
  <2>9. PostKept'
    BY <1>0, <1>r, <2>1 DEF PostKept, Working, Sorts, Tuples, Rows, Owned
  <2>10. PostRaced'
    BY <1>0, <1>r, <2>1 DEF PostRaced, Working, Tuples, Rows, Owned
  <2>11. Present'
    BY <1>0, <1>r, <2>1 DEF Present, Home, Tuples, Rows, Owned
  <2>12. LostOnlyIfRaced'
    BY <1>0, <1>r, <2>1 DEF LostOnlyIfRaced, StoredAtPosts, Tuples, Rows, Owned
  <2>13. QED
    BY <2>2, <2>3, <2>4, <2>5, <2>6, <2>7, <2>8, <2>9, <2>10, <2>11, <2>12 DEF Inv
<1>2. ASSUME NEW u \in Users, NEW a \in Albums, AddMember(a, u)
      PROVE Inv'
  BY <1>2, QuietStep DEF AddMember, database, bucket, history
<1>3. ASSUME NEW u \in Users, NEW a \in Albums, RemoveMember(a, u)
      PROVE Inv'
  BY <1>3, QuietStep DEF RemoveMember, database, bucket, history
<1>4. ASSUME NEW u \in Users, NEW m \in Messages, NEW from \in Messages, Forward(u, from, m)
      PROVE Inv'
  <2>1. /\ m \in Messages \ made
        /\ alive' = alive \cup {m}
        /\ made' = made \cup {m}
        /\ files' = [files EXCEPT ![m] = files[from]]
        /\ shared' = shared \cup files[from]
        /\ UNCHANGED <<objects, uploads, origin, task, raced, stored>>
    BY <1>4, <1>0 DEF Forward, Tuples, database, bucket, history
  <2>2. Sorts'
    BY <1>0, <1>r, <2>1 DEF Sorts, Known, Tuples, Rows, Owned
  <2>3. Home'
    BY <1>0, <1>r, <2>1 DEF Home, Working, Tuples, Rows, Owned
  <2>4. HeldApart'
    <3> SUFFICES ASSUME NEW s \in Tasks, NEW f \in task'[s].held PROVE Apart(s, f)'
      BY DEF HeldApart
    <3>1. f \in task[s].held /\ Apart(s, f)
      BY <1>0, <1>r, <2>1 DEF HeldApart
    <3>2. QED
      BY <1>0, <1>r, <2>1, <3>1 DEF Apart, Uploading, Rows, Owned
  <2>5. BaseOwn'
    BY <1>0, <1>r, <2>1 DEF BaseOwn, Own, OfUser, Tuples, Rows, Owned
  <2>6. PostBase'
    BY <1>0, <1>r, <2>1 DEF PostBase, Working, Sorts, Tuples, Rows, Owned
  <2>7. TrashFree'
    <3> SUFFICES ASSUME NEW s \in Tasks, NEW f \in task'[s].trash, f \notin shared'
                 PROVE  task'[s].pc = "delete" /\ Free(f)'
      BY DEF TrashFree
    <3>1. f \in task[s].trash /\ task[s].pc = "delete" /\ Free(f)
      BY <1>0, <1>r, <2>1 DEF TrashFree
    <3>2. QED
      BY <1>0, <1>r, <2>1, <3>1 DEF Free, Working, Rows, Owned, Home, Sorts, BaseOwn, Own
  <2>8. StoredAtPosts'
    BY <1>0, <1>r, <2>1 DEF StoredAtPosts, Tuples, Rows, Owned
  <2>9. PostKept'
    BY <1>0, <1>r, <2>1 DEF PostKept, Working, Sorts, Tuples, Rows, Owned
  <2>10. PostRaced'
    BY <1>0, <1>r, <2>1 DEF PostRaced, Working, Tuples, Rows, Owned
  <2>11. Present'
    BY <1>0, <1>r, <2>1 DEF Present, Tuples, Rows, Owned
  <2>12. LostOnlyIfRaced'
    BY <1>0, <1>r, <2>1 DEF LostOnlyIfRaced, StoredAtPosts, Tuples, Rows, Owned
  <2>13. QED
    BY <2>2, <2>3, <2>4, <2>5, <2>6, <2>7, <2>8, <2>9, <2>10, <2>11, <2>12 DEF Inv
<1>5. ASSUME NEW t \in Tasks, NEW u \in Users, NEW x \in {u, Chat}, StartPicture(t, u, x)
      PROVE Inv'
  <2>1. /\ \A s \in Tasks \ {t} : task'[s] = task[s]
        /\ task[t].pc = "idle"
        /\ task'[t].pc = "work" /\ task'[t].kind = "picture"
        /\ task'[t].user = u /\ task'[t].at = x /\ task'[t].base = files[x]
        /\ task'[t].held = {} /\ task'[t].trash = {}
        /\ raced \subseteq raced'
        /\ UNCHANGED <<alive, files, made, objects, uploads, origin, shared, stored>>
    BY <1>5, <1>0 DEF StartPicture, Begin, Request, State, Race, Tuples, database, bucket, history
  <2>2. Sorts'
    BY <1>0, <1>r, <2>1 DEF Sorts, Known, Tuples, Rows, Owned
  <2>3. Home'
    BY <1>0, <1>r, <2>1 DEF Home, Working, Tuples, Rows, Owned
  <2>4. HeldApart'
    <3> SUFFICES ASSUME NEW s \in Tasks, NEW f \in task'[s].held PROVE Apart(s, f)'
      BY DEF HeldApart
    <3>1. f \in task[s].held /\ Apart(s, f)
      BY <1>0, <1>r, <2>1 DEF HeldApart
    <3>2. QED
      BY <1>0, <1>r, <2>1, <3>1 DEF Apart, Uploading, Rows, Owned
  <2>5. BaseOwn'
    BY <1>0, <1>r, <2>1 DEF BaseOwn, Own, OfUser, Home, Tuples, Rows, Owned
  <2>6. PostBase'
    BY <1>0, <1>r, <2>1 DEF PostBase, Working, Tuples, Rows, Owned
  <2>7. TrashFree'
    <3> SUFFICES ASSUME NEW s \in Tasks, NEW f \in task'[s].trash, f \notin shared'
                 PROVE  task'[s].pc = "delete" /\ Free(f)'
      BY DEF TrashFree
    <3>1. f \in task[s].trash /\ task[s].pc = "delete" /\ Free(f)
      BY <1>0, <1>r, <2>1 DEF TrashFree
    <3>2. QED
      BY <1>0, <1>r, <2>1, <3>1 DEF Free, Working, Rows, Owned
  <2>8. StoredAtPosts'
    BY <1>0, <1>r, <2>1 DEF StoredAtPosts, Tuples, Rows, Owned
  <2>9. PostKept'
    BY <1>0, <1>r, <2>1 DEF PostKept, Working, Tuples, Rows, Owned
  <2>10. PostRaced'
    BY <1>0, <1>r, <2>1 DEF PostRaced, Working, Tuples, Rows, Owned
  <2>11. Present'
    BY <1>0, <1>r, <2>1 DEF Present, Tuples, Rows, Owned
  <2>12. LostOnlyIfRaced'
    BY <1>0, <1>r, <2>1 DEF LostOnlyIfRaced, Tuples, Rows, Owned
  <2>13. QED
    BY <2>2, <2>3, <2>4, <2>5, <2>6, <2>7, <2>8, <2>9, <2>10, <2>11, <2>12 DEF Inv
<1>6. ASSUME NEW t \in Tasks, NEW u \in Users, NEW m \in Messages, StartMessage(t, u, m)
      PROVE Inv'
  <2>1. /\ \A s \in Tasks \ {t} : task'[s] = task[s]
        /\ task[t].pc = "idle"
        /\ task'[t].pc = "work" /\ task'[t].kind = "message"
        /\ task'[t].user = u /\ task'[t].at = m /\ task'[t].base = {}
        /\ task'[t].held = {} /\ task'[t].trash = {}
        /\ m \in Messages \ made /\ made' = made \cup {m}
        /\ UNCHANGED <<alive, files, objects, uploads, origin, shared, raced, stored>>
    BY <1>6, <1>0 DEF StartMessage, Begin, Request, State, Tuples, database, bucket, history
  <2>2. Sorts'
    BY <1>0, <1>r, <2>1 DEF Sorts, Known, Tuples, Rows, Owned
  <2>3. Home'
    BY <1>0, <1>r, <2>1 DEF Home, Working, Tuples, Rows, Owned
  <2>4. HeldApart'
    <3> SUFFICES ASSUME NEW s \in Tasks, NEW f \in task'[s].held PROVE Apart(s, f)'
      BY DEF HeldApart
    <3>1. f \in task[s].held /\ Apart(s, f)
      BY <1>0, <1>r, <2>1 DEF HeldApart
    <3>2. QED
      BY <1>0, <1>r, <2>1, <3>1 DEF Apart, Uploading, Rows, Owned
  <2>5. BaseOwn'
    BY <1>0, <1>r, <2>1 DEF BaseOwn, Own, OfUser, Tuples, Rows, Owned
  <2>6. PostBase'
    BY <1>0, <1>r, <2>1 DEF PostBase, Working, Tuples, Rows, Owned
  <2>7. TrashFree'
    <3> SUFFICES ASSUME NEW s \in Tasks, NEW f \in task'[s].trash, f \notin shared'
                 PROVE  task'[s].pc = "delete" /\ Free(f)'
      BY DEF TrashFree
    <3>1. f \in task[s].trash /\ task[s].pc = "delete" /\ Free(f)
      BY <1>0, <1>r, <2>1 DEF TrashFree
    <3>2. QED
      BY <1>0, <1>r, <2>1, <3>1 DEF Free, Working, Rows, Owned
  <2>8. StoredAtPosts'
    BY <1>0, <1>r, <2>1 DEF StoredAtPosts, Tuples, Rows, Owned
  <2>9. PostKept'
    BY <1>0, <1>r, <2>1 DEF PostKept, Working, Tuples, Rows, Owned
  <2>10. PostRaced'
    BY <1>0, <1>r, <2>1 DEF PostRaced, Working, Tuples, Rows, Owned
  <2>11. Present'
    BY <1>0, <1>r, <2>1 DEF Present, Tuples, Rows, Owned
  <2>12. LostOnlyIfRaced'
    BY <1>0, <1>r, <2>1 DEF LostOnlyIfRaced, Tuples, Rows, Owned
  <2>13. QED
    BY <2>2, <2>3, <2>4, <2>5, <2>6, <2>7, <2>8, <2>9, <2>10, <2>11, <2>12 DEF Inv
<1>7. ASSUME NEW t \in Tasks, NEW u \in Users, NEW p \in Posts, NEW n \in 1 .. MaxBatch,
             StartPost(t, u, p, n)
      PROVE Inv'
  <2>1. /\ \A s \in Tasks \ {t} : task'[s] = task[s]
        /\ task[t].pc = "idle"
        /\ task'[t].pc = "work" /\ task'[t].kind = "post"
        /\ task'[t].user = u /\ task'[t].at = p /\ task'[t].base = files[p]
        /\ task'[t].held = {} /\ task'[t].trash = {}
        /\ p \in alive
        /\ raced' = IF Overlapping("post", p) THEN raced \cup {p} ELSE raced
        /\ UNCHANGED <<alive, files, made, objects, uploads, origin, shared, stored>>
    BY <1>7, <1>0 DEF StartPost, Begin, Request, State, Race, Tuples, database, bucket, history
  <2>2. Sorts'
    BY <1>0, <1>r, <2>1 DEF Sorts, Known, Tuples, Rows, Owned
  <2>3. Home'
    BY <1>0, <1>r, <2>1 DEF Home, Working, Tuples, Rows, Owned
  <2>4. HeldApart'
    <3> SUFFICES ASSUME NEW s \in Tasks, NEW f \in task'[s].held PROVE Apart(s, f)'
      BY DEF HeldApart
    <3>1. f \in task[s].held /\ Apart(s, f)
      BY <1>0, <1>r, <2>1 DEF HeldApart
    <3>2. QED
      BY <1>0, <1>r, <2>1, <3>1 DEF Apart, Uploading, Rows, Owned
  <2>5. BaseOwn'
    BY <1>0, <1>r, <2>1 DEF BaseOwn, Own, OfUser, Home, Tuples, Rows, Owned
  <2>6. PostBase'
    BY <1>0, <1>r, <2>1 DEF PostBase, Working, Present, Tuples, Rows, Owned
  <2>7. TrashFree'
    <3> SUFFICES ASSUME NEW s \in Tasks, NEW f \in task'[s].trash, f \notin shared'
                 PROVE  task'[s].pc = "delete" /\ Free(f)'
      BY DEF TrashFree
    <3>1. f \in task[s].trash /\ task[s].pc = "delete" /\ Free(f)
      BY <1>0, <1>r, <2>1 DEF TrashFree
    <3>2. QED
      BY <1>0, <1>r, <2>1, <3>1 DEF Free, Working, Rows, Owned, Home
  <2>8. StoredAtPosts'
    BY <1>0, <1>r, <2>1 DEF StoredAtPosts, Tuples, Rows, Owned
  <2>9. PostKept'
    BY <1>0, <1>r, <2>1 DEF PostKept, Working, LostOnlyIfRaced, Tuples, Rows, Owned
  <2>10. PostRaced'
    <3> SUFFICES ASSUME NEW s \in Tasks, NEW r \in Tasks, s # r,
                        Working(s, "post")', Working(r, "post")', task'[s].at = task'[r].at
                 PROVE  task'[r].at \in raced'
      BY DEF PostRaced
    <3>1. CASE s # t /\ r # t
      BY <1>0, <1>r, <2>1, <3>1 DEF PostRaced, Working
    <3>2. CASE s = t \/ r = t
      <4>1. task'[s].at = p /\ task'[r].at = p
        BY <2>1, <3>2
      <4>2. Overlapping("post", p)
        BY <2>1, <3>2, <4>1 DEF Overlapping, Working
      <4>3. QED
        BY <2>1, <4>1, <4>2
    <3>3. QED
      BY <3>1, <3>2
  <2>11. Present'
    BY <1>0, <1>r, <2>1 DEF Present, Tuples, Rows, Owned
  <2>12. LostOnlyIfRaced'
    BY <1>0, <1>r, <2>1 DEF LostOnlyIfRaced, Tuples, Rows, Owned
  <2>13. QED
    BY <2>2, <2>3, <2>4, <2>5, <2>6, <2>7, <2>8, <2>9, <2>10, <2>11, <2>12 DEF Inv
<1>8. ASSUME NEW t \in Tasks, NEW u \in Users, NEW a \in Albums, NEW n \in 1 .. MaxBatch,
             StartAlbum(t, u, a, n)
      PROVE Inv'
  <2>1. /\ \A s \in Tasks \ {t} : task'[s] = task[s]
        /\ task[t].pc = "idle"
        /\ task'[t].pc = "work" /\ task'[t].kind = "album"
        /\ task'[t].user = u /\ task'[t].at = a /\ task'[t].base = {}
        /\ task'[t].held = {} /\ task'[t].trash = {}
        /\ a \in alive
        /\ UNCHANGED <<alive, files, made, objects, uploads, origin, shared, raced, stored>>
    BY <1>8, <1>0 DEF StartAlbum, Begin, Request, State, Tuples, database, bucket, history
  <2>2. Sorts'
    BY <1>0, <1>r, <2>1 DEF Sorts, Known, Tuples, Rows, Owned
  <2>3. Home'
    BY <1>0, <1>r, <2>1 DEF Home, Working, Tuples, Rows, Owned
  <2>4. HeldApart'
    <3> SUFFICES ASSUME NEW s \in Tasks, NEW f \in task'[s].held PROVE Apart(s, f)'
      BY DEF HeldApart
    <3>1. f \in task[s].held /\ Apart(s, f)
      BY <1>0, <1>r, <2>1 DEF HeldApart
    <3>2. QED
      BY <1>0, <1>r, <2>1, <3>1 DEF Apart, Uploading, Rows, Owned
  <2>5. BaseOwn'
    BY <1>0, <1>r, <2>1 DEF BaseOwn, Own, OfUser, Tuples, Rows, Owned
  <2>6. PostBase'
    BY <1>0, <1>r, <2>1 DEF PostBase, Working, Tuples, Rows, Owned
  <2>7. TrashFree'
    <3> SUFFICES ASSUME NEW s \in Tasks, NEW f \in task'[s].trash, f \notin shared'
                 PROVE  task'[s].pc = "delete" /\ Free(f)'
      BY DEF TrashFree
    <3>1. f \in task[s].trash /\ task[s].pc = "delete" /\ Free(f)
      BY <1>0, <1>r, <2>1 DEF TrashFree
    <3>2. QED
      BY <1>0, <1>r, <2>1, <3>1 DEF Free, Working, Rows, Owned
  <2>8. StoredAtPosts'
    BY <1>0, <1>r, <2>1 DEF StoredAtPosts, Tuples, Rows, Owned
  <2>9. PostKept'
    BY <1>0, <1>r, <2>1 DEF PostKept, Working, Tuples, Rows, Owned
  <2>10. PostRaced'
    BY <1>0, <1>r, <2>1 DEF PostRaced, Working, Tuples, Rows, Owned
  <2>11. Present'
    BY <1>0, <1>r, <2>1 DEF Present, Tuples, Rows, Owned
  <2>12. LostOnlyIfRaced'
    BY <1>0, <1>r, <2>1 DEF LostOnlyIfRaced, Tuples, Rows, Owned
  <2>13. QED
    BY <2>2, <2>3, <2>4, <2>5, <2>6, <2>7, <2>8, <2>9, <2>10, <2>11, <2>12 DEF Inv
<1>9. ASSUME NEW t \in Tasks, NEW u \in Users, NEW a \in Albums, NEW g \in Files,
             StartDrop(t, u, a, g)
      PROVE Inv'
  <2>1. /\ \A s \in Tasks \ {t} : task'[s] = task[s]
        /\ task[t].pc = "idle"
        /\ task'[t].pc = "work" /\ task'[t].kind = "drop"
        /\ task'[t].user = u /\ task'[t].at = a /\ task'[t].base = {g}
        /\ task'[t].held = {} /\ task'[t].trash = {}
        /\ a \in alive /\ g \in files[a]
        /\ UNCHANGED <<alive, files, made, objects, uploads, origin, shared, raced, stored>>
    BY <1>9, <1>0 DEF StartDrop, Begin, Request, State, Tuples, database, bucket, history
  <2>2. Sorts'
    BY <1>0, <1>r, <2>1 DEF Sorts, Known, Tuples, Rows, Owned
  <2>3. Home'
    BY <1>0, <1>r, <2>1 DEF Home, Working, Tuples, Rows, Owned
  <2>4. HeldApart'
    <3> SUFFICES ASSUME NEW s \in Tasks, NEW f \in task'[s].held PROVE Apart(s, f)'
      BY DEF HeldApart
    <3>1. f \in task[s].held /\ Apart(s, f)
      BY <1>0, <1>r, <2>1 DEF HeldApart
    <3>2. QED
      BY <1>0, <1>r, <2>1, <3>1 DEF Apart, Uploading, Rows, Owned
  <2>5. BaseOwn'
    BY <1>0, <1>r, <2>1 DEF BaseOwn, Own, OfUser, Home, Tuples, Rows, Owned
  <2>6. PostBase'
    BY <1>0, <1>r, <2>1 DEF PostBase, Working, Tuples, Rows, Owned
  <2>7. TrashFree'
    <3> SUFFICES ASSUME NEW s \in Tasks, NEW f \in task'[s].trash, f \notin shared'
                 PROVE  task'[s].pc = "delete" /\ Free(f)'
      BY DEF TrashFree
    <3>1. f \in task[s].trash /\ task[s].pc = "delete" /\ Free(f)
      BY <1>0, <1>r, <2>1 DEF TrashFree
    <3>2. QED
      BY <1>0, <1>r, <2>1, <3>1 DEF Free, Working, Rows, Owned
  <2>8. StoredAtPosts'
    BY <1>0, <1>r, <2>1 DEF StoredAtPosts, Tuples, Rows, Owned
  <2>9. PostKept'
    BY <1>0, <1>r, <2>1 DEF PostKept, Working, Tuples, Rows, Owned
  <2>10. PostRaced'
    BY <1>0, <1>r, <2>1 DEF PostRaced, Working, Tuples, Rows, Owned
  <2>11. Present'
    BY <1>0, <1>r, <2>1 DEF Present, Tuples, Rows, Owned
  <2>12. LostOnlyIfRaced'
    BY <1>0, <1>r, <2>1 DEF LostOnlyIfRaced, Tuples, Rows, Owned
  <2>13. QED
    BY <2>2, <2>3, <2>4, <2>5, <2>6, <2>7, <2>8, <2>9, <2>10, <2>11, <2>12 DEF Inv
<1>10. ASSUME NEW t \in Tasks, NEW u \in Users, StartAccount(t, u)
      PROVE Inv'
  <2>1. /\ \A s \in Tasks \ {t} : task'[s] = task[s]
        /\ task[t].pc = "idle"
        /\ task'[t].pc = "work" /\ task'[t].kind = "account"
        /\ task'[t].user = u /\ task'[t].at = u /\ task'[t].base = files[u]
        /\ task'[t].held = {} /\ task'[t].trash = {}
        /\ UNCHANGED <<alive, files, made, objects, uploads, origin, shared, raced, stored>>
    BY <1>10, <1>0 DEF StartAccount, Begin, Request, State, Tuples, database, bucket, history
  <2>2. Sorts'
    BY <1>0, <1>r, <2>1 DEF Sorts, Known, Tuples, Rows, Owned
  <2>3. Home'
    BY <1>0, <1>r, <2>1 DEF Home, Working, Tuples, Rows, Owned
  <2>4. HeldApart'
    <3> SUFFICES ASSUME NEW s \in Tasks, NEW f \in task'[s].held PROVE Apart(s, f)'
      BY DEF HeldApart
    <3>1. f \in task[s].held /\ Apart(s, f)
      BY <1>0, <1>r, <2>1 DEF HeldApart
    <3>2. QED
      BY <1>0, <1>r, <2>1, <3>1 DEF Apart, Uploading, Rows, Owned
  <2>5. BaseOwn'
    BY <1>0, <1>r, <2>1 DEF BaseOwn, Own, OfUser, Home, Tuples, Rows, Owned
  <2>6. PostBase'
    BY <1>0, <1>r, <2>1 DEF PostBase, Working, Tuples, Rows, Owned
  <2>7. TrashFree'
    <3> SUFFICES ASSUME NEW s \in Tasks, NEW f \in task'[s].trash, f \notin shared'
                 PROVE  task'[s].pc = "delete" /\ Free(f)'
      BY DEF TrashFree
    <3>1. f \in task[s].trash /\ task[s].pc = "delete" /\ Free(f)
      BY <1>0, <1>r, <2>1 DEF TrashFree
    <3>2. QED
      BY <1>0, <1>r, <2>1, <3>1 DEF Free, Working, Rows, Owned
  <2>8. StoredAtPosts'
    BY <1>0, <1>r, <2>1 DEF StoredAtPosts, Tuples, Rows, Owned
  <2>9. PostKept'
    BY <1>0, <1>r, <2>1 DEF PostKept, Working, Tuples, Rows, Owned
  <2>10. PostRaced'
    BY <1>0, <1>r, <2>1 DEF PostRaced, Working, Tuples, Rows, Owned
  <2>11. Present'
    BY <1>0, <1>r, <2>1 DEF Present, Tuples, Rows, Owned
  <2>12. LostOnlyIfRaced'
    BY <1>0, <1>r, <2>1 DEF LostOnlyIfRaced, Tuples, Rows, Owned
  <2>13. QED
    BY <2>2, <2>3, <2>4, <2>5, <2>6, <2>7, <2>8, <2>9, <2>10, <2>11, <2>12 DEF Inv
<1>11. ASSUME NEW t \in Tasks, NEW m \in Messages, DeleteMessage(t, m)
      PROVE Inv'
  <2>1. /\ \A s \in Tasks \ {t} : task'[s] = task[s]
        /\ task[t].pc = "idle" /\ task'[t].pc = "delete"
        /\ task'[t].held = {} /\ task'[t].base = {} /\ task'[t].trash \subseteq files[m]
        /\ m \in alive /\ alive' = alive \ {m}
        /\ UNCHANGED <<files, made, objects, uploads, origin, shared, raced, stored>>
    BY <1>11, <1>0 DEF DeleteMessage, Begin, Deleting, State, Tuples, database, bucket, history
  <2>2. Sorts'
    BY <1>0, <1>r, <2>1 DEF Sorts, Known, Tuples, Rows, Owned
  <2>3. Home'
    BY <1>0, <1>r, <2>1 DEF Home, Working, Tuples, Rows, Owned
  <2>4. HeldApart'
    <3> SUFFICES ASSUME NEW s \in Tasks, NEW f \in task'[s].held PROVE Apart(s, f)'
      BY DEF HeldApart
    <3>1. f \in task[s].held /\ Apart(s, f)
      BY <1>0, <1>r, <2>1 DEF HeldApart
    <3>2. QED
      BY <1>0, <1>r, <2>1, <3>1 DEF Apart, Uploading, Rows, Owned
  <2>5. BaseOwn'
    BY <1>0, <1>r, <2>1 DEF BaseOwn, Own, OfUser, Tuples, Rows, Owned
  <2>6. PostBase'
    BY <1>0, <1>r, <2>1 DEF PostBase, Working, Tuples, Rows, Owned
  <2>7. TrashFree'
    <3> SUFFICES ASSUME NEW s \in Tasks, NEW f \in task'[s].trash, f \notin shared'
                 PROVE  task'[s].pc = "delete" /\ Free(f)'
      BY DEF TrashFree
    <3>1. CASE s # t
      <4>1. f \in task[s].trash /\ task[s].pc = "delete" /\ Free(f) /\ task'[s].pc = "delete"
        BY <1>0, <1>r, <2>1, <3>1 DEF TrashFree
      <4>2. QED
        BY <1>0, <1>r, <2>1, <3>1, <4>1 DEF Free, Working, Rows, Owned, Home, Sorts, BaseOwn, Own
    <3>2. CASE s = t
      BY <1>0, <1>r, <2>1, <3>2 DEF Free, Working, Rows, Owned, Home, Sorts, BaseOwn, Own
    <3>3. QED
      BY <3>1, <3>2
  <2>8. StoredAtPosts'
    BY <1>0, <1>r, <2>1 DEF StoredAtPosts, Tuples, Rows, Owned
  <2>9. PostKept'
    BY <1>0, <1>r, <2>1 DEF PostKept, Working, Tuples, Rows, Owned
  <2>10. PostRaced'
    BY <1>0, <1>r, <2>1 DEF PostRaced, Working, Tuples, Rows, Owned
  <2>11. Present'
    BY <1>0, <1>r, <2>1 DEF Present, Tuples, Rows, Owned
  <2>12. LostOnlyIfRaced'
    BY <1>0, <1>r, <2>1 DEF LostOnlyIfRaced, Tuples, Rows, Owned
  <2>13. QED
    BY <2>2, <2>3, <2>4, <2>5, <2>6, <2>7, <2>8, <2>9, <2>10, <2>11, <2>12 DEF Inv
<1>12. ASSUME NEW t \in Tasks, NEW p \in Posts, DeletePost(t, p)
      PROVE Inv'
  <2>1. /\ \A s \in Tasks \ {t} : task'[s] = task[s]
        /\ task[t].pc = "idle" /\ task'[t].pc = "delete"
        /\ task'[t].held = {} /\ task'[t].base = {} /\ task'[t].trash = files[p]
        /\ p \in alive /\ alive' = alive \ {p}
        /\ UNCHANGED <<files, made, objects, uploads, origin, shared, raced, stored>>
    BY <1>12, <1>0 DEF DeletePost, Begin, Deleting, State, Tuples, database, bucket, history
  <2>2. Sorts'
    BY <1>0, <1>r, <2>1 DEF Sorts, Known, Tuples, Rows, Owned
  <2>3. Home'
    BY <1>0, <1>r, <2>1 DEF Home, Working, Tuples, Rows, Owned
  <2>4. HeldApart'
    <3> SUFFICES ASSUME NEW s \in Tasks, NEW f \in task'[s].held PROVE Apart(s, f)'
      BY DEF HeldApart
    <3>1. f \in task[s].held /\ Apart(s, f)
      BY <1>0, <1>r, <2>1 DEF HeldApart
    <3>2. QED
      BY <1>0, <1>r, <2>1, <3>1 DEF Apart, Uploading, Rows, Owned
  <2>5. BaseOwn'
    BY <1>0, <1>r, <2>1 DEF BaseOwn, Own, OfUser, Tuples, Rows, Owned
  <2>6. PostBase'
    BY <1>0, <1>r, <2>1 DEF PostBase, Working, Tuples, Rows, Owned
  <2>7. TrashFree'
    <3> SUFFICES ASSUME NEW s \in Tasks, NEW f \in task'[s].trash, f \notin shared'
                 PROVE  task'[s].pc = "delete" /\ Free(f)'
      BY DEF TrashFree
    <3>1. CASE s # t
      <4>1. f \in task[s].trash /\ task[s].pc = "delete" /\ Free(f) /\ task'[s].pc = "delete"
        BY <1>0, <1>r, <2>1, <3>1 DEF TrashFree
      <4>2. QED
        BY <1>0, <1>r, <2>1, <3>1, <4>1 DEF Free, Working, Rows, Owned, Home
    <3>2. CASE s = t
      BY <1>0, <1>r, <2>1, <3>2 DEF Free, Working, Rows, Owned, Home
    <3>3. QED
      BY <3>1, <3>2
  <2>8. StoredAtPosts'
    BY <1>0, <1>r, <2>1 DEF StoredAtPosts, Tuples, Rows, Owned
  <2>9. PostKept'
    BY <1>0, <1>r, <2>1 DEF PostKept, Working, Tuples, Rows, Owned
  <2>10. PostRaced'
    BY <1>0, <1>r, <2>1 DEF PostRaced, Working, Tuples, Rows, Owned
  <2>11. Present'
    BY <1>0, <1>r, <2>1 DEF Present, Tuples, Rows, Owned
  <2>12. LostOnlyIfRaced'
    BY <1>0, <1>r, <2>1 DEF LostOnlyIfRaced, Tuples, Rows, Owned
  <2>13. QED
    BY <2>2, <2>3, <2>4, <2>5, <2>6, <2>7, <2>8, <2>9, <2>10, <2>11, <2>12 DEF Inv
<1>13. ASSUME NEW t \in Tasks, Upload(t)
      PROVE Inv'
  <2>1. /\ uploads + 1 \in Files /\ uploads + 1 \notin 1 .. uploads
        /\ Uploading(t)
        /\ \A s \in Tasks \ {t} : task'[s] = task[s]
        /\ task'[t].pc = "work"
        /\ task'[t].kind = task[t].kind /\ task'[t].user = task[t].user /\ task'[t].at = task[t].at
        /\ task'[t].base = task[t].base /\ task'[t].trash = task[t].trash
        /\ task'[t].held = task[t].held \cup {uploads + 1}
        /\ objects' = objects \cup {uploads + 1}
        /\ origin' = [origin EXCEPT ![uploads + 1] = [by |-> task[t].user, at |-> task[t].at]]
        /\ UNCHANGED <<alive, files, made, shared, raced, stored>>
    BY <1>13, <1>0 DEF Upload, Files, Tuples, database, bucket, history
  <2>2. Sorts'
    BY <1>0, <1>r, <2>1 DEF Sorts, Known, Uploading, Tuples, Rows, Owned
  <2>3. Home'
    BY <1>0, <1>r, <2>1 DEF Home, Working, Tuples, Rows, Owned
  <2>4. HeldApart'
    <3> SUFFICES ASSUME NEW s \in Tasks, NEW f \in task'[s].held PROVE Apart(s, f)'
      BY DEF HeldApart
    <3>1. CASE f = uploads + 1
      <4>1. \A r \in Tasks : f \notin task[r].base /\ f \notin task[r].trash /\ f \notin task[r].held
        BY <1>0, <2>1, <3>1 DEF Tuples
      <4>2. s = t
        BY <2>1, <4>1
      <4>3. f \in objects' /\ f \notin shared' \cup stored' /\ \A x \in Rows : f \notin files'[x]
        BY <1>0, <2>1, <3>1
      <4>4. origin'[f].at = task'[s].at
        BY <1>0, <2>1, <3>1, <4>2
      <4>5. QED
        BY <2>1, <4>1, <4>2, <4>3, <4>4 DEF Apart, Uploading
    <3>2. CASE f # uploads + 1
      <4>1. f \in task[s].held /\ Apart(s, f) /\ f \in Files
        BY <1>0, <1>r, <2>1, <3>2 DEF HeldApart, Tuples
      <4>2. QED
        BY <1>0, <2>1, <3>2, <4>1 DEF Apart, Uploading, Tuples
    <3>3. QED
      BY <3>1, <3>2
  <2>5. BaseOwn'
    BY <1>0, <1>r, <2>1 DEF BaseOwn, Own, OfUser, Uploading, Tuples, Rows, Owned
  <2>6. PostBase'
    BY <1>0, <1>r, <2>1 DEF PostBase, Working, Uploading, Tuples, Rows, Owned
  <2>7. TrashFree'
    <3> SUFFICES ASSUME NEW s \in Tasks, NEW f \in task'[s].trash, f \notin shared'
                 PROVE  task'[s].pc = "delete" /\ Free(f)'
      BY DEF TrashFree
    <3>1. f \in task[s].trash /\ task[s].pc = "delete" /\ Free(f)
      BY <1>0, <1>r, <2>1 DEF TrashFree
    <3>2. s # t /\ f \in 1 .. uploads /\ origin'[f] = origin[f]
      BY <1>0, <2>1, <3>1 DEF Uploading, Tuples
    <3>3. QED
      BY <2>1, <3>1, <3>2 DEF Free, Working, Uploading
  <2>8. StoredAtPosts'
    BY <1>0, <1>r, <2>1 DEF StoredAtPosts, Tuples, Rows, Owned
  <2>9. PostKept'
    BY <1>0, <1>r, <2>1 DEF PostKept, Working, Uploading, Tuples, Rows, Owned
  <2>10. PostRaced'
    BY <1>0, <1>r, <2>1 DEF PostRaced, Working, Uploading, Tuples, Rows, Owned
  <2>11. Present'
    BY <1>0, <1>r, <2>1 DEF Present, Tuples, Rows, Owned
  <2>12. LostOnlyIfRaced'
    BY <1>0, <1>r, <2>1 DEF LostOnlyIfRaced, Tuples, Rows, Owned
  <2>13. QED
    BY <2>2, <2>3, <2>4, <2>5, <2>6, <2>7, <2>8, <2>9, <2>10, <2>11, <2>12 DEF Inv
<1>14. ASSUME NEW t \in Tasks, UploadFails(t)
      PROVE Inv'
  <2>1. UNCHANGED <<alive, files, made, objects, origin, shared, raced, stored>>
    BY <1>14 DEF UploadFails, database, bucket, history
  <2>2. /\ \A s \in Tasks \ {t} : task'[s] = task[s]
        /\ task'[t].pc = task[t].pc
        /\ task'[t].kind = task[t].kind /\ task'[t].user = task[t].user /\ task'[t].at = task[t].at
        /\ task'[t].base = task[t].base /\ task'[t].trash = task[t].trash
        /\ task'[t].held = task[t].held
    BY <1>14, <1>0 DEF UploadFails, Tuples, database, bucket, history
  <2>3. QED
    BY <2>1, <2>2, QuietStep
<1>15. ASSUME NEW t \in Tasks, Withdraw(t)
      PROVE Inv'
  <2>1. /\ task[t].pc = "work"
        /\ \A s \in Tasks \ {t} : task'[s] = task[s]
        /\ task'[t].pc = "delete"
        /\ task'[t].base = task[t].base
        /\ task'[t].held = {} /\ task'[t].trash = task[t].held
        /\ UNCHANGED <<alive, files, made, objects, uploads, origin, shared, raced, stored>>
    BY <1>15, <1>0 DEF Withdraw, Tuples, database, bucket, history
  <2>2. Sorts'
    BY <1>0, <1>r, <2>1 DEF Sorts, Known, Tuples, Rows, Owned
  <2>3. Home'
    BY <1>0, <1>r, <2>1 DEF Home, Working, Tuples, Rows, Owned
  <2>4. HeldApart'
    <3> SUFFICES ASSUME NEW s \in Tasks, NEW f \in task'[s].held PROVE Apart(s, f)'
      BY DEF HeldApart
    <3>1. f \in task[s].held /\ Apart(s, f)
      BY <1>0, <1>r, <2>1 DEF HeldApart
    <3>2. QED
      BY <1>0, <1>r, <2>1, <3>1 DEF Apart, Uploading, Rows, Owned
  <2>5. BaseOwn'
    BY <1>0, <1>r, <2>1 DEF BaseOwn, Own, OfUser, Tuples, Rows, Owned
  <2>6. PostBase'
    BY <1>0, <1>r, <2>1 DEF PostBase, Working, Tuples, Rows, Owned
  <2>7. TrashFree'
    <3> SUFFICES ASSUME NEW s \in Tasks, NEW f \in task'[s].trash, f \notin shared'
                 PROVE  task'[s].pc = "delete" /\ Free(f)'
      BY DEF TrashFree
    <3>1. CASE s # t
      <4>1. f \in task[s].trash /\ task[s].pc = "delete" /\ Free(f) /\ task'[s].pc = "delete"
        BY <1>0, <1>r, <2>1, <3>1 DEF TrashFree
      <4>2. QED
        BY <1>0, <1>r, <2>1, <3>1, <4>1 DEF Free, Working, Rows, Owned, HeldApart, Apart
    <3>2. CASE s = t
      BY <1>0, <1>r, <2>1, <3>2 DEF Free, Working, Rows, Owned, HeldApart, Apart
    <3>3. QED
      BY <3>1, <3>2
  <2>8. StoredAtPosts'
    BY <1>0, <1>r, <2>1 DEF StoredAtPosts, Tuples, Rows, Owned
  <2>9. PostKept'
    BY <1>0, <1>r, <2>1 DEF PostKept, Working, Tuples, Rows, Owned
  <2>10. PostRaced'
    BY <1>0, <1>r, <2>1 DEF PostRaced, Working, Tuples, Rows, Owned
  <2>11. Present'
    BY <1>0, <1>r, <2>1 DEF Present, Tuples, Rows, Owned
  <2>12. LostOnlyIfRaced'
    BY <1>0, <1>r, <2>1 DEF LostOnlyIfRaced, Tuples, Rows, Owned
  <2>13. QED
    BY <2>2, <2>3, <2>4, <2>5, <2>6, <2>7, <2>8, <2>9, <2>10, <2>11, <2>12 DEF Inv
<1>16. ASSUME NEW t \in Tasks, Save(t)
      PROVE Inv'
  <2>1. /\ Uploading(t)
        /\ \A s \in Tasks \ {t} : task'[s] = task[s]
        /\ task'[t].pc = "delete"
        /\ task'[t].base = task[t].base
        /\ task'[t].held = {}
        /\ task'[t].trash = IF task[t].kind = "picture" THEN task[t].base ELSE {}
        /\ files' = [files EXCEPT ![task[t].at] = SavedFiles(t)]
        /\ alive' = IF task[t].kind = "message" THEN alive \cup {task[t].at} ELSE alive
        /\ stored' = IF task[t].kind = "post" THEN stored \cup task[t].held ELSE stored
        /\ task[t].kind = "post" => task[t].at \in alive
        /\ UNCHANGED <<made, objects, uploads, origin, shared, raced>>
    BY <1>16, <1>0 DEF Save, Gone, Tuples, database, bucket, history
  <2>2. Sorts'
    BY <1>0, <1>r, <2>1 DEF Sorts, Known, Tuples, Rows, Owned
  <2>3. Home'
    BY <1>0, <1>r, <2>1
       DEF Home, Working, SavedFiles, HeldApart, Apart, BaseOwn, Own, Sorts, Uploading, Tuples,
           Rows, Owned
  <2>4. HeldApart'
    <3> SUFFICES ASSUME NEW s \in Tasks, NEW f \in task'[s].held PROVE Apart(s, f)'
      BY DEF HeldApart
    <3>1. s # t /\ f \in task[s].held /\ Apart(s, f) /\ f \notin task[t].held
      BY <1>0, <1>r, <2>1 DEF HeldApart, Apart
    <3>2. f \notin SavedFiles(t)
      BY <1>0, <3>1, SavedKnown DEF Apart
    <3>3. \A x \in Rows : f \notin files'[x]
      BY <1>0, <2>1, <3>1, <3>2 DEF Apart
    <3>4. QED
      BY <2>1, <3>1, <3>3 DEF Apart, Uploading
  <2>5. BaseOwn'
    BY <1>0, <1>r, <2>1 DEF BaseOwn, Own, OfUser, Tuples, Rows, Owned
  <2>6. PostBase'
    BY <1>0, <1>r, <2>1 DEF PostBase, Working, Sorts, Uploading, Tuples, Rows, Owned
  <2>7. TrashFree'
    <3> SUFFICES ASSUME NEW s \in Tasks, NEW f \in task'[s].trash, f \notin shared'
                 PROVE  task'[s].pc = "delete" /\ Free(f)'
      BY DEF TrashFree
    <3> DEFINE x == task[t].at
    <3>1. CASE s # t
      <4>1. f \in task[s].trash /\ task[s].pc = "delete" /\ Free(f) /\ task'[s].pc = "delete"
        BY <1>0, <1>r, <2>1, <3>1 DEF TrashFree
      <4>2. f \notin task[t].held
        BY <1>0, <1>r, <4>1 DEF HeldApart, Apart
      <4>3. QED
        BY <1>0, <1>r, <2>1, <3>1, <4>1, <4>2, SavedKnown
           DEF Free, Working, Uploading, Sorts, BaseOwn, Own, Rows, Owned
    <3>2. CASE s = t
      <4>1. task[t].kind = "picture" /\ f \in task[t].base /\ task'[t].pc = "delete"
        BY <2>1, <3>2
      <4>2. origin[f].at = x /\ x \in Users \cup {Chat} /\ f \notin task[t].held
        BY <1>0, <1>r, <2>1, <4>1
           DEF BaseOwn, Own, Sorts, HeldApart, Apart, Uploading, Tuples
      <4>3. f \notin files'[x]
        BY <1>0, <2>1, <4>1, <4>2, SavedKnown
      <4>4. \A r \in Tasks \ {t} : Working(r, "post") => f \notin task[r].base
        BY <1>0, <1>r, <2>1, <4>2 DEF BaseOwn, Own, Sorts, Working, Owned
      <4>5. QED
        BY <2>1, <3>2, <4>1, <4>2, <4>3, <4>4 DEF Free, Working
    <3>3. QED
      BY <3>1, <3>2
  <2>8. StoredAtPosts'
    BY <1>0, <1>r, <2>1 DEF StoredAtPosts, HeldApart, Apart, Sorts, Uploading, Tuples, Rows, Owned
  <2>9. PostKept'
    BY <1>0, <1>r, <2>1
       DEF PostKept, Working, HeldApart, Apart, PostRaced, Sorts, Uploading, Tuples, Rows, Owned
  <2>10. PostRaced'
    BY <1>0, <1>r, <2>1 DEF PostRaced, Working, Tuples, Rows, Owned
  <2>11. Present'
    <3> SUFFICES ASSUME NEW x \in alive', NEW f \in files'[x] PROVE f \in objects \/ f \in shared
      BY <2>1 DEF Present
    <3>1. CASE x = task[t].at
      <4>1. f \in SavedFiles(t)
        BY <1>0, <2>1, <3>1
      <4>2. CASE f \in task[t].held
        BY <1>r, <4>2 DEF HeldApart, Apart
      <4>3. CASE task[t].kind = "post" /\ f \in task[t].base
        BY <1>r, <2>1, <4>3 DEF PostBase, Working, Uploading
      <4>4. CASE task[t].kind = "album" /\ f \in files[task[t].at]
        BY <1>r, <2>1, <3>1, <4>4 DEF Present
      <4>5. QED
        BY <4>1, <4>2, <4>3, <4>4, SavedKnown
    <3>2. CASE x # task[t].at
      BY <1>0, <1>r, <2>1, <3>2 DEF Present
    <3>3. QED
      BY <3>1, <3>2
  <2>12. LostOnlyIfRaced'
    <3> SUFFICES ASSUME NEW f \in stored', origin[f].at \in alive', origin[f].at \notin raced
                 PROVE  f \in files'[origin[f].at]
      BY <2>1 DEF LostOnlyIfRaced
    <3> DEFINE p == origin[f].at
    <3>1. p \in Posts \cap made /\ p \in Rows /\ p \in alive
      BY <1>0, <1>r, <2>1, <2>8 DEF StoredAtPosts, Rows, Owned, Sorts, Uploading
    <3>2. CASE p # task[t].at
      BY <1>0, <1>r, <2>1, <3>1, <3>2 DEF LostOnlyIfRaced, HeldApart, Apart
    <3>3. CASE p = task[t].at
      <4>1. task[t].kind = "post" /\ SavedFiles(t) = task[t].base \cup task[t].held
        BY <1>0, <1>r, <2>1, <3>1, <3>3 DEF Sorts, Uploading, SavedFiles, Owned, Tuples
      <4>2. f \in task[t].base \cup task[t].held
        BY <1>0, <1>r, <2>1, <3>1, <3>3, <4>1 DEF PostKept, Working, Uploading
      <4>3. QED
        BY <1>0, <2>1, <3>1, <3>3, <4>1, <4>2
    <3>4. QED
      BY <3>2, <3>3
  <2>13. QED
    BY <2>2, <2>3, <2>4, <2>5, <2>6, <2>7, <2>8, <2>9, <2>10, <2>11, <2>12 DEF Inv
<1>17. ASSUME NEW t \in Tasks, SaveFails(t)
      PROVE Inv'
  <2>1. UNCHANGED <<alive, files, made, objects, origin, shared, raced, stored>>
    BY <1>17 DEF SaveFails, database, bucket, history
  <2>2. /\ \A s \in Tasks \ {t} : task'[s] = task[s]
        /\ task'[t].pc = "idle" /\ task'[t].held = {} /\ task'[t].base = {} /\ task'[t].trash = {}
    BY <1>17, <1>0, IdleFacts DEF SaveFails, Tuples, database, bucket, history
  <2>3. QED
    BY <2>1, <2>2, QuietStep
<1>18. ASSUME NEW t \in Tasks, Drop(t)
      PROVE Inv'
  <2>1. /\ task[t].pc = "work" /\ task[t].kind = "drop"
        /\ \A s \in Tasks \ {t} : task'[s] = task[s]
        /\ task'[t].pc = "delete"
        /\ task'[t].base = task[t].base
        /\ task'[t].held = task[t].held /\ task'[t].trash = task[t].base
        /\ files' = [files EXCEPT ![task[t].at] = @ \ task[t].base]
        /\ UNCHANGED <<alive, made, objects, uploads, origin, shared, raced, stored>>
    BY <1>18, <1>0 DEF Drop, Working, Tuples, database, bucket, history
  <2>2. Sorts'
    BY <1>0, <1>r, <2>1 DEF Sorts, Known, Tuples, Rows, Owned
  <2>3. Home'
    BY <1>0, <1>r, <2>1 DEF Home, Working, Tuples, Rows, Owned
  <2>4. HeldApart'
    <3> SUFFICES ASSUME NEW s \in Tasks, NEW f \in task'[s].held PROVE Apart(s, f)'
      BY DEF HeldApart
    <3>1. f \in task[s].held /\ Apart(s, f)
      BY <1>0, <1>r, <2>1 DEF HeldApart
    <3>2. QED
      BY <1>0, <1>r, <2>1, <3>1 DEF Apart, Uploading, Rows, Owned
  <2>5. BaseOwn'
    BY <1>0, <1>r, <2>1 DEF BaseOwn, Own, OfUser, Tuples, Rows, Owned
  <2>6. PostBase'
    BY <1>0, <1>r, <2>1 DEF PostBase, Working, Tuples, Rows, Owned
  <2>7. TrashFree'
    <3> SUFFICES ASSUME NEW s \in Tasks, NEW f \in task'[s].trash, f \notin shared'
                 PROVE  task'[s].pc = "delete" /\ Free(f)'
      BY DEF TrashFree
    <3>1. CASE s # t
      <4>1. f \in task[s].trash /\ task[s].pc = "delete" /\ Free(f) /\ task'[s].pc = "delete"
        BY <1>0, <1>r, <2>1, <3>1 DEF TrashFree
      <4>2. QED
        BY <1>0, <1>r, <2>1, <3>1, <4>1 DEF Free, Working, Rows, Owned, BaseOwn, Own, Sorts
    <3>2. CASE s = t
      BY <1>0, <1>r, <2>1, <3>2 DEF Free, Working, Rows, Owned, BaseOwn, Own, Sorts
    <3>3. QED
      BY <3>1, <3>2
  <2>8. StoredAtPosts'
    BY <1>0, <1>r, <2>1 DEF StoredAtPosts, Tuples, Rows, Owned
  <2>9. PostKept'
    BY <1>0, <1>r, <2>1 DEF PostKept, Working, Tuples, Rows, Owned
  <2>10. PostRaced'
    BY <1>0, <1>r, <2>1 DEF PostRaced, Working, Tuples, Rows, Owned
  <2>11. Present'
    BY <1>0, <1>r, <2>1 DEF Present, Tuples, Rows, Owned
  <2>12. LostOnlyIfRaced'
    BY <1>0, <1>r, <2>1 DEF LostOnlyIfRaced, Sorts, StoredAtPosts, Tuples, Rows, Owned
  <2>13. QED
    BY <2>2, <2>3, <2>4, <2>5, <2>6, <2>7, <2>8, <2>9, <2>10, <2>11, <2>12 DEF Inv
<1>19. ASSUME NEW t \in Tasks, ListOrphaned(t)
      PROVE Inv'
  <2>1. /\ task[t].pc = "work" /\ task[t].kind = "account"
        /\ \A s \in Tasks \ {t} : task'[s] = task[s]
        /\ task'[t].pc = "work"
        /\ task'[t].kind = task[t].kind /\ task'[t].user = task[t].user /\ task'[t].at = task[t].at
        /\ task'[t].base = task[t].base \cup Orphaned(task[t].at)
        /\ task'[t].held = task[t].held /\ task'[t].trash = task[t].trash
        /\ UNCHANGED <<alive, files, made, objects, uploads, origin, shared, raced, stored>>
    BY <1>19, <1>0 DEF ListOrphaned, Working, Tuples, database, bucket, history
  <2>2. Sorts'
    BY <1>0, <1>r, <2>1 DEF Sorts, Known, Tuples, Rows, Owned
  <2>3. Home'
    BY <1>0, <1>r, <2>1 DEF Home, Working, Tuples, Rows, Owned
  <2>4. HeldApart'
    <3> SUFFICES ASSUME NEW s \in Tasks, NEW f \in task'[s].held PROVE Apart(s, f)'
      BY DEF HeldApart
    <3>1. f \in task[s].held /\ Apart(s, f) /\ s # t
      BY <1>0, <1>r, <2>1 DEF HeldApart, Apart, Uploading
    <3>2. f \notin Orphaned(task[t].at)
      BY <1>0, <1>r, <2>1, <3>1, OrphanedNamed DEF Apart, Sorts, Tuples
    <3>3. QED
      BY <1>0, <2>1, <3>1, <3>2 DEF Apart, Uploading
  <2>5. BaseOwn'
    <3> SUFFICES ASSUME NEW s \in Tasks, task'[s].pc = "work",
                        NEW f \in task'[s].base, f \notin shared
                 PROVE  Own(s, f)'
      BY <2>1 DEF BaseOwn
    <3>1. CASE f \in task[s].base
      BY <1>0, <1>r, <2>1, <3>1 DEF BaseOwn, Own, OfUser
    <3>2. CASE f \notin task[s].base
      <4>1. s = t /\ f \in Orphaned(task[t].at) /\ task[t].at \in Users
        BY <1>0, <1>r, <2>1, <3>2 DEF Sorts, Tuples
      <4>2. PICK x \in alive \cap Owned :
              /\ f \in files[x]
              /\ x \notin Albums => Owner[x] = task[t].at
              /\ x \in Albums => origin[f].by = task[t].at
        BY <4>1, OrphanedNamed
      <4>3. origin[f].at = x
        BY <1>0, <1>r, <4>2 DEF Home
      <4>4. OfUser(task[t].at, f)
        BY <4>2, <4>3 DEF OfUser, Owned
      <4>5. QED
        BY <2>1, <4>1, <4>4 DEF Own, OfUser
    <3>3. QED
      BY <3>1, <3>2
  <2>6. PostBase'
    BY <1>0, <1>r, <2>1 DEF PostBase, Working, Tuples, Rows, Owned
  <2>7. TrashFree'
    <3> SUFFICES ASSUME NEW s \in Tasks, NEW f \in task'[s].trash, f \notin shared'
                 PROVE  task'[s].pc = "delete" /\ Free(f)'
      BY DEF TrashFree
    <3>1. f \in task[s].trash /\ task[s].pc = "delete" /\ Free(f)
      BY <1>0, <1>r, <2>1 DEF TrashFree
    <3>2. QED
      BY <1>0, <1>r, <2>1, <3>1 DEF Free, Working, Rows, Owned
  <2>8. StoredAtPosts'
    BY <1>0, <1>r, <2>1 DEF StoredAtPosts, Tuples, Rows, Owned
  <2>9. PostKept'
    BY <1>0, <1>r, <2>1 DEF PostKept, Working, Tuples, Rows, Owned
  <2>10. PostRaced'
    BY <1>0, <1>r, <2>1 DEF PostRaced, Working, Tuples, Rows, Owned
  <2>11. Present'
    BY <1>0, <1>r, <2>1 DEF Present, Tuples, Rows, Owned
  <2>12. LostOnlyIfRaced'
    BY <1>0, <1>r, <2>1 DEF LostOnlyIfRaced, Tuples, Rows, Owned
  <2>13. QED
    BY <2>2, <2>3, <2>4, <2>5, <2>6, <2>7, <2>8, <2>9, <2>10, <2>11, <2>12 DEF Inv
<1>20. ASSUME NEW t \in Tasks, DeleteAccount(t)
      PROVE Inv'
  <2>1. /\ task[t].pc = "work" /\ task[t].kind = "account"
        /\ \A s \in Tasks \ {t} : task'[s] = task[s]
        /\ task'[t].pc = "delete"
        /\ task'[t].base = task[t].base
        /\ task'[t].held = task[t].held /\ task'[t].trash = task[t].base
        /\ alive' \subseteq alive \ ({task[t].at} \cup RowsOf(task[t].at))
        /\ files' = [x \in Rows |->
                       IF x \in Albums THEN files[x] \ MaterialsOf(task[t].at) ELSE files[x]]
        /\ UNCHANGED <<made, objects, uploads, origin, shared, raced, stored>>
    BY <1>20, <1>0 DEF DeleteAccount, Working, Tuples, database, bucket, history
  <2>2. Sorts'
    BY <1>0, <1>r, <2>1 DEF Sorts, Known, Tuples, Rows, Owned
  <2>3. Home'
    BY <1>0, <1>r, <2>1 DEF Home, Working, Tuples, Rows, Owned
  <2>4. HeldApart'
    <3> SUFFICES ASSUME NEW s \in Tasks, NEW f \in task'[s].held PROVE Apart(s, f)'
      BY DEF HeldApart
    <3>1. f \in task[s].held /\ Apart(s, f)
      BY <1>0, <1>r, <2>1 DEF HeldApart
    <3>2. QED
      BY <1>0, <1>r, <2>1, <3>1 DEF Apart, Uploading, Rows, Owned
  <2>5. BaseOwn'
    BY <1>0, <1>r, <2>1 DEF BaseOwn, Own, OfUser, Tuples, Rows, Owned
  <2>6. PostBase'
    BY <1>0, <1>r, <2>1 DEF PostBase, Working, Tuples, Rows, Owned
  <2>7. TrashFree'
    <3> SUFFICES ASSUME NEW s \in Tasks, NEW f \in task'[s].trash, f \notin shared'
                 PROVE  task'[s].pc = "delete" /\ Free(f)'
      BY DEF TrashFree
    <3> DEFINE u == task[t].at
               x == origin[f].at
    <3>1. CASE s # t
      <4>1. f \in task[s].trash /\ task[s].pc = "delete" /\ Free(f) /\ task'[s].pc = "delete"
        BY <1>0, <1>r, <2>1, <3>1 DEF TrashFree
      <4>2. QED
        BY <1>0, <1>r, <2>1, <3>1, <4>1 DEF Free, Working
    <3>2. CASE s = t
      <4> SUFFICES ASSUME x \in alive'
                   PROVE  /\ f \notin files'[x]
                          /\ \A r \in Tasks : task'[r].pc = "work" /\ task'[r].kind = "post"
                               => f \notin task'[r].base
        BY <2>1, <3>2 DEF Free, Working
      <4>1. OfUser(u, f) /\ f \in task[t].base
        BY <1>0, <1>r, <2>1, <3>2 DEF BaseOwn, Own
      <4>2. x \in alive /\ x # u /\ x \notin RowsOf(u)
        BY <2>1
      <4>3. x \in Albums /\ origin[f].by = u
        BY <4>1, <4>2 DEF OfUser, RowsOf, Owned
      <4>4. f \notin files'[x]
        BY <1>0, <2>1, <4>2, <4>3 DEF MaterialsOf, FilesOf
      <4>5. \A r \in Tasks \ {t} : task[r].pc = "work" /\ task[r].kind = "post" => f \notin task[r].base
        BY <1>0, <1>r, <2>1, <4>3 DEF BaseOwn, Own, Sorts
      <4>6. QED
        BY <2>1, <4>4, <4>5
    <3>3. QED
      BY <3>1, <3>2
  <2>8. StoredAtPosts'
    BY <1>0, <1>r, <2>1 DEF StoredAtPosts, Tuples, Rows, Owned
  <2>9. PostKept'
    BY <1>0, <1>r, <2>1 DEF PostKept, Working, Tuples, Rows, Owned
  <2>10. PostRaced'
    BY <1>0, <1>r, <2>1 DEF PostRaced, Working, Tuples, Rows, Owned
  <2>11. Present'
    BY <1>0, <1>r, <2>1 DEF Present, Present, Tuples, Rows, Owned
  <2>12. LostOnlyIfRaced'
    BY <1>0, <1>r, <2>1 DEF LostOnlyIfRaced, StoredAtPosts, Tuples, Rows, Owned
  <2>13. QED
    BY <2>2, <2>3, <2>4, <2>5, <2>6, <2>7, <2>8, <2>9, <2>10, <2>11, <2>12 DEF Inv
<1>21. ASSUME NEW t \in Tasks, NEW g \in Files, Remove(t, g)
      PROVE Inv'
  <2>1. /\ task[t].pc = "delete" /\ g \in task[t].trash
        /\ \A s \in Tasks \ {t} : task'[s] = task[s]
        /\ task'[t].pc = "delete" /\ task'[t].held = task[t].held
        /\ task'[t].base = task[t].base
        /\ task'[t].trash = task[t].trash \ {g}
        /\ objects' = objects \ {g}
        /\ UNCHANGED <<alive, files, made, uploads, origin, shared, raced, stored>>
    BY <1>21, <1>0 DEF Remove, Tuples, database, bucket, history
  <2>2. Sorts'
    BY <1>0, <1>r, <2>1 DEF Sorts, Known, Tuples, Rows, Owned
  <2>3. Home'
    BY <1>0, <1>r, <2>1 DEF Home, Working, Tuples, Rows, Owned
  <2>4. HeldApart'
    <3> SUFFICES ASSUME NEW s \in Tasks, NEW f \in task'[s].held PROVE Apart(s, f)'
      BY DEF HeldApart
    <3>1. f \in task[s].held /\ Apart(s, f)
      BY <1>0, <1>r, <2>1 DEF HeldApart
    <3>2. QED
      BY SMTT(30), <1>0, <1>r, <2>1, <3>1 DEF Apart, Uploading, Rows, Owned
  <2>5. BaseOwn'
    BY <1>0, <1>r, <2>1 DEF BaseOwn, Own, OfUser, Tuples, Rows, Owned
  <2>6. PostBase'
    BY <1>0, <1>r, <2>1 DEF PostBase, Working, TrashFree, Free, BaseOwn, Own, Tuples, Rows, Owned
  <2>7. TrashFree'
    <3> SUFFICES ASSUME NEW s \in Tasks, NEW f \in task'[s].trash, f \notin shared'
                 PROVE  task'[s].pc = "delete" /\ Free(f)'
      BY DEF TrashFree
    <3>1. f \in task[s].trash /\ task[s].pc = "delete" /\ Free(f)
      BY <1>0, <1>r, <2>1 DEF TrashFree
    <3>2. QED
      BY <1>0, <1>r, <2>1, <3>1 DEF Free, Working, Rows, Owned
  <2>8. StoredAtPosts'
    BY <1>0, <1>r, <2>1 DEF StoredAtPosts, Tuples, Rows, Owned
  <2>9. PostKept'
    BY <1>0, <1>r, <2>1 DEF PostKept, Working, Tuples, Rows, Owned
  <2>10. PostRaced'
    BY <1>0, <1>r, <2>1 DEF PostRaced, Working, Tuples, Rows, Owned
  <2>11. Present'
    BY <1>0, <1>r, <2>1 DEF Present, TrashFree, Free, Home, Tuples, Rows, Owned
  <2>12. LostOnlyIfRaced'
    BY <1>0, <1>r, <2>1 DEF LostOnlyIfRaced, Tuples, Rows, Owned
  <2>13. QED
    BY <2>2, <2>3, <2>4, <2>5, <2>6, <2>7, <2>8, <2>9, <2>10, <2>11, <2>12 DEF Inv
<1>22. ASSUME NEW t \in Tasks, NEW f \in Files, RemoveRefused(t, f)
      PROVE Inv'
  <2>1. UNCHANGED <<alive, files, made, objects, origin, shared, raced, stored>>
    BY <1>22 DEF RemoveRefused, database, bucket, history
  <2>2. /\ \A s \in Tasks \ {t} : task'[s] = task[s]
        /\ task'[t].pc = task[t].pc /\ task'[t].held = task[t].held
        /\ task'[t].kind = task[t].kind /\ task'[t].user = task[t].user /\ task'[t].at = task[t].at
        /\ task'[t].base = task[t].base
        /\ task'[t].trash = task[t].trash \ {f}
    BY <1>22, <1>0 DEF RemoveRefused, Tuples, database, bucket, history
  <2>3. QED
    BY <2>1, <2>2, QuietStep
<1>23. ASSUME NEW t \in Tasks, RemoveRaises(t)
      PROVE Inv'
  <2>1. UNCHANGED <<alive, files, made, objects, origin, shared, raced, stored>>
    BY <1>23 DEF RemoveRaises, database, bucket, history
  <2>2. /\ \A s \in Tasks \ {t} : task'[s] = task[s]
        /\ task'[t].pc = "idle" /\ task'[t].held = {} /\ task'[t].base = {} /\ task'[t].trash = {}
    BY <1>23, <1>0, IdleFacts DEF RemoveRaises, Tuples, database, bucket, history
  <2>3. QED
    BY <2>1, <2>2, QuietStep
<1>24. ASSUME NEW t \in Tasks, End(t)
      PROVE Inv'
  <2>1. UNCHANGED <<alive, files, made, objects, origin, shared, raced, stored>>
    BY <1>24 DEF End, database, bucket, history
  <2>2. /\ \A s \in Tasks \ {t} : task'[s] = task[s]
        /\ task'[t].pc = "idle" /\ task'[t].held = {} /\ task'[t].base = {} /\ task'[t].trash = {}
    BY <1>24, <1>0, IdleFacts DEF End, Tuples, database, bucket, history
  <2>3. QED
    BY <2>1, <2>2, QuietStep
<1>25. ASSUME Crash
      PROVE Inv'
  <2>1. UNCHANGED <<alive, files, made, objects, origin, shared, raced, stored>>
    BY <1>25 DEF Crash, database, bucket, history
  <2>2. \A t \in Tasks : /\ task'[t].pc = "idle" /\ task'[t].base = {}
                        /\ task'[t].held = {} /\ task'[t].trash = {}
    BY <1>25, <1>0, IdleFacts DEF Crash, Tuples, database, bucket, history
  <2>3. QED
    BY <2>1, <2>2, QuietStep
<1>26. CASE UNCHANGED vars
  BY <1>26, QuietStep DEF vars, database, bucket, history
<1>27. QED
  BY <1>1, <1>2, <1>3, <1>4, <1>5, <1>6, <1>7, <1>8, <1>9, <1>10, <1>11, <1>12, <1>13,
     <1>14, <1>15, <1>16, <1>17, <1>18, <1>19, <1>20, <1>21, <1>22, <1>23, <1>24, <1>25,
     <1>26
     DEF Next, RowStep, Start, Delete, Continue
\* The strengthened invariant holds of the initial state.
THEOREM InvInit == Init => Inv
  <1> SUFFICES ASSUME Init PROVE Inv
    OBVIOUS
  <1>1. \A t \in Tasks : task[t] = Idle
    BY DEF Init
  <1>2. \A x \in Rows : files[x] = {}
    BY DEF Init
  <1>3. Sorts /\ HeldApart /\ BaseOwn /\ PostBase /\ TrashFree
    BY <1>1, IdleFacts DEF Sorts, HeldApart, BaseOwn, PostBase, TrashFree, Working
  <1>4. Home /\ Present
    BY <1>2 DEF Init, Home, Present, Rows, Owned
  <1>5. StoredAtPosts /\ PostKept /\ PostRaced /\ LostOnlyIfRaced
    BY <1>1, IdleFacts DEF Init, StoredAtPosts, PostKept, PostRaced, LostOnlyIfRaced, Working
  <1>6. QED
    BY <1>3, <1>4, <1>5 DEF Inv

\* The strengthened invariant holds always.
THEOREM Invariant == Spec => []Inv
  BY TypeInit, TypeStep, InvInit, InvStep, PTL DEF Spec

\* However requests run beside each other and wherever they fail, a row names a
\* file that is gone only if a forwarded message names it too.
THEOREM DanglingOnlyIfSharedHolds == Spec => []DanglingOnlyIfShared
  <1>1. Inv => DanglingOnlyIfShared
    BY PresentMeans DEF Inv
  <1>2. QED
    BY <1>1, Invariant, PTL

\* A post keeps what finished uploads put into it unless two of them overlapped.
THEOREM LostOnlyIfRacedHolds == Spec => []LostOnlyIfRaced
  <1>1. Inv => LostOnlyIfRaced
    BY DEF Inv
  <1>2. QED
    BY <1>1, Invariant, PTL

-----------------------------------------------------------------------------
(***************************************************************************)
(* No file is forgotten.  By a second inductive invariant (LeakInv), on    *)
(* top of Inv: what is in the bucket is named by the row it was uploaded   *)
(* for, or is on the way into it or out of the bucket, or was left behind  *)
(* for one of the reasons that `excused' collects.                         *)
(***************************************************************************)
\* A request has files to delete only when it deletes.
Rests == \A t \in Tasks : task[t].pc # "delete" => task[t].trash = {}

\* Two uploads of one kind for one row: never for a message, recorded for a picture
\* and a post.
Sole ==
  \A s, t \in Tasks :
    /\ s # t /\ Uploading(s) /\ Uploading(t)
    /\ task[s].kind = task[t].kind /\ task[s].at = task[t].at
    => task[s].kind = "album" \/ (task[s].kind # "message" /\ task[s].at \in raced)

\* An upload is by the owner of the row, of a message that is not there yet.
ByOwner ==
  \A t \in Tasks :
    /\ task[t].pc = "work" /\ task[t].kind \in {"message", "post"}
         => task[t].user = Owner[task[t].at]
    /\ Working(t, "message") => task[t].at \notin alive
    /\ \A f \in task[t].held : origin[f].by = task[t].user

\* An upload that no other overlapped has read all that its row names, and what an
\* upload to a post has read stays there.
ReadAll ==
  \A t \in Tasks :
    task[t].pc = "work" /\ task[t].kind \in {"picture", "post"} /\ task[t].at \notin raced
      => files[task[t].at] \subseteq task[t].base
PostStays ==
  \A t \in Tasks :
    Working(t, "post") /\ task[t].at \in alive
      => task[t].base \subseteq files[task[t].at] \cup excused

\* Files are uploaded for rows whose ids have been drawn.
Placed == \A f \in 1 .. uploads : origin[f].at \in Known

\* The row a file was uploaded for names it.
Named(f) == origin[f].at \in alive /\ f \in files[origin[f].at]

\* What an account deletion is to delete with the rows: the picture from the start,
\* the other files once it has listed them.
Due(t, f) ==
  LET x == origin[f].at  u == task[t].at IN
  \/ x = u
  \/ /\ task[t].left = 0
     /\ \/ x \in Posts /\ Owner[x] = u
        \/ x \in Messages /\ Type[x] # "file" /\ Owner[x] = u
        \/ x \in Albums /\ origin[f].by = u
Listed ==
  \A t \in Tasks : Working(t, "account") =>
    \A f \in 1 .. uploads : Named(f) /\ Due(t, f) => f \in task[t].base \cup excused

\* LeaksAreExplained, by the row a file was uploaded for.
Explained == \A f \in objects : Named(f) \/ f \in excused \/ f \in Carried
LeakInv ==
  Rests /\ Sole /\ ByOwner /\ ReadAll /\ PostStays /\ Placed /\ Listed /\ Explained


\* Row by row it says the same as for all that is referenced.
LEMMA ExplainedMeans == TypeOK /\ Explained => LeaksAreExplained
  BY DEF TypeOK, Explained, Named, LeaksAreExplained, Referenced, FilesOf, Files

\* Account deletion lists what posts of the user and messages that are not documents
\* name, and the user's materials in albums.
LEMMA DueIsOrphaned ==
  ASSUME TypeOK, NEW u, NEW f, NEW x \in alive, f \in files[x],
         \/ x \in Posts /\ Owner[x] = u
         \/ x \in Messages /\ Type[x] # "file" /\ Owner[x] = u
         \/ x \in Albums /\ origin[f].by = u
  PROVE  f \in Orphaned(u)
  <1>1. CASE x \in Albums /\ origin[f].by = u
    <2>1. f \in FilesOf(alive \cap Albums)
      BY <1>1 DEF FilesOf
    <2>2. QED
      BY <1>1, <2>1 DEF Orphaned, MaterialsOf
  <1>2. CASE x \in Posts \cup Messages /\ Owner[x] = u /\ (x \in Messages => Type[x] # "file")
    <2>1. x \in {y \in RowsOf(u) \ Albums : y \in Messages => Type[y] # "file"}
      BY <1>2 DEF RowsOf, Owned
    <2>2. f \in FilesOf({y \in RowsOf(u) \ Albums : y \in Messages => Type[y] # "file"})
      BY <2>1 DEF FilesOf
    <2>3. QED
      BY <2>2 DEF Orphaned
  <1>3. QED
    BY <1>1, <1>2

\* The row that an upload is about to name is there, or is the user who uploads.
LEMMA NotGone ==
  ASSUME NEW t, Uploading(t), ~Gone(t)
  PROVE  /\ task[t].kind = "picture" /\ task[t].at = Chat => task[t].at \in alive
         /\ task[t].kind \in {"post", "album"} => task[t].at \in alive
  <1>1. CASE task[t].kind = "picture"
    BY <1>1 DEF Gone
  <1>2. CASE task[t].kind = "post"
    BY <1>2 DEF Gone
  <1>3. CASE task[t].kind = "album"
    BY <1>3 DEF Gone
  <1>4. CASE task[t].kind = "message"
    BY <1>4
  <1>5. QED
    BY <1>1, <1>2, <1>3, <1>4 DEF Uploading

\* A step that changes no row and no file, and at most ends requests or takes files
\* off what they delete, keeps the second invariant if it excuses those files.
LEMMA LeakQuiet ==
  ASSUME TypeOK, LeakInv,
         UNCHANGED <<alive, files, made, objects, uploads, origin, raced>>,
         excused \subseteq excused',
         \A t \in Tasks :
           \/ /\ task'[t].pc = "idle" /\ task'[t].held = {} /\ task'[t].trash = {}
              /\ task[t].held \cup task[t].trash \subseteq excused'
           \/ /\ task'[t].pc = task[t].pc /\ task'[t].kind = task[t].kind
              /\ task'[t].user = task[t].user /\ task'[t].at = task[t].at
              /\ task'[t].base = task[t].base /\ task'[t].held = task[t].held
              /\ task'[t].left = task[t].left \/ task[t].kind # "account"
              /\ task'[t].trash \subseteq task[t].trash
              /\ task[t].trash \subseteq task'[t].trash \cup excused'
  PROVE  LeakInv'
  <1>1. Rests /\ Sole /\ ByOwner /\ ReadAll /\ PostStays /\ Placed /\ Listed /\ Explained
    BY DEF LeakInv
  <1>2. Rests'
    BY <1>1 DEF Rests
  <1>3. Sole'
    BY <1>1 DEF Sole, Uploading
  <1>4. ByOwner'
    BY <1>1 DEF ByOwner, Working
  <1>5. ReadAll'
    BY <1>1 DEF ReadAll
  <1>6. PostStays'
    BY <1>1 DEF PostStays, Working
  <1>10. Placed'
    BY <1>1 DEF Placed, Known
  <1>7. Listed'
    <2> SUFFICES ASSUME NEW s \in Tasks, Working(s, "account")', NEW f \in 1 .. uploads',
                        Named(f)', Due(s, f)'
                 PROVE  f \in task'[s].base \cup excused'
      BY DEF Listed
    <2>1. /\ Working(s, "account") /\ Named(f) /\ Due(s, f)
          /\ f \in 1 .. uploads /\ task'[s].base = task[s].base
      BY DEF Working, Named, Due
    <2>2. QED
      BY <1>1, <2>1 DEF Listed
  <1>8. Explained'
    BY <1>1 DEF Explained, Named, Carried
  <1>9. QED
    BY <1>2, <1>3, <1>4, <1>5, <1>6, <1>7, <1>8, <1>10 DEF LeakInv

\* Every step keeps the second invariant: a file that a row stops naming, or that a
\* request lets go, is taken over by a request that deletes it or is excused.
THEOREM LeakStep == TypeOK /\ TypeOK' /\ Inv /\ LeakInv /\ [Next]_vars => LeakInv'
<1> SUFFICES ASSUME TypeOK, TypeOK', Inv, LeakInv, [Next]_vars PROVE LeakInv'
  OBVIOUS
<1>0. /\ task \in [Tasks -> Tuples] /\ files \in [Rows -> SUBSET (1 .. uploads)]
      /\ objects \subseteq 1 .. uploads /\ uploads \in Nat
      /\ origin \in [Files -> [by : Users, at : Rows]]
      /\ 1 .. uploads \subseteq Files /\ alive \subseteq Rows /\ alive \cap Owned \subseteq made
      /\ \A t \in Tasks : task[t].at \in Rows /\ task[t].at \in Users \cup {Chat} \cup made
  BY DEF TypeOK, Tuples, Files, Known
<1>r. /\ Sorts /\ Home /\ HeldApart
      /\ Rests /\ Sole /\ ByOwner /\ ReadAll /\ PostStays /\ Placed /\ Listed /\ Explained
  BY DEF Inv, LeakInv
<1>h. \A s \in Tasks :
        /\ task[s].pc # "delete" => task[s].trash = {}
        /\ ~Uploading(s) => task[s].held = {}
        /\ task[s].pc # "work" => task[s].held = {}
        /\ task[s].kind \in {"drop", "account"} => task[s].held = {}
  BY <1>r DEF Rests, HeldApart, Apart, Uploading
<1>1. ASSUME NEW u \in Users, NEW x \in Posts \cup Albums, Create(u, x)
      PROVE  LeakInv'
  <2>1. /\ x \in (Posts \cup Albums) \ made
        /\ alive' = alive \cup {x}
        /\ made \subseteq made'
        /\ UNCHANGED <<files, objects, task, uploads, origin, raced, excused>>
    BY <1>1, <1>0 DEF Create, Tuples, database, bucket, history
  <2>2. Rests'
    BY <1>0, <1>r, <1>h, <2>1 DEF Rests
  <2>3. Sole'
    BY <1>0, <1>r, <1>h, <2>1 DEF Sole, Uploading, Tuples, Rows, Owned
  <2>4. ByOwner'
    BY <1>0, <1>r, <1>h, <2>1 DEF ByOwner, Working, Sorts, Tuples, Rows, Owned
  <2>5. ReadAll'
    BY <1>0, <1>r, <1>h, <2>1 DEF ReadAll, Sorts, Tuples, Rows, Owned
  <2>6. PostStays'
    BY <1>0, <1>r, <1>h, <2>1 DEF PostStays, Working, Sorts, Tuples, Rows, Owned
  <2>7. Placed'
    BY <1>0, <1>r, <1>h, <2>1 DEF Placed, Known
  <2>8. Listed'
    <3> SUFFICES ASSUME NEW s \in Tasks, Working(s, "account")', NEW f \in 1 .. uploads',
                        Named(f)', Due(s, f)'
                 PROVE  f \in task'[s].base \cup excused'
      BY DEF Listed
    <3>1. Working(s, "account") /\ Named(f) /\ Due(s, f) /\ task'[s] = task[s]
      BY <1>0, <1>r, <2>1 DEF Working, Named, Due, Home, Placed, Known, Tuples, Rows, Owned
    <3>2. QED
      BY <1>0, <1>r, <2>1, <3>1 DEF Listed
  <2>9. Explained'
    <3> SUFFICES ASSUME NEW f \in objects'
                 PROVE  Named(f)' \/ f \in excused' \/ f \in Carried'
      BY DEF Explained
    <3>1. CASE Named(f)
      BY <1>0, <1>r, <2>1, <3>1 DEF Named, Carried, Home, Placed, Known, Tuples, Rows, Owned
    <3>2. CASE f \in excused
      BY <2>1, <3>2
    <3>3. CASE f \in Carried
      BY <1>h, <2>1, <3>3 DEF Carried
    <3>4. QED
      BY <1>r, <2>1, <3>1, <3>2, <3>3 DEF Explained
  <2>10. QED
    BY <2>2, <2>3, <2>4, <2>5, <2>6, <2>7, <2>8, <2>9 DEF LeakInv
<1>2. ASSUME NEW u \in Users, NEW a \in Albums, AddMember(a, u)
      PROVE  LeakInv'
  <2>1. /\ UNCHANGED <<alive, files, made, objects, uploads, origin, raced>>
        /\ excused \subseteq excused'
    BY <1>2 DEF AddMember, database, bucket, history
  <2>2. task' = task
    BY <1>2 DEF AddMember, database, bucket, history
  <2>3. QED
    BY <2>1, <2>2, LeakQuiet
<1>3. ASSUME NEW u \in Users, NEW a \in Albums, RemoveMember(a, u)
      PROVE  LeakInv'
  <2>1. /\ UNCHANGED <<alive, files, made, objects, uploads, origin, raced>>
        /\ excused \subseteq excused'
    BY <1>3 DEF RemoveMember, database, bucket, history
  <2>2. task' = task
    BY <1>3 DEF RemoveMember, database, bucket, history
  <2>3. QED
    BY <2>1, <2>2, LeakQuiet
<1>4. ASSUME NEW u \in Users, NEW from \in Messages, NEW m \in Messages, Forward(u, from,
              m)
      PROVE  LeakInv'
  <2>1. /\ m \in Messages \ made
        /\ alive' = alive \cup {m}
        /\ files' = [files EXCEPT ![m] = files[from]]
        /\ made \subseteq made'
        /\ UNCHANGED <<objects, task, uploads, origin, raced, excused>>
    BY <1>4, <1>0 DEF Forward, Tuples, database, bucket, history
  <2>2. Rests'
    BY <1>0, <1>r, <1>h, <2>1 DEF Rests
  <2>3. Sole'
    BY <1>0, <1>r, <1>h, <2>1 DEF Sole, Uploading, Tuples, Rows, Owned
  <2>4. ByOwner'
    BY <1>0, <1>r, <1>h, <2>1 DEF ByOwner, Working, Sorts, Tuples, Rows, Owned
  <2>5. ReadAll'
    BY <1>0, <1>r, <1>h, <2>1 DEF ReadAll, Sorts, Tuples, Rows, Owned
  <2>6. PostStays'
    BY <1>0, <1>r, <1>h, <2>1 DEF PostStays, Working, Sorts, Tuples, Rows, Owned
  <2>7. Placed'
    BY <1>0, <1>r, <1>h, <2>1 DEF Placed, Known
  <2>8. Listed'
    <3> SUFFICES ASSUME NEW s \in Tasks, Working(s, "account")', NEW f \in 1 .. uploads',
                        Named(f)', Due(s, f)'
                 PROVE  f \in task'[s].base \cup excused'
      BY DEF Listed
    <3>1. Working(s, "account") /\ Named(f) /\ Due(s, f) /\ task'[s] = task[s]
      BY <1>0, <1>r, <2>1 DEF Working, Named, Due, Home, Placed, Known, Tuples, Rows, Owned
    <3>2. QED
      BY <1>0, <1>r, <2>1, <3>1 DEF Listed
  <2>9. Explained'
    <3> SUFFICES ASSUME NEW f \in objects'
                 PROVE  Named(f)' \/ f \in excused' \/ f \in Carried'
      BY DEF Explained
    <3>1. CASE Named(f)
      BY <1>0, <1>r, <2>1, <3>1 DEF Named, Carried, Home, Placed, Known, Tuples, Rows, Owned
    <3>2. CASE f \in excused
      BY <2>1, <3>2
    <3>3. CASE f \in Carried
      BY <1>h, <2>1, <3>3 DEF Carried
    <3>4. QED
      BY <1>r, <2>1, <3>1, <3>2, <3>3 DEF Explained
  <2>10. QED
    BY <2>2, <2>3, <2>4, <2>5, <2>6, <2>7, <2>8, <2>9 DEF LeakInv
<1>5. ASSUME NEW t \in Tasks, NEW u \in Users, NEW x \in {u, Chat}, StartPicture(t, u, x)
      PROVE  LeakInv'
  <2>1. /\ \A s \in Tasks \ {t} : task'[s] = task[s]
        /\ task[t].pc = "idle"
        /\ task'[t].pc = "work" /\ task'[t].kind = "picture"
        /\ task'[t].user = u /\ task'[t].at = x /\ task'[t].base = files[x]
        /\ task'[t].held = {} /\ task'[t].trash = {}
        /\ raced' = IF Overlapping("picture", x) THEN raced \cup {x} ELSE raced
        /\ UNCHANGED <<alive, files, made, objects, uploads, origin, excused>>
    BY <1>5, <1>0 DEF StartPicture, Begin, Request, State, Race, Tuples, database, bucket, history
  <2>2. Rests'
    BY <1>0, <1>r, <1>h, <2>1 DEF Rests
  <2>3. Sole'
    <3> SUFFICES ASSUME NEW r \in Tasks, NEW s \in Tasks, r # s, Uploading(r)', Uploading(s)',
                        task'[r].kind = task'[s].kind, task'[r].at = task'[s].at
                 PROVE  \/ task'[r].kind = "album"
                        \/ task'[r].kind # "message" /\ task'[r].at \in raced'
      BY DEF Sole
    <3>1. CASE r # t /\ s # t
      BY <1>0, <1>r, <2>1, <3>1 DEF Sole, Uploading
    <3>2. CASE r = t \/ s = t
      <4>1. task'[r].kind = "picture" /\ task'[r].at = x
        BY <2>1, <3>2
      <4>2. Overlapping("picture", x)
        BY <2>1, <3>2, <4>1 DEF Overlapping, Working, Uploading
      <4>3. QED
        BY <2>1, <4>1, <4>2
    <3>3. QED
      BY <3>1, <3>2
  <2>4. ByOwner'
    BY <1>0, <1>r, <1>h, <2>1 DEF ByOwner, Working, Sorts, Tuples, Rows, Owned
  <2>5. ReadAll'
    BY <1>0, <1>r, <1>h, <2>1 DEF ReadAll, Sorts, Tuples, Rows, Owned
  <2>6. PostStays'
    BY <1>0, <1>r, <1>h, <2>1 DEF PostStays, Working, Sorts, Tuples, Rows, Owned
  <2>7. Placed'
    BY <1>0, <1>r, <1>h, <2>1 DEF Placed, Known
  <2>8. Listed'
    <3> SUFFICES ASSUME NEW s \in Tasks, Working(s, "account")', NEW f \in 1 .. uploads',
                        Named(f)', Due(s, f)'
                 PROVE  f \in task'[s].base \cup excused'
      BY DEF Listed
    <3>1. Working(s, "account") /\ Named(f) /\ Due(s, f) /\ task'[s] = task[s]
      BY <1>0, <1>r, <2>1 DEF Working, Named, Due, Home, Placed, Known, Tuples, Rows, Owned
    <3>2. QED
      BY <1>0, <1>r, <2>1, <3>1 DEF Listed
  <2>9. Explained'
    <3> SUFFICES ASSUME NEW f \in objects'
                 PROVE  Named(f)' \/ f \in excused' \/ f \in Carried'
      BY DEF Explained
    <3>1. CASE Named(f)
      BY <1>0, <1>r, <2>1, <3>1 DEF Named, Carried, Home, Placed, Known, Tuples, Rows, Owned
    <3>2. CASE f \in excused
      BY <2>1, <3>2
    <3>3. CASE f \in Carried
      BY <1>h, <2>1, <3>3 DEF Carried
    <3>4. QED
      BY <1>r, <2>1, <3>1, <3>2, <3>3 DEF Explained
  <2>10. QED
    BY <2>2, <2>3, <2>4, <2>5, <2>6, <2>7, <2>8, <2>9 DEF LeakInv
<1>6. ASSUME NEW t \in Tasks, NEW u \in Users, NEW m \in Messages, StartMessage(t, u, m)
      PROVE  LeakInv'
  <2>1. /\ \A s \in Tasks \ {t} : task'[s] = task[s]
        /\ task[t].pc = "idle"
        /\ task'[t].pc = "work" /\ task'[t].kind = "message"
        /\ task'[t].user = u /\ task'[t].at = m /\ task'[t].base = {}
        /\ task'[t].held = {} /\ task'[t].trash = {}
        /\ m \in Messages \ made /\ Owner[m] = u /\ made \subseteq made'
        /\ UNCHANGED <<alive, files, objects, uploads, origin, raced, excused>>
    BY <1>6, <1>0 DEF StartMessage, Begin, Request, State, Tuples, database, bucket, history
  <2>2. Rests'
    BY <1>0, <1>r, <1>h, <2>1 DEF Rests
  <2>3. Sole'
    BY <1>0, <1>r, <1>h, <2>1 DEF Sole, Uploading, Tuples, Rows, Owned
  <2>4. ByOwner'
    BY <1>0, <1>r, <1>h, <2>1 DEF ByOwner, Working, Sorts, Tuples, Rows, Owned
  <2>5. ReadAll'
    BY <1>0, <1>r, <1>h, <2>1 DEF ReadAll, Sorts, Tuples, Rows, Owned
  <2>6. PostStays'
    BY <1>0, <1>r, <1>h, <2>1 DEF PostStays, Working, Sorts, Tuples, Rows, Owned
  <2>7. Placed'
    BY <1>0, <1>r, <1>h, <2>1 DEF Placed, Known
  <2>8. Listed'
    <3> SUFFICES ASSUME NEW s \in Tasks, Working(s, "account")', NEW f \in 1 .. uploads',
                        Named(f)', Due(s, f)'
                 PROVE  f \in task'[s].base \cup excused'
      BY DEF Listed
    <3>1. Working(s, "account") /\ Named(f) /\ Due(s, f) /\ task'[s] = task[s]
      BY <1>0, <1>r, <2>1 DEF Working, Named, Due, Home, Placed, Known, Tuples, Rows, Owned
    <3>2. QED
      BY <1>0, <1>r, <2>1, <3>1 DEF Listed
  <2>9. Explained'
    <3> SUFFICES ASSUME NEW f \in objects'
                 PROVE  Named(f)' \/ f \in excused' \/ f \in Carried'
      BY DEF Explained
    <3>1. CASE Named(f)
      BY <1>0, <1>r, <2>1, <3>1 DEF Named, Carried, Home, Placed, Known, Tuples, Rows, Owned
    <3>2. CASE f \in excused
      BY <2>1, <3>2
    <3>3. CASE f \in Carried
      BY <1>h, <2>1, <3>3 DEF Carried
    <3>4. QED
      BY <1>r, <2>1, <3>1, <3>2, <3>3 DEF Explained
  <2>10. QED
    BY <2>2, <2>3, <2>4, <2>5, <2>6, <2>7, <2>8, <2>9 DEF LeakInv
<1>7. ASSUME NEW t \in Tasks, NEW u \in Users, NEW p \in Posts, NEW n \in 1 .. MaxBatch,
             StartPost(t, u, p, n)
      PROVE  LeakInv'
  <2>1. /\ \A s \in Tasks \ {t} : task'[s] = task[s]
        /\ task[t].pc = "idle"
        /\ task'[t].pc = "work" /\ task'[t].kind = "post"
        /\ task'[t].user = u /\ task'[t].at = p /\ task'[t].base = files[p]
        /\ task'[t].held = {} /\ task'[t].trash = {}
        /\ p \in alive /\ Owner[p] = u
        /\ raced' = IF Overlapping("post", p) THEN raced \cup {p} ELSE raced
        /\ UNCHANGED <<alive, files, made, objects, uploads, origin, excused>>
    BY <1>7, <1>0 DEF StartPost, Begin, Request, State, Race, Tuples, database, bucket, history
  <2>2. Rests'
    BY <1>0, <1>r, <1>h, <2>1 DEF Rests
  <2>3. Sole'
    <3> SUFFICES ASSUME NEW r \in Tasks, NEW s \in Tasks, r # s, Uploading(r)', Uploading(s)',
                        task'[r].kind = task'[s].kind, task'[r].at = task'[s].at
                 PROVE  \/ task'[r].kind = "album"
                        \/ task'[r].kind # "message" /\ task'[r].at \in raced'
      BY DEF Sole
    <3>1. CASE r # t /\ s # t
      BY <1>0, <1>r, <2>1, <3>1 DEF Sole, Uploading
    <3>2. CASE r = t \/ s = t
      <4>1. task'[r].kind = "post" /\ task'[r].at = p
        BY <2>1, <3>2
      <4>2. Overlapping("post", p)
        BY <2>1, <3>2, <4>1 DEF Overlapping, Working, Uploading
      <4>3. QED
        BY <2>1, <4>1, <4>2
    <3>3. QED
      BY <3>1, <3>2
  <2>4. ByOwner'
    BY <1>0, <1>r, <1>h, <2>1 DEF ByOwner, Working, Sorts, Tuples, Rows, Owned
  <2>5. ReadAll'
    BY <1>0, <1>r, <1>h, <2>1 DEF ReadAll, Sorts, Tuples, Rows, Owned
  <2>6. PostStays'
    BY <1>0, <1>r, <1>h, <2>1 DEF PostStays, Working, Sorts, Tuples, Rows, Owned
  <2>7. Placed'
    BY <1>0, <1>r, <1>h, <2>1 DEF Placed, Known
  <2>8. Listed'
    <3> SUFFICES ASSUME NEW s \in Tasks, Working(s, "account")', NEW f \in 1 .. uploads',
                        Named(f)', Due(s, f)'
                 PROVE  f \in task'[s].base \cup excused'
      BY DEF Listed
    <3>1. Working(s, "account") /\ Named(f) /\ Due(s, f) /\ task'[s] = task[s]
      BY <1>0, <1>r, <2>1 DEF Working, Named, Due, Home, Placed, Known, Tuples, Rows, Owned
    <3>2. QED
      BY <1>0, <1>r, <2>1, <3>1 DEF Listed
  <2>9. Explained'
    <3> SUFFICES ASSUME NEW f \in objects'
                 PROVE  Named(f)' \/ f \in excused' \/ f \in Carried'
      BY DEF Explained
    <3>1. CASE Named(f)
      BY <1>0, <1>r, <2>1, <3>1 DEF Named, Carried, Home, Placed, Known, Tuples, Rows, Owned
    <3>2. CASE f \in excused
      BY <2>1, <3>2
    <3>3. CASE f \in Carried
      BY <1>h, <2>1, <3>3 DEF Carried
    <3>4. QED
      BY <1>r, <2>1, <3>1, <3>2, <3>3 DEF Explained
  <2>10. QED
    BY <2>2, <2>3, <2>4, <2>5, <2>6, <2>7, <2>8, <2>9 DEF LeakInv
<1>8. ASSUME NEW t \in Tasks, NEW u \in Users, NEW a \in Albums, NEW n \in 1 .. MaxBatch,
             StartAlbum(t, u, a, n)
      PROVE  LeakInv'
  <2>1. /\ \A s \in Tasks \ {t} : task'[s] = task[s]
        /\ task[t].pc = "idle"
        /\ task'[t].pc = "work" /\ task'[t].kind = "album"
        /\ task'[t].user = u /\ task'[t].at = a /\ task'[t].base = {}
        /\ task'[t].held = {} /\ task'[t].trash = {}
        /\ UNCHANGED <<alive, files, made, objects, uploads, origin, raced, excused>>
    BY <1>8, <1>0 DEF StartAlbum, Begin, Request, State, Tuples, database, bucket, history
  <2>2. Rests'
    BY <1>0, <1>r, <1>h, <2>1 DEF Rests
  <2>3. Sole'
    BY <1>0, <1>r, <1>h, <2>1 DEF Sole, Uploading, Tuples, Rows, Owned
  <2>4. ByOwner'
    BY <1>0, <1>r, <1>h, <2>1 DEF ByOwner, Working, Sorts, Tuples, Rows, Owned
  <2>5. ReadAll'
    BY <1>0, <1>r, <1>h, <2>1 DEF ReadAll, Sorts, Tuples, Rows, Owned
  <2>6. PostStays'
    BY <1>0, <1>r, <1>h, <2>1 DEF PostStays, Working, Sorts, Tuples, Rows, Owned
  <2>7. Placed'
    BY <1>0, <1>r, <1>h, <2>1 DEF Placed, Known
  <2>8. Listed'
    <3> SUFFICES ASSUME NEW s \in Tasks, Working(s, "account")', NEW f \in 1 .. uploads',
                        Named(f)', Due(s, f)'
                 PROVE  f \in task'[s].base \cup excused'
      BY DEF Listed
    <3>1. Working(s, "account") /\ Named(f) /\ Due(s, f) /\ task'[s] = task[s]
      BY <1>0, <1>r, <2>1 DEF Working, Named, Due, Home, Placed, Known, Tuples, Rows, Owned
    <3>2. QED
      BY <1>0, <1>r, <2>1, <3>1 DEF Listed
  <2>9. Explained'
    <3> SUFFICES ASSUME NEW f \in objects'
                 PROVE  Named(f)' \/ f \in excused' \/ f \in Carried'
      BY DEF Explained
    <3>1. CASE Named(f)
      BY <1>0, <1>r, <2>1, <3>1 DEF Named, Carried, Home, Placed, Known, Tuples, Rows, Owned
    <3>2. CASE f \in excused
      BY <2>1, <3>2
    <3>3. CASE f \in Carried
      BY <1>h, <2>1, <3>3 DEF Carried
    <3>4. QED
      BY <1>r, <2>1, <3>1, <3>2, <3>3 DEF Explained
  <2>10. QED
    BY <2>2, <2>3, <2>4, <2>5, <2>6, <2>7, <2>8, <2>9 DEF LeakInv
<1>9. ASSUME NEW t \in Tasks, NEW u \in Users, NEW a \in Albums, NEW g \in Files,
             StartDrop(t, u, a, g)
      PROVE  LeakInv'
  <2>1. /\ \A s \in Tasks \ {t} : task'[s] = task[s]
        /\ task[t].pc = "idle"
        /\ task'[t].pc = "work" /\ task'[t].kind = "drop"
        /\ task'[t].user = u /\ task'[t].at = a /\ task'[t].base = {g}
        /\ task'[t].held = {} /\ task'[t].trash = {}
        /\ UNCHANGED <<alive, files, made, objects, uploads, origin, raced, excused>>
    BY <1>9, <1>0 DEF StartDrop, Begin, Request, State, Tuples, database, bucket, history
  <2>2. Rests'
    BY <1>0, <1>r, <1>h, <2>1 DEF Rests
  <2>3. Sole'
    BY <1>0, <1>r, <1>h, <2>1 DEF Sole, Uploading, Tuples, Rows, Owned
  <2>4. ByOwner'
    BY <1>0, <1>r, <1>h, <2>1 DEF ByOwner, Working, Sorts, Tuples, Rows, Owned
  <2>5. ReadAll'
    BY <1>0, <1>r, <1>h, <2>1 DEF ReadAll, Sorts, Tuples, Rows, Owned
  <2>6. PostStays'
    BY <1>0, <1>r, <1>h, <2>1 DEF PostStays, Working, Sorts, Tuples, Rows, Owned
  <2>7. Placed'
    BY <1>0, <1>r, <1>h, <2>1 DEF Placed, Known
  <2>8. Listed'
    <3> SUFFICES ASSUME NEW s \in Tasks, Working(s, "account")', NEW f \in 1 .. uploads',
                        Named(f)', Due(s, f)'
                 PROVE  f \in task'[s].base \cup excused'
      BY DEF Listed
    <3>1. Working(s, "account") /\ Named(f) /\ Due(s, f) /\ task'[s] = task[s]
      BY <1>0, <1>r, <2>1 DEF Working, Named, Due, Home, Placed, Known, Tuples, Rows, Owned
    <3>2. QED
      BY <1>0, <1>r, <2>1, <3>1 DEF Listed
  <2>9. Explained'
    <3> SUFFICES ASSUME NEW f \in objects'
                 PROVE  Named(f)' \/ f \in excused' \/ f \in Carried'
      BY DEF Explained
    <3>1. CASE Named(f)
      BY <1>0, <1>r, <2>1, <3>1 DEF Named, Carried, Home, Placed, Known, Tuples, Rows, Owned
    <3>2. CASE f \in excused
      BY <2>1, <3>2
    <3>3. CASE f \in Carried
      BY <1>h, <2>1, <3>3 DEF Carried
    <3>4. QED
      BY <1>r, <2>1, <3>1, <3>2, <3>3 DEF Explained
  <2>10. QED
    BY <2>2, <2>3, <2>4, <2>5, <2>6, <2>7, <2>8, <2>9 DEF LeakInv
<1>10. ASSUME NEW t \in Tasks, NEW u \in Users, StartAccount(t, u)
      PROVE  LeakInv'
  <2>1. /\ \A s \in Tasks \ {t} : task'[s] = task[s]
        /\ task[t].pc = "idle"
        /\ task'[t].pc = "work" /\ task'[t].kind = "account"
        /\ task'[t].user = u /\ task'[t].at = u /\ task'[t].base = files[u]
        /\ task'[t].held = {} /\ task'[t].trash = {} /\ task'[t].left = 1
        /\ UNCHANGED <<alive, files, made, objects, uploads, origin, raced, excused>>
    BY <1>10, <1>0 DEF StartAccount, Begin, Request, State, Tuples, database, bucket, history
  <2>2. Rests'
    BY <1>0, <1>r, <1>h, <2>1 DEF Rests
  <2>3. Sole'
    BY <1>0, <1>r, <1>h, <2>1 DEF Sole, Uploading, Tuples, Rows, Owned
  <2>4. ByOwner'
    BY <1>0, <1>r, <1>h, <2>1 DEF ByOwner, Working, Sorts, Tuples, Rows, Owned
  <2>5. ReadAll'
    BY <1>0, <1>r, <1>h, <2>1 DEF ReadAll, Sorts, Tuples, Rows, Owned
  <2>6. PostStays'
    BY <1>0, <1>r, <1>h, <2>1 DEF PostStays, Working, Sorts, Tuples, Rows, Owned
  <2>7. Placed'
    BY <1>0, <1>r, <1>h, <2>1 DEF Placed, Known
  <2>8. Listed'
    <3> SUFFICES ASSUME NEW s \in Tasks, Working(s, "account")', NEW f \in 1 .. uploads',
                        Named(f)', Due(s, f)'
                 PROVE  f \in task'[s].base \cup excused'
      BY DEF Listed
    <3>1. Named(f) /\ f \in 1 .. uploads
      BY <1>0, <2>1 DEF Named
    <3>2. CASE s = t
      BY <2>1, <3>1, <3>2 DEF Due, Named
    <3>3. CASE s # t
      <4>1. Working(s, "account") /\ Due(s, f)
        BY <2>1, <3>3 DEF Working, Due
      <4>2. QED
        BY <1>r, <2>1, <3>1, <3>3, <4>1 DEF Listed
    <3>4. QED
      BY <3>2, <3>3
  <2>9. Explained'
    <3> SUFFICES ASSUME NEW f \in objects'
                 PROVE  Named(f)' \/ f \in excused' \/ f \in Carried'
      BY DEF Explained
    <3>1. CASE Named(f)
      BY <1>0, <1>r, <2>1, <3>1 DEF Named, Carried, Home, Placed, Known, Tuples, Rows, Owned
    <3>2. CASE f \in excused
      BY <2>1, <3>2
    <3>3. CASE f \in Carried
      BY <1>h, <2>1, <3>3 DEF Carried
    <3>4. QED
      BY <1>r, <2>1, <3>1, <3>2, <3>3 DEF Explained
  <2>10. QED
    BY <2>2, <2>3, <2>4, <2>5, <2>6, <2>7, <2>8, <2>9 DEF LeakInv
<1>11. ASSUME NEW t \in Tasks, NEW m \in Messages, DeleteMessage(t, m)
      PROVE  LeakInv'
  <2>1. /\ \A s \in Tasks \ {t} : task'[s] = task[s]
        /\ task[t].pc = "idle" /\ task'[t].pc = "delete"
        /\ task'[t].held = {} /\ files[m] \subseteq task'[t].trash \cup excused'
        /\ m \in alive /\ alive' = alive \ {m}
        /\ excused \subseteq excused'
        /\ UNCHANGED <<made, files, objects, uploads, origin, raced>>
    BY <1>11, <1>0 DEF DeleteMessage, Begin, Deleting, State, Tuples, database, bucket, history
  <2>2. Rests'
    BY <1>0, <1>r, <1>h, <2>1 DEF Rests
  <2>3. Sole'
    BY <1>0, <1>r, <1>h, <2>1 DEF Sole, Uploading, Tuples, Rows, Owned
  <2>4. ByOwner'
    BY <1>0, <1>r, <1>h, <2>1 DEF ByOwner, Working, Sorts, Tuples, Rows, Owned
  <2>5. ReadAll'
    BY <1>0, <1>r, <1>h, <2>1 DEF ReadAll, Sorts, Tuples, Rows, Owned
  <2>6. PostStays'
    BY <1>0, <1>r, <1>h, <2>1 DEF PostStays, Working, Sorts, Tuples, Rows, Owned
  <2>7. Placed'
    BY <1>0, <1>r, <1>h, <2>1 DEF Placed, Known
  <2>8. Listed'
    <3> SUFFICES ASSUME NEW s \in Tasks, Working(s, "account")', NEW f \in 1 .. uploads',
                        Named(f)', Due(s, f)'
                 PROVE  f \in task'[s].base \cup excused'
      BY DEF Listed
    <3>1. Working(s, "account") /\ Named(f) /\ Due(s, f) /\ task'[s] = task[s]
      BY <1>0, <1>r, <2>1 DEF Working, Named, Due, Home, Placed, Known, Tuples, Rows, Owned
    <3>2. QED
      BY <1>0, <1>r, <2>1, <3>1 DEF Listed
  <2>9. Explained'
    <3> SUFFICES ASSUME NEW f \in objects'
                 PROVE  Named(f)' \/ f \in excused' \/ f \in Carried'
      BY DEF Explained
    <3>1. CASE Named(f)
      BY <1>0, <1>r, <2>1, <3>1 DEF Named, Carried, Home, Placed, Known, Tuples, Rows, Owned
    <3>2. CASE f \in excused
      BY <2>1, <3>2
    <3>3. CASE f \in Carried
      BY <1>h, <2>1, <3>3 DEF Carried
    <3>4. QED
      BY <1>r, <2>1, <3>1, <3>2, <3>3 DEF Explained
  <2>10. QED
    BY <2>2, <2>3, <2>4, <2>5, <2>6, <2>7, <2>8, <2>9 DEF LeakInv
<1>12. ASSUME NEW t \in Tasks, NEW p \in Posts, DeletePost(t, p)
      PROVE  LeakInv'
  <2>1. /\ \A s \in Tasks \ {t} : task'[s] = task[s]
        /\ task[t].pc = "idle" /\ task'[t].pc = "delete"
        /\ task'[t].held = {} /\ task'[t].trash = files[p]
        /\ p \in alive /\ alive' = alive \ {p}
        /\ UNCHANGED <<made, files, objects, uploads, origin, raced, excused>>
    BY <1>12, <1>0 DEF DeletePost, Begin, Deleting, State, Tuples, database, bucket, history
  <2>2. Rests'
    BY <1>0, <1>r, <1>h, <2>1 DEF Rests
  <2>3. Sole'
    BY <1>0, <1>r, <1>h, <2>1 DEF Sole, Uploading, Tuples, Rows, Owned
  <2>4. ByOwner'
    BY <1>0, <1>r, <1>h, <2>1 DEF ByOwner, Working, Sorts, Tuples, Rows, Owned
  <2>5. ReadAll'
    BY <1>0, <1>r, <1>h, <2>1 DEF ReadAll, Sorts, Tuples, Rows, Owned
  <2>6. PostStays'
    BY <1>0, <1>r, <1>h, <2>1 DEF PostStays, Working, Sorts, Tuples, Rows, Owned
  <2>7. Placed'
    BY <1>0, <1>r, <1>h, <2>1 DEF Placed, Known
  <2>8. Listed'
    <3> SUFFICES ASSUME NEW s \in Tasks, Working(s, "account")', NEW f \in 1 .. uploads',
                        Named(f)', Due(s, f)'
                 PROVE  f \in task'[s].base \cup excused'
      BY DEF Listed
    <3>1. Working(s, "account") /\ Named(f) /\ Due(s, f) /\ task'[s] = task[s]
      BY <1>0, <1>r, <2>1 DEF Working, Named, Due, Home, Placed, Known, Tuples, Rows, Owned
    <3>2. QED
      BY <1>0, <1>r, <2>1, <3>1 DEF Listed
  <2>9. Explained'
    <3> SUFFICES ASSUME NEW f \in objects'
                 PROVE  Named(f)' \/ f \in excused' \/ f \in Carried'
      BY DEF Explained
    <3>1. CASE Named(f)
      BY <1>0, <1>r, <2>1, <3>1 DEF Named, Carried, Home, Placed, Known, Tuples, Rows, Owned
    <3>2. CASE f \in excused
      BY <2>1, <3>2
    <3>3. CASE f \in Carried
      BY <1>h, <2>1, <3>3 DEF Carried
    <3>4. QED
      BY <1>r, <2>1, <3>1, <3>2, <3>3 DEF Explained
  <2>10. QED
    BY <2>2, <2>3, <2>4, <2>5, <2>6, <2>7, <2>8, <2>9 DEF LeakInv
<1>13. ASSUME NEW t \in Tasks, Upload(t)
      PROVE  LeakInv'
  <2>1. /\ uploads + 1 \in Files /\ uploads + 1 \notin 1 .. uploads
        /\ uploads' = uploads + 1
        /\ Uploading(t)
        /\ \A s \in Tasks \ {t} : task'[s] = task[s]
        /\ task'[t].pc = "work"
        /\ task'[t].kind = task[t].kind /\ task'[t].user = task[t].user /\ task'[t].at = task[t].at
        /\ task'[t].base = task[t].base /\ task'[t].trash = task[t].trash
        /\ task'[t].held = task[t].held \cup {uploads + 1}
        /\ objects' = objects \cup {uploads + 1}
        /\ origin' = [origin EXCEPT ![uploads + 1] = [by |-> task[t].user, at |-> task[t].at]]
        /\ UNCHANGED <<made, alive, files, raced, excused>>
    BY <1>13, <1>0 DEF Upload, Files, Tuples, database, bucket, history
  <2>2. Rests'
    BY <1>0, <1>r, <2>1 DEF Rests, Uploading
  <2>3. Sole'
    BY <1>0, <1>r, <1>h, <2>1 DEF Sole, Uploading, Tuples, Rows, Owned
  <2>4. ByOwner'
    <3>1. \A s \in Tasks : \A f \in task[s].held : origin'[f] = origin[f]
      BY <1>0, <2>1 DEF Tuples
    <3>2. origin'[uploads + 1].by = task[t].user
      BY <1>0, <2>1
    <3>3. \A s \in Tasks : /\ task'[s].pc = task[s].pc /\ task'[s].kind = task[s].kind
                            /\ task'[s].user = task[s].user /\ task'[s].at = task[s].at
      BY <2>1 DEF Uploading
    <3>4. ASSUME NEW s \in Tasks, NEW f \in task'[s].held PROVE origin'[f].by = task[s].user
      <4>1. CASE f \in task[s].held
        BY <1>r, <3>1, <4>1 DEF ByOwner
      <4>2. CASE f \notin task[s].held
        BY <2>1, <3>2, <4>2
      <4>3. QED
        BY <4>1, <4>2
    <3>5. QED
      BY <1>r, <2>1, <3>3, <3>4 DEF ByOwner, Working
  <2>5. ReadAll'
    BY <1>r, <2>1 DEF ReadAll, Uploading
  <2>6. PostStays'
    BY <1>r, <2>1 DEF PostStays, Working, Uploading
  <2>7. Placed'
    <3>1. \A f \in 1 .. uploads' : f \in 1 .. uploads \/ f = uploads + 1
      BY <1>0, <2>1
    <3>2. \A f \in 1 .. uploads : origin'[f] = origin[f]
      BY <1>0, <2>1
    <3>3. origin'[uploads + 1].at \in Known
      BY <1>0, <2>1 DEF Known
    <3>4. QED
      BY <1>r, <2>1, <3>1, <3>2, <3>3 DEF Placed, Known
  <2>8. Listed'
    <3> SUFFICES ASSUME NEW s \in Tasks, Working(s, "account")', NEW f \in 1 .. uploads',
                        Named(f)', Due(s, f)'
                 PROVE  f \in task'[s].base \cup excused'
      BY DEF Listed
    <3>1. f \in 1 .. uploads /\ origin'[f] = origin[f]
      BY <1>0, <2>1 DEF Named
    <3>2. Working(s, "account") /\ Named(f) /\ Due(s, f) /\ task'[s] = task[s]
      BY <2>1, <3>1 DEF Working, Named, Due, Uploading
    <3>3. QED
      BY <1>r, <2>1, <3>1, <3>2 DEF Listed
  <2>9. Explained'
    <3> SUFFICES ASSUME NEW f \in objects'
                 PROVE  Named(f)' \/ f \in excused' \/ f \in Carried'
      BY DEF Explained
    <3>1. CASE f = uploads + 1
      BY <2>1, <3>1 DEF Carried
    <3>2. CASE f # uploads + 1
      <4>1. f \in objects /\ origin'[f] = origin[f]
        BY <1>0, <2>1, <3>2
      <4>2. Carried \subseteq Carried'
        BY <2>1 DEF Carried
      <4>3. QED
        BY <1>r, <2>1, <4>1, <4>2 DEF Explained, Named
    <3>3. QED
      BY <3>1, <3>2
  <2>10. QED
    BY <2>2, <2>3, <2>4, <2>5, <2>6, <2>7, <2>8, <2>9 DEF LeakInv
<1>14. ASSUME NEW t \in Tasks, UploadFails(t)
      PROVE  LeakInv'
  <2>1. /\ UNCHANGED <<alive, files, made, objects, uploads, origin, raced>>
        /\ excused \subseteq excused'
    BY <1>14 DEF UploadFails, database, bucket, history
  <2>2. /\ \A s \in Tasks \ {t} : task'[s] = task[s]
        /\ task'[t].pc = task[t].pc /\ task'[t].kind = task[t].kind
        /\ task'[t].user = task[t].user /\ task'[t].at = task[t].at
        /\ task'[t].base = task[t].base /\ task'[t].held = task[t].held
        /\ task'[t].trash = task[t].trash
        /\ task[t].kind # "account"
    BY <1>14, <1>0, <1>r DEF UploadFails, Uploading, Rests, Tuples, database, bucket, history
  <2>3. QED
    BY <2>1, <2>2, LeakQuiet
<1>15. ASSUME NEW t \in Tasks, Withdraw(t)
      PROVE  LeakInv'
  <2>1. /\ task[t].pc = "work"
        /\ \A s \in Tasks \ {t} : task'[s] = task[s]
        /\ task'[t].pc = "delete"
        /\ task'[t].held = {} /\ task'[t].trash = task[t].held
        /\ UNCHANGED <<made, alive, files, objects, uploads, origin, raced, excused>>
    BY <1>15, <1>0 DEF Withdraw, Tuples, database, bucket, history
  <2>2. Rests'
    BY <1>0, <1>r, <1>h, <2>1 DEF Rests
  <2>3. Sole'
    BY <1>0, <1>r, <1>h, <2>1 DEF Sole, Uploading, Tuples, Rows, Owned
  <2>4. ByOwner'
    BY <1>0, <1>r, <1>h, <2>1 DEF ByOwner, Working, Sorts, Tuples, Rows, Owned
  <2>5. ReadAll'
    BY <1>0, <1>r, <1>h, <2>1 DEF ReadAll, Sorts, Tuples, Rows, Owned
  <2>6. PostStays'
    BY <1>0, <1>r, <1>h, <2>1 DEF PostStays, Working, Sorts, Tuples, Rows, Owned
  <2>7. Placed'
    BY <1>0, <1>r, <1>h, <2>1 DEF Placed, Known
  <2>8. Listed'
    <3> SUFFICES ASSUME NEW s \in Tasks, Working(s, "account")', NEW f \in 1 .. uploads',
                        Named(f)', Due(s, f)'
                 PROVE  f \in task'[s].base \cup excused'
      BY DEF Listed
    <3>1. Working(s, "account") /\ Named(f) /\ Due(s, f) /\ task'[s] = task[s]
      BY <1>0, <1>r, <2>1 DEF Working, Named, Due, Home, Placed, Known, Tuples, Rows, Owned
    <3>2. QED
      BY <1>0, <1>r, <2>1, <3>1 DEF Listed
  <2>9. Explained'
    <3> SUFFICES ASSUME NEW f \in objects'
                 PROVE  Named(f)' \/ f \in excused' \/ f \in Carried'
      BY DEF Explained
    <3>1. CASE Named(f)
      BY <1>0, <1>r, <2>1, <3>1 DEF Named, Carried, Home, Placed, Known, Tuples, Rows, Owned
    <3>2. CASE f \in excused
      BY <2>1, <3>2
    <3>3. CASE f \in Carried
      BY <1>h, <2>1, <3>3 DEF Carried
    <3>4. QED
      BY <1>r, <2>1, <3>1, <3>2, <3>3 DEF Explained
  <2>10. QED
    BY <2>2, <2>3, <2>4, <2>5, <2>6, <2>7, <2>8, <2>9 DEF LeakInv
<1>16. ASSUME NEW t \in Tasks, Save(t)
      PROVE  LeakInv'
  <2>1. /\ Uploading(t) /\ ~Gone(t)
        /\ \A s \in Tasks \ {t} : task'[s] = task[s]
        /\ task'[t].pc = "delete" /\ task'[t].held = {}
        /\ task'[t].trash = IF task[t].kind = "picture" THEN task[t].base ELSE {}
        /\ files' = [files EXCEPT ![task[t].at] = SavedFiles(t)]
        /\ alive' = IF task[t].kind = "message" THEN alive \cup {task[t].at} ELSE alive
        /\ excused' = excused \cup LeftBehind(t)
        /\ UNCHANGED <<made, objects, uploads, origin, raced>>
    BY <1>16, <1>0 DEF Save, Tuples, database, bucket, history
  <2>2. Rests'
    BY <1>0, <1>r, <1>h, <2>1 DEF Rests
  <2>3. Sole'
    BY <1>0, <1>r, <1>h, <2>1 DEF Sole, Uploading, Tuples, Rows, Owned
  <2>4. ByOwner'
    <3> SUFFICES ASSUME NEW s \in Tasks, s # t
                 PROVE  /\ task[s].pc = "work" /\ task[s].kind \in {"message", "post"}
                             => task[s].user = Owner[task[s].at]
                        /\ Working(s, "message") => task[s].at \notin alive'
                        /\ \A f \in task[s].held : origin[f].by = task[s].user
      BY <2>1 DEF ByOwner, Working
    <3>1. Working(s, "message") /\ task[t].kind = "message" => task[s].at # task[t].at
      BY <1>r, <2>1 DEF Sole, Working, Uploading
    <3>2. QED
      BY <1>r, <2>1, <3>1 DEF ByOwner
  <2>5. ReadAll'
    <3> SUFFICES ASSUME NEW s \in Tasks, s # t, task[s].pc = "work",
                        task[s].kind \in {"picture", "post"}, task[s].at \notin raced
                 PROVE  files'[task[s].at] \subseteq task[s].base
      BY <2>1 DEF ReadAll
    <3>1. task[s].at # task[t].at
      <4>1. CASE task[t].kind = task[s].kind
        BY <1>r, <2>1, <4>1 DEF Sole, Uploading
      <4>2. CASE task[t].kind # task[s].kind
        <5>1. task[s].user \in Users /\ task[t].user \in Users
          BY <1>0 DEF Tuples
        <5>2. QED
          BY <1>r, <2>1, <4>2, <5>1 DEF Sorts, Uploading, Owned
      <4>3. QED
        BY <4>1, <4>2
    <3>2. QED
      BY <1>0, <1>r, <2>1, <3>1 DEF ReadAll
  <2>6. PostStays'
    <3> SUFFICES ASSUME NEW s \in Tasks, s # t, Working(s, "post"), task[s].at \in alive',
                        NEW f \in task[s].base
                 PROVE  f \in files'[task[s].at] \cup excused'
      BY <2>1 DEF PostStays, Working
    <3>1. task[s].at \in alive
      BY <1>0, <1>r, <2>1 DEF Sorts, Uploading, Working, Owned
    <3>2. f \in files[task[s].at] \cup excused
      BY <1>r, <3>1 DEF PostStays
    <3>3. CASE task[s].at = task[t].at
      <4>1. task[t].at \in raced /\ task[t].kind = "post"
        <5>1. task[t].user \in Users
          BY <1>0 DEF Tuples
        <5>2. task[t].kind = "post"
          BY <1>r, <2>1, <3>3, <5>1 DEF Sorts, Uploading, Working, Owned
        <5>3. QED
          BY <1>r, <2>1, <3>3, <5>2 DEF Sole, Uploading, Working
      <4>2. files[task[t].at] \ SavedFiles(t) \subseteq excused'
        BY <2>1, <4>1 DEF LeftBehind, SavedFiles
      <4>3. QED
        BY <1>0, <2>1, <3>2, <3>3, <4>2
    <3>4. CASE task[s].at # task[t].at
      BY <1>0, <2>1, <3>2, <3>4
    <3>5. QED
      BY <3>3, <3>4
  <2>7. Placed'
    BY <1>0, <1>r, <1>h, <2>1 DEF Placed, Known
  <2>8. Listed'
    <3> SUFFICES ASSUME NEW s \in Tasks, Working(s, "account")', NEW f \in 1 .. uploads',
                        Named(f)', Due(s, f)'
                 PROVE  f \in task'[s].base \cup excused'
      BY DEF Listed
    <3> DEFINE x == task[t].at
    <3>1. /\ s # t /\ task'[s] = task[s] /\ Working(s, "account") /\ Due(s, f)
          /\ f \in 1 .. uploads
      BY <2>1 DEF Working, Due
    <3>2. CASE Named(f)
      BY <1>r, <2>1, <3>1, <3>2 DEF Listed
    <3>3. CASE ~Named(f)
      <4>1. origin[f].at = x
        BY <1>0, <2>1, <3>3 DEF Named
      <4>2. f \in SavedFiles(t)
        BY <1>0, <2>1, <4>1 DEF Named
      <4>3. CASE f \in task[t].held
        <5>1. origin[f].by = task[t].user
          BY <1>r, <4>3 DEF ByOwner
        <5>2. /\ x \in Users => task[t].user = x
              /\ x \in Posts \cup Messages => task[t].user = Owner[x]
          BY <1>0, <1>r, <2>1 DEF Sorts, ByOwner, Uploading, Owned, Tuples
        <5>3. task[s].at \in Users
          BY <1>0, <1>r, <3>1 DEF Sorts, Working, Tuples
        <5>4. task[s].at = task[t].user /\ (task[s].left = 0 \/ x = task[t].user)
          BY <3>1, <4>1, <5>1, <5>2, <5>3 DEF Due
        <5>5. Unlisted(t)
          BY <3>1, <5>4 DEF Unlisted
        <5>6. QED
          BY <2>1, <4>3, <5>5 DEF LeftBehind
      <4>4. CASE task[t].kind = "post" /\ f \in task[t].base
        <5>1. f \in files[x] \cup excused /\ x \in alive
          BY <1>r, <2>1, <4>4 DEF PostStays, Working, Uploading, Gone
        <5>2. QED
          BY <2>1, <3>3, <4>1, <5>1 DEF Named
      <4>5. CASE task[t].kind = "album" /\ f \in files[x]
        BY <2>1, <3>3, <4>1, <4>5 DEF Named, Gone
      <4>6. QED
        BY <4>2, <4>3, <4>4, <4>5, SavedKnown
    <3>4. QED
      BY <3>2, <3>3
  <2>9. Explained'
    <3> SUFFICES ASSUME NEW f \in objects'
                 PROVE  Named(f)' \/ f \in excused' \/ f \in Carried'
      BY DEF Explained
    <3> DEFINE x == task[t].at
    <3>1. CASE Named(f) /\ origin[f].at # x
      BY <1>0, <2>1, <3>1 DEF Named
    <3>2. CASE Named(f) /\ origin[f].at = x
      <4>1. x \in alive /\ x \in alive' /\ f \in files[x]
        BY <2>1, <3>2 DEF Named
      <4>2. CASE f \in SavedFiles(t)
        BY <1>0, <2>1, <3>2, <4>1, <4>2 DEF Named
      <4>3. CASE f \notin SavedFiles(t) /\ x \in raced
        <5>1. f \notin task[t].base \/ task[t].kind = "picture"
          BY <1>r, <2>1, <4>1, <4>3 DEF SavedFiles, ByOwner, Working, Uploading
        <5>2. f \notin task[t].held
          BY <1>0, <1>r, <4>1 DEF HeldApart, Apart
        <5>3. CASE f \in task[t].base
          BY <2>1, <5>1, <5>3 DEF Carried
        <5>4. CASE f \notin task[t].base
          BY <2>1, <4>1, <4>3, <5>2, <5>4 DEF LeftBehind
        <5>5. QED
          BY <5>3, <5>4
      <4>4. CASE f \notin SavedFiles(t) /\ x \notin raced
        <5>1. task[t].kind \in {"picture", "post"} /\ task[t].pc = "work"
          BY <1>r, <2>1, <4>1, <4>4 DEF SavedFiles, ByOwner, Working, Uploading
        <5>2. f \in task[t].base
          BY <1>r, <4>1, <4>4, <5>1 DEF ReadAll
        <5>3. task[t].kind = "picture"
          BY <4>4, <5>1, <5>2 DEF SavedFiles
        <5>4. QED
          BY <2>1, <5>2, <5>3 DEF Carried
      <4>5. QED
        BY <4>2, <4>3, <4>4
    <3>3. CASE f \in excused
      BY <2>1, <3>3
    <3>4. CASE f \in Carried
      <4>1. CASE f \in task[t].held
        <5>1. origin[f].at = x /\ f \in SavedFiles(t)
          BY <1>r, <2>1, <4>1 DEF HeldApart, Apart, SavedFiles, Uploading
        <5>2. x \in alive' \/ (x \in Users /\ x \notin alive)
          <6>1. CASE task[t].kind = "picture"
            <7>1. task[t].user \in Users /\ (x = task[t].user \/ x = Chat)
              BY <1>0, <1>r, <2>1, <6>1 DEF Sorts, Uploading, Tuples
            <7>2. QED
              BY <2>1, <6>1, <7>1, NotGone
          <6>2. CASE task[t].kind \in {"message", "post", "album"}
            BY <2>1, <6>2, NotGone
          <6>3. QED
            BY <2>1, <6>1, <6>2 DEF Uploading
        <5>3. CASE x \in alive'
          BY <1>0, <2>1, <5>1, <5>3 DEF Named
        <5>4. CASE x \in Users /\ x \notin alive
          BY <2>1, <4>1, <5>4 DEF LeftBehind
        <5>5. QED
          BY <5>2, <5>3, <5>4
      <4>2. CASE f \notin task[t].held
        <5>1. task[t].trash = {}
          BY <1>h, <2>1 DEF Uploading
        <5>2. QED
          BY <2>1, <3>4, <4>2, <5>1 DEF Carried
      <4>3. QED
        BY <4>1, <4>2
    <3>5. QED
      BY <1>r, <2>1, <3>1, <3>2, <3>3, <3>4 DEF Explained
  <2>10. QED
    BY <2>2, <2>3, <2>4, <2>5, <2>6, <2>7, <2>8, <2>9 DEF LeakInv
<1>17. ASSUME NEW t \in Tasks, SaveFails(t)
      PROVE  LeakInv'
  <2>1. /\ UNCHANGED <<alive, files, made, objects, uploads, origin, raced>>
        /\ excused \subseteq excused'
    BY <1>17 DEF SaveFails, database, bucket, history
  <2>2. /\ \A s \in Tasks \ {t} : task'[s] = task[s]
        /\ task'[t].pc = "idle" /\ task'[t].held = {} /\ task'[t].trash = {}
        /\ task[t].held \cup task[t].trash \subseteq excused'
    BY <1>17, <1>0, <1>r, IdleFacts DEF SaveFails, Uploading, Rests,
           Tuples, database, bucket, history
  <2>3. QED
    BY <2>1, <2>2, LeakQuiet
<1>18. ASSUME NEW t \in Tasks, Drop(t)
      PROVE  LeakInv'
  <2>1. /\ task[t].pc = "work" /\ task[t].kind = "drop"
        /\ \A s \in Tasks \ {t} : task'[s] = task[s]
        /\ task'[t].pc = "delete"
        /\ task'[t].held = task[t].held /\ task'[t].trash = task[t].base
        /\ files' = [files EXCEPT ![task[t].at] = @ \ task[t].base]
        /\ UNCHANGED <<made, alive, objects, uploads, origin, raced, excused>>
    BY <1>18, <1>0 DEF Drop, Working, Tuples, database, bucket, history
  <2>2. Rests'
    BY <1>0, <1>r, <1>h, <2>1 DEF Rests
  <2>3. Sole'
    BY <1>0, <1>r, <1>h, <2>1 DEF Sole, Uploading, Tuples, Rows, Owned
  <2>4. ByOwner'
    BY <1>0, <1>r, <1>h, <2>1 DEF ByOwner, Working, Sorts, Tuples, Rows, Owned
  <2>5. ReadAll'
    BY <1>0, <1>r, <1>h, <2>1 DEF ReadAll, Sorts, Tuples, Rows, Owned
  <2>6. PostStays'
    <3> SUFFICES ASSUME NEW s \in Tasks, s # t, Working(s, "post"), task[s].at \in alive
                 PROVE  task[s].base \subseteq files'[task[s].at] \cup excused
      BY <2>1 DEF PostStays, Working
    <3>1. task[s].at # task[t].at /\ task[s].at \in Rows
      BY <1>0, <1>r, <2>1 DEF Sorts, Working, Owned
    <3>2. files'[task[s].at] = files[task[s].at]
      BY <1>0, <2>1, <3>1
    <3>3. QED
      BY <1>r, <3>2 DEF PostStays
  <2>7. Placed'
    BY <1>0, <1>r, <1>h, <2>1 DEF Placed, Known
  <2>8. Listed'
    <3> SUFFICES ASSUME NEW s \in Tasks, Working(s, "account")', NEW f \in 1 .. uploads',
                        Named(f)', Due(s, f)'
                 PROVE  f \in task'[s].base \cup excused'
      BY DEF Listed
    <3>1. Working(s, "account") /\ Named(f) /\ Due(s, f) /\ task'[s] = task[s]
      BY <1>0, <1>r, <2>1 DEF Working, Named, Due, Home, Placed, Known, Tuples, Rows, Owned
    <3>2. QED
      BY <1>0, <1>r, <2>1, <3>1 DEF Listed
  <2>9. Explained'
    <3> SUFFICES ASSUME NEW f \in objects'
                 PROVE  Named(f)' \/ f \in excused' \/ f \in Carried'
      BY DEF Explained
    <3>1. CASE Named(f)
      BY <1>0, <1>r, <2>1, <3>1 DEF Named, Carried, Home, Placed, Known, Tuples, Rows, Owned
    <3>2. CASE f \in excused
      BY <2>1, <3>2
    <3>3. CASE f \in Carried
      BY <1>h, <2>1, <3>3 DEF Carried
    <3>4. QED
      BY <1>r, <2>1, <3>1, <3>2, <3>3 DEF Explained
  <2>10. QED
    BY <2>2, <2>3, <2>4, <2>5, <2>6, <2>7, <2>8, <2>9 DEF LeakInv
<1>19. ASSUME NEW t \in Tasks, ListOrphaned(t)
      PROVE  LeakInv'
  <2>1. /\ task[t].pc = "work" /\ task[t].kind = "account"
        /\ \A s \in Tasks \ {t} : task'[s] = task[s]
        /\ task'[t].pc = "work" /\ task'[t].kind = "account" /\ task'[t].at = task[t].at
        /\ task'[t].user = task[t].user
        /\ task'[t].base = task[t].base \cup Orphaned(task[t].at)
        /\ task'[t].held = task[t].held /\ task'[t].trash = task[t].trash
        /\ UNCHANGED <<made, alive, files, objects, uploads, origin, raced, excused>>
    BY <1>19, <1>0 DEF ListOrphaned, Working, Tuples, database, bucket, history
  <2>2. Rests'
    BY <1>0, <1>r, <1>h, <2>1 DEF Rests
  <2>3. Sole'
    BY <1>0, <1>r, <1>h, <2>1 DEF Sole, Uploading, Tuples, Rows, Owned
  <2>4. ByOwner'
    BY <1>0, <1>r, <1>h, <2>1 DEF ByOwner, Working, Sorts, Tuples, Rows, Owned
  <2>5. ReadAll'
    BY <1>0, <1>r, <1>h, <2>1 DEF ReadAll, Sorts, Tuples, Rows, Owned
  <2>6. PostStays'
    BY <1>0, <1>r, <1>h, <2>1 DEF PostStays, Working, Sorts, Tuples, Rows, Owned
  <2>7. Placed'
    BY <1>0, <1>r, <1>h, <2>1 DEF Placed, Known
  <2>8. Listed'
    <3> SUFFICES ASSUME NEW s \in Tasks, Working(s, "account")', NEW f \in 1 .. uploads',
                        Named(f)', Due(s, f)'
                 PROVE  f \in task'[s].base \cup excused'
      BY DEF Listed
    <3>1. /\ Named(f) /\ f \in 1 .. uploads /\ Working(s, "account") /\ task'[s].at = task[s].at
          /\ task[s].base \subseteq task'[s].base
      BY <1>0, <2>1 DEF Named, Working
    <3>2. CASE Due(s, f)
      BY <1>r, <2>1, <3>1, <3>2 DEF Listed
    <3>3. CASE ~Due(s, f)
      <4> DEFINE x == origin[f].at
                 u == task[t].at
      <4>1. s = t
        BY <2>1, <3>3 DEF Due
      <4>2. /\ x \in alive /\ f \in files[x]
            /\ \/ x \in Posts /\ Owner[x] = u
               \/ x \in Messages /\ Type[x] # "file" /\ Owner[x] = u
               \/ x \in Albums /\ origin[f].by = u
        BY <2>1, <3>1, <3>3, <4>1 DEF Due, Named
      <4>3. f \in Orphaned(u)
        BY <4>2, DueIsOrphaned
      <4>4. QED
        BY <2>1, <4>1, <4>3
    <3>4. QED
      BY <3>2, <3>3
  <2>9. Explained'
    <3> SUFFICES ASSUME NEW f \in objects'
                 PROVE  Named(f)' \/ f \in excused' \/ f \in Carried'
      BY DEF Explained
    <3>1. CASE Named(f)
      BY <1>0, <1>r, <2>1, <3>1 DEF Named, Carried, Home, Placed, Known, Tuples, Rows, Owned
    <3>2. CASE f \in excused
      BY <2>1, <3>2
    <3>3. CASE f \in Carried
      BY <1>h, <2>1, <3>3 DEF Carried
    <3>4. QED
      BY <1>r, <2>1, <3>1, <3>2, <3>3 DEF Explained
  <2>10. QED
    BY <2>2, <2>3, <2>4, <2>5, <2>6, <2>7, <2>8, <2>9 DEF LeakInv
<1>20. ASSUME NEW t \in Tasks, DeleteAccount(t)
      PROVE  LeakInv'
  <2>1. /\ task[t].pc = "work" /\ task[t].kind = "account" /\ task[t].left = 0
        /\ \A s \in Tasks \ {t} : task'[s] = task[s]
        /\ task'[t].pc = "delete" /\ task'[t].held = task[t].held /\ task'[t].trash = task[t].base
        /\ alive' = alive \ ({task[t].at} \cup RowsOf(task[t].at) \cup
                        IF alive \cap Users \subseteq {task[t].at} THEN {Chat} ELSE {})
        /\ files' = [x \in Rows |->
                       IF x \in Albums THEN files[x] \ MaterialsOf(task[t].at) ELSE files[x]]
        /\ excused' = excused \cup Documents(task[t].at)
                    \cup FilesOf(IF alive \cap Users \subseteq {task[t].at} THEN {Chat} ELSE {})
                    \cup (FilesOf(RowsOf(task[t].at) \cap Albums) \ MaterialsOf(task[t].at))
        /\ UNCHANGED <<made, objects, uploads, origin, raced>>
    BY <1>20, <1>0 DEF DeleteAccount, Working, Tuples, database, bucket, history
  <2>2. Rests'
    BY <1>0, <1>r, <1>h, <2>1 DEF Rests
  <2>3. Sole'
    BY <1>0, <1>r, <1>h, <2>1 DEF Sole, Uploading, Tuples, Rows, Owned
  <2>4. ByOwner'
    BY <1>0, <1>r, <1>h, <2>1 DEF ByOwner, Working, Sorts, Tuples, Rows, Owned
  <2>5. ReadAll'
    BY <1>0, <1>r, <1>h, <2>1 DEF ReadAll, Sorts, Tuples, Rows, Owned
  <2>6. PostStays'
    BY <1>0, <1>r, <1>h, <2>1 DEF PostStays, Working, Sorts, Tuples, Rows, Owned
  <2>7. Placed'
    BY <1>0, <1>r, <1>h, <2>1 DEF Placed, Known
  <2>8. Listed'
    <3> SUFFICES ASSUME NEW s \in Tasks, Working(s, "account")', NEW f \in 1 .. uploads',
                        Named(f)', Due(s, f)'
                 PROVE  f \in task'[s].base \cup excused'
      BY DEF Listed
    <3>1. /\ Working(s, "account") /\ Due(s, f) /\ task'[s] = task[s] /\ f \in 1 .. uploads
          /\ Named(f)
      BY <1>0, <2>1 DEF Working, Named, Due
    <3>2. QED
      BY <1>r, <2>1, <3>1 DEF Listed
  <2>9. Explained'
    <3> SUFFICES ASSUME NEW f \in objects'
                 PROVE  Named(f)' \/ f \in excused' \/ f \in Carried'
      BY DEF Explained
    <3> DEFINE u == task[t].at
               x == origin[f].at
    <3>1. CASE Named(f)
      <4>1. f \in 1 .. uploads /\ x \in alive /\ f \in files[x] /\ x \in Rows
        BY <1>0, <2>1, <3>1 DEF Named
      <4>2. CASE Due(t, f)
        <5>1. f \in task[t].base \cup excused
          BY <1>r, <2>1, <3>1, <4>1, <4>2 DEF Listed, Working
        <5>2. QED
          BY <2>1, <5>1 DEF Carried
      <4>3. CASE ~Due(t, f)
        <5>1. x # u /\ (x \in Albums => origin[f].by # u)
          BY <2>1, <4>3 DEF Due
        <5>2. f \in files'[x]
          BY <2>1, <4>1, <5>1 DEF MaterialsOf
        <5>3. CASE x \in alive'
          BY <2>1, <5>2, <5>3 DEF Named
        <5>4. CASE x = Chat /\ x \notin alive'
          BY <2>1, <4>1, <5>1, <5>4 DEF FilesOf, RowsOf
        <5>5. CASE x \in RowsOf(u)
          <6>1. x \in Owned /\ Owner[x] = u /\ x \in alive
            BY <5>5 DEF RowsOf
          <6>2. x \in Albums \/ (x \in Messages /\ Type[x] = "file")
            BY <2>1, <4>3, <6>1 DEF Due, Owned
          <6>3. CASE x \in Albums
            <7>1. f \in FilesOf(RowsOf(u) \cap Albums)
              BY <4>1, <5>5, <6>3 DEF FilesOf
            <7>2. f \notin MaterialsOf(u)
              BY <5>1, <6>3 DEF MaterialsOf
            <7>3. QED
              BY <2>1, <7>1, <7>2
          <6>4. CASE x \in Messages /\ Type[x] = "file"
            BY <2>1, <4>1, <5>5, <6>4 DEF Documents, FilesOf
          <6>5. QED
            BY <6>2, <6>3, <6>4
        <5>6. QED
          BY <2>1, <4>1, <5>1, <5>3, <5>4, <5>5
      <4>4. QED
        BY <4>2, <4>3
    <3>2. CASE f \in excused
      BY <2>1, <3>2
    <3>3. CASE f \in Carried
      BY <1>h, <2>1, <3>3 DEF Carried
    <3>4. QED
      BY <1>r, <2>1, <3>1, <3>2, <3>3 DEF Explained
  <2>10. QED
    BY <2>2, <2>3, <2>4, <2>5, <2>6, <2>7, <2>8, <2>9 DEF LeakInv
<1>21. ASSUME NEW t \in Tasks, NEW g \in Files, Remove(t, g)
      PROVE  LeakInv'
  <2>1. /\ task[t].pc = "delete" /\ g \in task[t].trash
        /\ \A s \in Tasks \ {t} : task'[s] = task[s]
        /\ task'[t].pc = "delete" /\ task'[t].held = task[t].held
        /\ task'[t].trash = task[t].trash \ {g}
        /\ objects' = objects \ {g}
        /\ UNCHANGED <<made, alive, files, uploads, origin, raced, excused>>
    BY <1>21, <1>0 DEF Remove, Tuples, database, bucket, history
  <2>2. Rests'
    BY <1>0, <1>r, <1>h, <2>1 DEF Rests
  <2>3. Sole'
    BY <1>0, <1>r, <1>h, <2>1 DEF Sole, Uploading, Tuples, Rows, Owned
  <2>4. ByOwner'
    BY <1>0, <1>r, <1>h, <2>1 DEF ByOwner, Working, Sorts, Tuples, Rows, Owned
  <2>5. ReadAll'
    BY <1>0, <1>r, <1>h, <2>1 DEF ReadAll, Sorts, Tuples, Rows, Owned
  <2>6. PostStays'
    BY <1>0, <1>r, <1>h, <2>1 DEF PostStays, Working, Sorts, Tuples, Rows, Owned
  <2>7. Placed'
    BY <1>0, <1>r, <1>h, <2>1 DEF Placed, Known
  <2>8. Listed'
    <3> SUFFICES ASSUME NEW s \in Tasks, Working(s, "account")', NEW f \in 1 .. uploads',
                        Named(f)', Due(s, f)'
                 PROVE  f \in task'[s].base \cup excused'
      BY DEF Listed
    <3>1. Working(s, "account") /\ Named(f) /\ Due(s, f) /\ task'[s] = task[s]
      BY <1>0, <1>r, <2>1 DEF Working, Named, Due, Home, Placed, Known, Tuples, Rows, Owned
    <3>2. QED
      BY <1>0, <1>r, <2>1, <3>1 DEF Listed
  <2>9. Explained'
    <3> SUFFICES ASSUME NEW f \in objects'
                 PROVE  Named(f)' \/ f \in excused' \/ f \in Carried'
      BY DEF Explained
    <3>1. CASE Named(f)
      BY <1>0, <1>r, <2>1, <3>1 DEF Named, Carried, Home, Placed, Known, Tuples, Rows, Owned
    <3>2. CASE f \in excused
      BY <2>1, <3>2
    <3>3. CASE f \in Carried
      BY <1>h, <2>1, <3>3 DEF Carried
    <3>4. QED
      BY <1>r, <2>1, <3>1, <3>2, <3>3 DEF Explained
  <2>10. QED
    BY <2>2, <2>3, <2>4, <2>5, <2>6, <2>7, <2>8, <2>9 DEF LeakInv
<1>22. ASSUME NEW t \in Tasks, NEW f \in Files, RemoveRefused(t, f)
      PROVE  LeakInv'
  <2>1. /\ UNCHANGED <<alive, files, made, objects, uploads, origin, raced>>
        /\ excused \subseteq excused'
    BY <1>22 DEF RemoveRefused, database, bucket, history
  <2>2. /\ \A s \in Tasks \ {t} : task'[s] = task[s]
        /\ task'[t].pc = task[t].pc /\ task'[t].kind = task[t].kind
        /\ task'[t].user = task[t].user /\ task'[t].at = task[t].at
        /\ task'[t].base = task[t].base /\ task'[t].held = task[t].held
        /\ task'[t].left = task[t].left
        /\ task'[t].trash = task[t].trash \ {f} /\ f \in excused'
    BY <1>22, <1>0, <1>r DEF RemoveRefused, Uploading, Rests, Tuples, database, bucket, history
  <2>3. QED
    BY <2>1, <2>2, LeakQuiet
<1>23. ASSUME NEW t \in Tasks, RemoveRaises(t)
      PROVE  LeakInv'
  <2>1. /\ UNCHANGED <<alive, files, made, objects, uploads, origin, raced>>
        /\ excused \subseteq excused'
    BY <1>23 DEF RemoveRaises, HeldApart, Apart, database, bucket, history
  <2>2. /\ \A s \in Tasks \ {t} : task'[s] = task[s]
        /\ task'[t].pc = "idle" /\ task'[t].held = {} /\ task'[t].trash = {}
        /\ task[t].held \cup task[t].trash \subseteq excused'
    BY <1>23, <1>0, <1>r, IdleFacts DEF RemoveRaises, HeldApart, Apart, Uploading, Rests,
           Tuples, database, bucket, history
  <2>3. QED
    BY <2>1, <2>2, LeakQuiet
<1>24. ASSUME NEW t \in Tasks, End(t)
      PROVE  LeakInv'
  <2>1. /\ UNCHANGED <<alive, files, made, objects, uploads, origin, raced>>
        /\ excused \subseteq excused'
    BY <1>24 DEF End, HeldApart, Apart, database, bucket, history
  <2>2. /\ \A s \in Tasks \ {t} : task'[s] = task[s]
        /\ task'[t].pc = "idle" /\ task'[t].held = {} /\ task'[t].trash = {}
        /\ task[t].held \cup task[t].trash \subseteq excused'
    BY <1>24, <1>0, <1>r, IdleFacts DEF End, HeldApart, Apart, Uploading, Rests,
           Tuples, database, bucket, history
  <2>3. QED
    BY <2>1, <2>2, LeakQuiet
<1>25. ASSUME Crash
      PROVE  LeakInv'
  <2>1. /\ UNCHANGED <<alive, files, made, objects, uploads, origin, raced>>
        /\ excused \subseteq excused'
    BY <1>25 DEF Crash, database, bucket, history
  <2>2. \A t \in Tasks : /\ task'[t].pc = "idle" /\ task'[t].held = {} /\ task'[t].trash = {}
                        /\ task[t].held \cup task[t].trash \subseteq excused'
    BY <1>25, <1>0, IdleFacts DEF Crash, Carried
  <2>3. QED
    BY <2>1, <2>2, LeakQuiet
<1>26. CASE UNCHANGED vars
  BY <1>26, LeakQuiet DEF vars, database, bucket, history
<1>27. QED
  BY <1>1, <1>2, <1>3, <1>4, <1>5, <1>6, <1>7, <1>8, <1>9, <1>10, <1>11, <1>12, <1>13,
     <1>14, <1>15, <1>16, <1>17, <1>18, <1>19, <1>20, <1>21, <1>22, <1>23, <1>24, <1>25,
     <1>26
     DEF Next, RowStep, Start, Delete, Continue

\* The second invariant holds of the initial state.
THEOREM LeakInit == Init => LeakInv
  <1> SUFFICES ASSUME Init PROVE LeakInv
    OBVIOUS
  <1>1. \A t \in Tasks : task[t] = Idle
    BY DEF Init
  <1>2. Rests /\ Sole /\ ByOwner /\ ReadAll /\ PostStays /\ Placed /\ Listed
    BY <1>1, IdleFacts DEF Init, Rests, Sole, ByOwner, ReadAll, PostStays, Placed,
           Listed, Working, Uploading
  <1>3. Explained
    BY DEF Init, Explained
  <1>4. QED
    BY <1>2, <1>3 DEF LeakInv

\* A file stays in the bucket that no row names and no request carries only for one
\* of the known reasons: a failure, a row that went away under an upload,
\* overlapping uploads, a document, or what an account deletion does not list.
THEOREM LeaksAreExplainedHolds == Spec => []LeaksAreExplained
  <1>1. TypeOK /\ LeakInv => LeaksAreExplained
    BY ExplainedMeans DEF LeakInv
  <1>2. Spec => []LeakInv
    BY TypeInit, TypeStep, InvInit, InvStep, LeakInit, LeakStep, PTL DEF Spec
  <1>3. QED
    BY <1>1, <1>2, TypeCorrect, PTL
=============================================================================
