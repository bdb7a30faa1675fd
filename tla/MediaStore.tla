----------------------------- MODULE MediaStore -----------------------------
(***************************************************************************)
(* Files and the rows that name them: pictures of users and of a chat,     *)
(* attachments of messages, media of posts, materials of albums, and the   *)
(* deletion of any of these and of a whole account.  A file lies in the    *)
(* bucket (src/src/s3/service.py), its address in a row of the database;   *)
(* a request that touches both does so in steps, with an await between any *)
(* two of them, and other requests run meanwhile.                          *)
(*                                                                         *)
(* A row is named by its id, and ids are drawn at random, so that it does  *)
(* no harm to let the id tell whose row it will be (Owner) and, for a      *)
(* message, of which type (Type).  All users are in the one chat.  A       *)
(* transaction is one step, at its commit, except where the code has read  *)
(* in it before an await.  What is deleted from a table keeps its value in *)
(* `files': clients may still show it.                                     *)
(***************************************************************************)
EXTENDS Naturals, FiniteSets

CONSTANTS Users, Chat, Posts, Albums, Messages,
          Owner,           \* who creates each post, album and message
          Type,            \* "image" (or audio), "video" or "file" (document)
          Tasks,           \* requests in flight at a time
          MaxBatch,        \* files of one upload to a post or an album
          MaxFiles,        \* bound: files ever uploaded
          MaxRequests,     \* bound: requests ever begun, but for those on rows only
          MaxFaults        \* bound: failures of bucket, database and server

Owned == Posts \cup Albums \cup Messages
Rows == Users \cup {Chat} \cup Owned
Files == 1 .. MaxFiles

ASSUME OwnerAssumption == Owner \in [Owned -> Users]
ASSUME TypeAssumption == Type \in [Messages -> {"image", "video", "file"}]
ASSUME BoundsAssumption ==
  MaxBatch \in Nat /\ MaxFiles \in Nat /\ MaxRequests \in Nat /\ MaxFaults \in Nat
ASSUME RowsAssumption ==
  /\ Users # {}
  /\ Users \cap ({Chat} \cup Owned) = {} /\ Chat \notin Owned
  /\ Posts \cap (Albums \cup Messages) = {} /\ Albums \cap Messages = {}

VARIABLES alive,           \* rows that are in their tables
          files,           \* files named by each row
          members,         \* album_members
          objects,         \* what is in the bucket
          uploads,         \* number of keys drawn
          origin,          \* of each file: who uploaded it, for which row
          task,            \* requests between two steps
          requests, faults,
          made,            \* ids drawn
          shared,          \* history: files that a forwarded message names too
          raced,           \* history: rows to which two uploads overlapped
          stored,          \* history: files that finished uploads put into a post
          excused          \* history: files left behind for one of the known reasons

database == <<alive, files, members, made>>
bucket == <<objects, uploads, origin>>
history == <<shared, raced, stored, excused>>
bounds == <<requests, faults>>
vars == <<database, bucket, task, bounds, history>>

\* A request: what it is about (kind, user, at), the files it read when it began
\* (base), what it has uploaded (held) and still has to (left), whether an upload
\* failed (broken), and what it is deleting (trash).
Kinds == {"picture", "message", "post", "album", "drop", "account"}
State(p, k, u, x, b, n, fs) ==
  [pc |-> p, kind |-> k, user |-> u, at |-> x, base |-> b, held |-> {},
   left |-> n, broken |-> FALSE, trash |-> fs]
Request(k, u, x, b, n) == State("work", k, u, x, b, n, {})
Deleting(k, u, x, fs) == State("delete", k, u, x, {}, 0, fs)
Idle == State("idle", "picture", CHOOSE u \in Users : TRUE, Chat, {}, 0, {})

NoOrigin == [by |-> CHOOSE u \in Users : TRUE, at |-> Chat]

Known == Users \cup {Chat} \cup made

TypeOK ==
  /\ alive \subseteq Rows /\ made \subseteq Owned
  /\ alive \cap Owned \subseteq made
  /\ files \in [Rows -> SUBSET (1 .. uploads)]
  /\ members \in [Albums -> SUBSET Users]
  /\ objects \subseteq 1 .. uploads /\ uploads \in 0 .. MaxFiles
  /\ origin \in [Files -> [by : Users, at : Rows]]
  /\ task \in [Tasks -> [pc : {"idle", "work", "delete"}, kind : Kinds, user : Users,
                         at : Rows, base : SUBSET (1 .. uploads),
                         held : SUBSET (1 .. uploads), left : Nat,
                         broken : BOOLEAN, trash : SUBSET (1 .. uploads)]]
  /\ \A t \in Tasks : task[t].at \in Known
  /\ requests \in 0 .. MaxRequests /\ faults \in 0 .. MaxFaults
  /\ shared \subseteq 1 .. uploads /\ stored \subseteq 1 .. uploads
  /\ excused \subseteq 1 .. uploads /\ raced \subseteq Rows

Init ==
  /\ alive = Users \cup {Chat} /\ made = {}
  /\ files = [x \in Rows |-> {}]
  /\ members = [a \in Albums |-> {}]
  /\ objects = {} /\ uploads = 0
  /\ origin = [f \in Files |-> NoOrigin]
  /\ task = [t \in Tasks |-> Idle]
  /\ requests = 0 /\ faults = 0
  /\ shared = {} /\ raced = {} /\ stored = {} /\ excused = {}

FilesOf(S) == UNION {files[x] : x \in S}
Referenced == FilesOf(alive)
Carried == UNION {task[t].held \cup task[t].trash : t \in Tasks}
Working(t, k) == task[t].pc = "work" /\ task[t].kind = k
Uploading(t) == task[t].pc = "work" /\ task[t].kind \in {"picture", "message", "post", "album"}
Fault == faults < MaxFaults /\ faults' = faults + 1 /\ UNCHANGED requests

(***************************************************************************)
(* Requests that touch rows only.                                          *)
(***************************************************************************)
Create(u, x) ==
  /\ u \in alive /\ x \in (Posts \cup Albums) \ made /\ Owner[x] = u
  /\ alive' = alive \cup {x} /\ made' = made \cup {x}
  /\ members' = IF x \in Albums THEN [members EXCEPT ![x] = {u}] ELSE members
  /\ UNCHANGED <<files, bucket, task, bounds, history>>

AddMember(a, u) ==
  /\ a \in alive /\ u \in alive
  /\ members' = [members EXCEPT ![a] = @ \cup {u}]
  /\ UNCHANGED <<alive, files, made, bucket, task, bounds, history>>

RemoveMember(a, u) ==
  /\ a \in alive /\ u # Owner[a]
  /\ members' = [members EXCEPT ![a] = @ \ {u}]
  /\ UNCHANGED <<alive, files, made, bucket, task, bounds, history>>

\* forward_message: the address is copied, not the file.  The forwarding client
\* may show a message (from) that is no longer there.
Forward(u, from, m) ==
  /\ u \in alive /\ Chat \in alive
  /\ from \in Messages /\ files[from] # {}
  /\ m \in Messages \ made /\ Owner[m] = u /\ Type[m] = Type[from]
  /\ alive' = alive \cup {m} /\ made' = made \cup {m}
  /\ files' = [files EXCEPT ![m] = files[from]]
  /\ shared' = shared \cup files[from]
  /\ UNCHANGED <<members, bucket, task, bounds, raced, stored, excused>>

(***************************************************************************)
(* Uploads.  A request begins with the checks and with what it reads, puts *)
(* its files into the bucket, and then names them in a row.                *)
(***************************************************************************)
Begin(t, r) ==
  /\ task[t].pc = "idle" /\ requests < MaxRequests
  /\ task' = [task EXCEPT ![t] = r] /\ requests' = requests + 1 /\ UNCHANGED faults

Overlapping(k, x) == \E s \in Tasks : Working(s, k) /\ task[s].at = x
Race(k, x) == raced' = IF Overlapping(k, x) THEN raced \cup {x} ELSE raced

StartPicture(t, u, x) ==
  /\ u \in alive /\ x \in {u, Chat}
  /\ Begin(t, Request("picture", u, x, files[x], 1))
  /\ Race("picture", x)
  /\ UNCHANGED <<database, bucket, shared, stored, excused>>

StartMessage(t, u, m) ==
  /\ u \in alive /\ m \in Messages \ made /\ Owner[m] = u
  /\ Begin(t, Request("message", u, m, {}, IF Type[m] = "video" THEN 2 ELSE 1))
  /\ made' = made \cup {m}
  /\ UNCHANGED <<alive, files, members, bucket, history>>

\* The media that get_by_id reads here are what the session keeps of the post.
StartPost(t, u, p, n) ==
  /\ u \in alive /\ p \in Posts \cap alive /\ Owner[p] = u
  /\ Begin(t, Request("post", u, p, files[p], n))
  /\ Race("post", p)
  /\ UNCHANGED <<database, bucket, shared, stored, excused>>

StartAlbum(t, u, a, n) ==
  /\ u \in alive /\ a \in alive /\ u \in members[a]
  /\ Begin(t, Request("album", u, a, {}, n))
  /\ UNCHANGED <<database, bucket, history>>

Upload(t) ==
  LET f == uploads + 1 IN
  /\ Uploading(t) /\ task[t].left > 0
  /\ uploads < MaxFiles
  /\ uploads' = f /\ objects' = objects \cup {f}
  /\ origin' = [origin EXCEPT ![f] = [by |-> task[t].user, at |-> task[t].at]]
  /\ task' = [task EXCEPT ![t].held = @ \cup {f}, ![t].left = @ - 1]
  /\ UNCHANGED <<database, bounds, history>>

\* Fault: a preview that could not be uploaded is counted twice.
UploadFailsTwice(t) ==
  /\ Uploading(t) /\ task[t].left > 0
  /\ Fault
  /\ task' = [task EXCEPT ![t].left = @ - 2,
       ![t].broken = @ \/ task[t].kind # "message" \/ task[t].held = {}]
  /\ UNCHANGED <<database, bucket, history>>

\* Without its main file a message is not sent and its preview not uploaded; a
\* preview may be missing.  The other files of a batch are uploaded all the same.
UploadFails(t) ==
  /\ Uploading(t) /\ task[t].left > 0
  /\ Fault
  /\ task' = [task EXCEPT
       ![t].left = IF task[t].kind = "message" THEN 0 ELSE @ - 1,
       ![t].broken = @ \/ task[t].kind # "message" \/ task[t].held = {}]
  /\ UNCHANGED <<database, bucket, history>>

\* A batch that failed takes its files back.
Withdraw(t) ==
  /\ task[t].pc = "work" /\ task[t].left = 0 /\ task[t].broken
  /\ task' = [task EXCEPT ![t].pc = "delete", ![t].trash = task[t].held, ![t].held = {}]
  /\ UNCHANGED <<database, bucket, bounds, history>>

\* An account deletion has read already what this upload is about to change: the
\* picture with the user, everything else later.
Unlisted(t) ==
  \E s \in Tasks :
    /\ Working(s, "account") /\ task[s].at = task[t].user
    /\ task[s].left = 0 \/ task[t].at = task[t].user

\* The row that an upload names is not there any more.
Gone(t) ==
  CASE task[t].kind = "picture" -> task[t].at = Chat /\ Chat \notin alive
    [] task[t].kind = "message" -> task[t].user \notin alive \/ Chat \notin alive
    [] task[t].kind = "post" -> task[t].at \notin alive
    [] task[t].kind = "album" -> task[t].at \notin alive \/ task[t].user \notin alive
    [] OTHER -> FALSE

\* Fault: the post is given the new files in place of those it had.
SavedFilesAlone(t) ==
  IF task[t].kind = "album" THEN files[task[t].at] \cup task[t].held ELSE task[t].held

\* What add_media makes of the post: its session does not read the row again
\* although it locks it.
SavedFiles(t) ==
  CASE task[t].kind = "post" -> task[t].base \cup task[t].held
    [] task[t].kind = "album" -> files[task[t].at] \cup task[t].held
    [] OTHER -> task[t].held

\* What no row will name afterwards, and this request does not delete.
LeftBehind(t) ==
  LET x == task[t].at IN
  (IF x \in raced THEN files[x] \ (task[t].base \cup task[t].held) ELSE {})
    \cup (IF Unlisted(t) \/ (x \in Users /\ x \notin alive)
          THEN task[t].held ELSE {})

\* The insert or update of an upload, and its commit.
Save(t) ==
  LET x == task[t].at IN
  /\ Uploading(t) /\ task[t].left = 0 /\ ~task[t].broken /\ ~Gone(t)
  /\ files' = [files EXCEPT ![x] = SavedFiles(t)]
  /\ alive' = IF task[t].kind = "message" THEN alive \cup {x} ELSE alive
  /\ task' = [task EXCEPT ![t].pc = "delete", ![t].held = {},
                ![t].trash = IF task[t].kind = "picture" THEN task[t].base ELSE {}]
  /\ stored' = IF task[t].kind = "post" THEN stored \cup task[t].held ELSE stored
  /\ excused' = excused \cup LeftBehind(t)
  /\ UNCHANGED <<members, made, bucket, bounds, shared, raced>>

\* Fault: the previous picture is deleted although the new one was not saved.
SaveFailsAfterRemoval(t) ==
  /\ task[t].pc = "work" /\ task[t].left = 0 /\ ~task[t].broken
  /\ IF Gone(t) THEN UNCHANGED bounds ELSE Fault
  /\ task' = [task EXCEPT ![t].pc = "delete", ![t].held = {},
                ![t].trash = IF task[t].kind = "picture" THEN task[t].base ELSE {}]
  /\ excused' = excused \cup task[t].held
  /\ UNCHANGED <<database, bucket, shared, raced, stored>>

\* The row is gone, or the database fails: nothing is saved, and nobody takes the
\* files back.
SaveFails(t) ==
  /\ task[t].pc = "work" /\ task[t].left = 0 /\ ~task[t].broken
  /\ IF Gone(t) THEN UNCHANGED bounds ELSE Fault
  /\ task' = [task EXCEPT ![t] = Idle]
  /\ excused' = excused \cup task[t].held
  /\ UNCHANGED <<database, bucket, shared, raced, stored>>

(***************************************************************************)
(* Deletions.  Rows first, in one transaction, then the files.             *)
(***************************************************************************)

\* Fault: the preview of a video is forgotten.
DeleteMessageAlone(t, m) ==
  /\ m \in Messages \cap alive /\ Owner[m] \in alive
  /\ alive' = alive \ {m}
  /\ Begin(t, Deleting("message", Owner[m], m,
       IF Type[m] = "file" THEN {} ELSE {f \in files[m] : \A g \in files[m] : f <= g}))
  /\ excused' = IF Type[m] = "file" THEN excused \cup files[m] ELSE excused
  /\ UNCHANGED <<files, members, made, bucket, shared, raced, stored>>

\* delete_message and delete_post: the statement that deletes the row returns what
\* it named.  The file of a document stays.
DeleteMessage(t, m) ==
  /\ m \in Messages \cap alive /\ Owner[m] \in alive
  /\ alive' = alive \ {m}
  /\ Begin(t, Deleting("message", Owner[m], m, IF Type[m] = "file" THEN {} ELSE files[m]))
  /\ excused' = IF Type[m] = "file" THEN excused \cup files[m] ELSE excused
  /\ UNCHANGED <<files, members, made, bucket, shared, raced, stored>>

DeletePost(t, p) ==
  /\ p \in Posts \cap alive /\ Owner[p] \in alive
  /\ alive' = alive \ {p}
  /\ Begin(t, Deleting("post", Owner[p], p, files[p]))
  /\ UNCHANGED <<files, members, made, bucket, history>>

\* delete_material reads the material before it deletes it.
StartDrop(t, u, a, f) ==
  /\ u \in alive /\ a \in alive /\ u \in members[a]
  /\ f \in files[a] /\ u \in {origin[f].by, Owner[a]}
  /\ Begin(t, Request("drop", u, a, {f}, 0))
  /\ UNCHANGED <<database, bucket, history>>

Drop(t) ==
  /\ Working(t, "drop")
  /\ files' = [files EXCEPT ![task[t].at] = @ \ task[t].base]
  /\ task' = [task EXCEPT ![t].pc = "delete", ![t].trash = task[t].base]
  /\ UNCHANGED <<alive, members, made, bucket, bounds, history>>

\* delete_account: the picture as read with the user, the password, then what the
\* user's rows name.
StartAccount(t, u) ==
  /\ u \in alive \cap Users
  /\ Begin(t, Request("account", u, u, files[u], 1))
  /\ UNCHANGED <<database, bucket, history>>

RowsOf(u) == {x \in alive \cap Owned : Owner[x] = u}
MaterialsOf(u) == {f \in FilesOf(alive \cap Albums) : origin[f].by = u}
Documents(u) == FilesOf({m \in RowsOf(u) \cap Messages : Type[m] = "file"})

Orphaned(u) ==
  MaterialsOf(u)
    \cup FilesOf({x \in RowsOf(u) \ Albums : x \in Messages => Type[x] # "file"})

ListOrphaned(t) ==
  /\ Working(t, "account") /\ task[t].left = 1
  /\ task' = [task EXCEPT ![t].base = @ \cup Orphaned(task[t].at), ![t].left = 0]
  /\ UNCHANGED <<database, bucket, bounds, history>>

\* Albums of the user go with the materials of others, a chat that is left empty
\* with its picture.
DeleteAccount(t) ==
  LET u == task[t].at
      empty == IF alive \cap Users \subseteq {u} THEN {Chat} ELSE {} IN
  /\ Working(t, "account") /\ task[t].left = 0
  /\ alive' = alive \ ({u} \cup RowsOf(u) \cup empty)
  /\ files' = [x \in Rows |-> IF x \in Albums THEN files[x] \ MaterialsOf(u) ELSE files[x]]
  /\ members' = [a \in Albums |-> members[a] \ {u}]
  /\ task' = [task EXCEPT ![t].pc = "delete", ![t].trash = task[t].base]
  /\ excused' = excused \cup Documents(u) \cup FilesOf(empty)
                  \cup (FilesOf(RowsOf(u) \cap Albums) \ MaterialsOf(u))
  /\ UNCHANGED <<made, bucket, bounds, shared, raced, stored>>

(***************************************************************************)
(* The end of a request: it deletes files one by one.                      *)
(***************************************************************************)
Remove(t, f) ==
  /\ task[t].pc = "delete" /\ f \in task[t].trash
  /\ objects' = objects \ {f}
  /\ task' = [task EXCEPT ![t].trash = @ \ {f}]
  /\ UNCHANGED <<database, uploads, origin, bounds, history>>

\* The bucket refuses (a ClientError): delete_file logs it and goes on.
RemoveRefused(t, f) ==
  /\ task[t].pc = "delete" /\ f \in task[t].trash /\ Fault
  /\ task' = [task EXCEPT ![t].trash = @ \ {f}]
  /\ excused' = excused \cup {f}
  /\ UNCHANGED <<database, bucket, shared, raced, stored>>

\* The bucket cannot be reached (no ClientError): the request ends there.
RemoveRaises(t) ==
  /\ task[t].pc = "delete" /\ task[t].trash # {} /\ Fault
  /\ task' = [task EXCEPT ![t] = Idle]
  /\ excused' = excused \cup task[t].trash
  /\ UNCHANGED <<database, bucket, shared, raced, stored>>

End(t) ==
  /\ task[t].pc = "delete" /\ task[t].trash = {}
  /\ task' = [task EXCEPT ![t] = Idle]
  /\ UNCHANGED <<database, bucket, bounds, history>>

\* The server restarts.
Crash ==
  /\ Fault
  /\ task' = [t \in Tasks |-> Idle]
  /\ excused' = excused \cup Carried
  /\ UNCHANGED <<database, bucket, shared, raced, stored>>

RowStep ==
  \E u \in Users :
    \/ \E x \in Posts \cup Albums : Create(u, x)
    \/ \E a \in Albums : AddMember(a, u) \/ RemoveMember(a, u)
    \/ \E m, from \in Messages : Forward(u, from, m)

Start(t) ==
  \E u \in Users :
    \/ \E x \in {u, Chat} : StartPicture(t, u, x)
    \/ \E m \in Messages : StartMessage(t, u, m)
    \/ \E p \in Posts, n \in 1 .. MaxBatch : StartPost(t, u, p, n)
    \/ \E a \in Albums, n \in 1 .. MaxBatch : StartAlbum(t, u, a, n)
    \/ \E a \in Albums, f \in Files : StartDrop(t, u, a, f)
    \/ StartAccount(t, u)

Delete(t) == (\E m \in Messages : DeleteMessage(t, m)) \/ (\E p \in Posts : DeletePost(t, p))

Continue(t) ==
  \/ Upload(t) \/ UploadFails(t) \/ Withdraw(t) \/ Save(t) \/ SaveFails(t)
  \/ Drop(t) \/ ListOrphaned(t) \/ DeleteAccount(t)
  \/ \E f \in Files : Remove(t, f) \/ RemoveRefused(t, f)
  \/ RemoveRaises(t) \/ End(t)

Next == RowStep \/ (\E t \in Tasks : Start(t) \/ Delete(t) \/ Continue(t)) \/ Crash

Spec == Init /\ [][Next]_vars

(***************************************************************************)
(* Properties.                                                             *)
(***************************************************************************)

\* A row names a file that is not in the bucket only if a forwarded message names
\* the file too: the steps of uploads, replacements, deletions and failures in
\* any order never take a file from a row that still names it.
DanglingOnlyIfShared == Referenced \subseteq objects \cup shared

\* A file stays in the bucket without a row and without a request that is about
\* it only for one of the reasons `excused' collects: a failure, a row that went
\* away, overlapping uploads, a document, somebody else's material in an album
\* or the picture of a chat that went with an account.
LeaksAreExplained == objects \subseteq Referenced \cup excused \cup Carried

\* What a finished upload put into a post stays there as long as the post does,
\* unless two uploads to the post overlapped.
LostOnlyIfRaced ==
  \A f \in stored : LET p == origin[f].at IN
    p \in alive => f \in files[p] \/ p \in raced
=============================================================================
