------------------------------- MODULE NewPost -------------------------------
(***************************************************************************)
(* CreatePostModal.tsx: a post is published in two calls, the text first   *)
(* and its files then, and the window can be closed in between.            *)
(***************************************************************************)
EXTENDS Naturals

CONSTANT MaxPosts          \* bound of the posts published

MaxPostsAssumption == MaxPosts \in Nat

VARIABLES modal, submit, published,
          raced               \* history: an upload failed, an answer was lost, or the app
                              \* was killed between the calls

vars == <<modal, submit, published, raced>>

NoSubmit == [pc |-> "idle", modal |-> 0, media |-> FALSE]

Init == modal = 0 /\ submit = NoSubmit /\ published = <<0, 0>> /\ raced = FALSE

\* published counts the posts of the server without and with their files.
Open ==
  /\ modal = 0 /\ published[1] + published[2] < MaxPosts
  /\ modal' = IF submit.modal = 1 THEN 2 ELSE 1
  /\ UNCHANGED <<submit, published, raced>>

\* The window can be closed while it publishes; one publishes at a time here.
Close ==
  /\ modal # 0 /\ modal' = 0
  /\ UNCHANGED <<submit, published, raced>>

Submit(media) ==
  /\ modal # 0 /\ submit.pc = "idle"
  /\ published[1] + published[2] < MaxPosts
  /\ submit' = [pc |-> "create", modal |-> modal, media |-> media]
  /\ UNCHANGED <<modal, published, raced>>

\* Fault: the files are forgotten.
FaultCreated ==
  /\ submit.pc = "create"
  /\ published' = IF submit.media THEN [published EXCEPT ![1] = @ + 1]
                                  ELSE [published EXCEPT ![2] = @ + 1]
  /\ submit' = [submit EXCEPT !.pc = "over"]
  /\ UNCHANGED <<modal, raced>>

Created ==
  /\ submit.pc = "create"
  /\ published' = IF submit.media THEN [published EXCEPT ![1] = @ + 1]
                                  ELSE [published EXCEPT ![2] = @ + 1]
  /\ submit' = [submit EXCEPT !.pc = IF submit.media THEN "upload" ELSE "over"]
  /\ UNCHANGED <<modal, raced>>

Uploaded ==
  /\ submit.pc = "upload"
  /\ published' = <<published[1] - 1, published[2] + 1>>
  /\ submit' = [submit EXCEPT !.pc = "over"]
  /\ UNCHANGED <<modal, raced>>

\* onCreate closes whatever window is open by then.
Over ==
  /\ submit.pc = "over"
  /\ modal' = 0 /\ submit' = NoSubmit
  /\ UNCHANGED <<published, raced>>

\* What the server makes of a call whose answer nobody hears.
Outcomes ==
  {published} \cup
  IF submit.pc = "upload" THEN {<<published[1] - 1, published[2] + 1>>}
                          ELSE {[published EXCEPT ![IF submit.media THEN 1 ELSE 2] = @ + 1]}

Unanswered ==
  /\ submit.pc \in {"create", "upload"}
  /\ submit' = NoSubmit /\ published' \in Outcomes
  /\ raced' = (raced \/ submit.pc = "upload" \/ published'[1] # published[1])

\* "Could not publish", and the window stays to try it again: so does a post whose
\* files did not follow, or whose creation went unheard.
SubmitFails == Unanswered /\ UNCHANGED modal

\* The app is killed: nothing remembers that files were to follow.
Killed == Unanswered /\ modal' = 0

Next == \/ Open \/ Close \/ \E media \in BOOLEAN : Submit(media)
        \/ Created \/ Uploaded \/ Over \/ SubmitFails \/ Killed

Spec == Init /\ [][Next]_vars

------------------------------------------------------------------------------
TypeOK ==
  /\ modal \in 0 .. 2 /\ published \in (0 .. MaxPosts) \X (0 .. MaxPosts)
  /\ submit \in [pc : {"idle", "create", "upload", "over"}, modal : 0 .. 2, media : BOOLEAN]
  /\ raced \in BOOLEAN

\* A post stands without its files only while they are sent, unless an upload
\* failed, an answer was lost or the app was killed between the two calls.
FilesFollow == ~raced /\ submit.pc # "upload" => published[1] = 0
==============================================================================
