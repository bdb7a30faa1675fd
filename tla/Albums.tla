------------------------------- MODULE Albums -------------------------------
(***************************************************************************)
(* AlbumsList.tsx and AlbumGallery.tsx: the list of albums and the grid of *)
(* one of them, which is loaded again after every change made from it.  In *)
(* a wide window the grid stays while the album changes.  One user; what   *)
(* withCache does with a saved answer is DataCache.                        *)
(***************************************************************************)
EXTENDS FiniteSets

CONSTANTS Names,       \* albums
          Materials,   \* photos and videos
          Loads,       \* loads under way at a time
          None

AlbumsAssumption == None \notin Names

VARIABLES albums, mats,        \* the server: the albums and what is in them
          listed, sheet,       \* the list; the window of a new album
          album, shown,        \* the grid: its album, what it shows
          load,                \* requests for the materials
          mode, selected,      \* select mode
          press, fired,        \* the long press; longPressFired
          delete, upload,      \* a deletion and an upload under way
          raced                \* history: the grid may be wrong

vars == <<albums, mats, listed, sheet, album, shown, load, mode, selected, press, fired,
          delete, upload, raced>>

NoLoad == [pc |-> "idle", album |-> None, rows |-> {}]
NoDelete == [pc |-> "idle", album |-> None, todo |-> {}]
NoUpload == [album |-> None, files |-> {}]
Idle == {l \in Loads : load[l].pc = "idle"}

Init ==
  /\ albums \in SUBSET Names /\ mats = [a \in Names |-> {}]
  /\ listed = albums /\ sheet = [open |-> FALSE, creating |-> FALSE]
  /\ album = None /\ shown = {} /\ load = [l \in Loads |-> NoLoad]
  /\ mode = FALSE /\ selected = {} /\ press = {} /\ fired = FALSE
  /\ delete = NoDelete /\ upload = NoUpload /\ raced = FALSE

list == <<albums, listed, sheet>>
marks == <<mode, selected, press, fired>>
work == <<delete, upload>>

------------------------------------------------------------------------------
OpenSheet == /\ ~sheet.open /\ sheet' = [sheet EXCEPT !.open = TRUE]
             /\ UNCHANGED <<albums, listed, mats, album, shown, load, marks, work, raced>>

CloseSheet == /\ sheet.open /\ sheet' = [sheet EXCEPT !.open = FALSE]
              /\ UNCHANGED <<albums, listed, mats, album, shown, load, marks, work, raced>>

Create == /\ sheet.open /\ ~sheet.creating /\ sheet' = [sheet EXCEPT !.creating = TRUE]
          /\ UNCHANGED <<albums, listed, mats, album, shown, load, marks, work, raced>>

\* The answer closes the window that is open by then, and has the list loaded.
Created ==
  /\ sheet.creating /\ sheet' = [open |-> FALSE, creating |-> FALSE]
  /\ \E a \in Names \ albums : albums' = albums \cup {a}
  /\ listed' \in {albums', listed}
  /\ UNCHANGED <<mats, album, shown, load, marks, work, raced>>

CreateFails ==
  /\ sheet.creating /\ sheet' = [sheet EXCEPT !.creating = FALSE]
  /\ UNCHANGED <<albums, listed, mats, album, shown, load, marks, work, raced>>

------------------------------------------------------------------------------
\* Loads of one album end in any order; the last answer stays.
Overlaps == \E l \in Loads : load[l].pc # "idle"

StartLoad(a) ==
  \E l \in Idle : load' = [load EXCEPT ![l] = [NoLoad EXCEPT !.pc = "asked", !.album = a]]

\* Fault: the choice made in another album stays.
FaultSelectAlbum(a) ==
  /\ a \in listed \ {album} /\ album' = a
  /\ shown' = {}
  /\ StartLoad(a)
  /\ raced' = (raced \/ Overlaps \/ delete.pc = "deleting" \/ upload # NoUpload \/ press # {})
  /\ UNCHANGED <<mats, list, marks, work>>

\* The effect on albumId clears the grid and loads; what runs for the album before
\* still ends in this grid.
SelectAlbum(a) ==
  /\ a \in listed \ {album} /\ album' = a
  /\ shown' = {} /\ mode' = FALSE /\ selected' = {}
  /\ StartLoad(a)
  /\ raced' = (raced \/ Overlaps \/ delete.pc = "deleting" \/ upload # NoUpload \/ press # {})
  /\ UNCHANGED <<mats, list, press, fired, work>>

Served(l) ==
  /\ load[l].pc = "asked"
  /\ load' = [load EXCEPT ![l].pc = "served", ![l].rows = mats[load[l].album]]
  /\ UNCHANGED <<mats, list, album, shown, marks, work, raced>>

\* What is marked now and will be when the deletion under way is over.
Kept == IF delete.pc = "deleting" THEN {} ELSE selected

Shown(l) ==
  /\ load[l].pc = "served"
  /\ shown' = load[l].rows
  /\ load' = [load EXCEPT ![l] = NoLoad]
  /\ raced' = (raced \/ load[l].rows # mats[album] \/ load[l].album # album
                   \/ (shown \ load[l].rows) \cap (press \cup Kept) # {})
  /\ UNCHANGED <<mats, list, album, marks, work>>

\* No network: the saved answer stays.
LoadFails(l) ==
  /\ load[l].pc # "idle"
  /\ load' = [load EXCEPT ![l] = NoLoad]
  /\ raced' = TRUE
  /\ UNCHANGED <<mats, list, album, shown, marks, work>>

------------------------------------------------------------------------------
Toggled(m) == (selected \ {m}) \cup ({m} \ selected)

Touch(m) == /\ press = {} /\ m \in shown
            /\ press' = {m} /\ fired' = FALSE
            /\ UNCHANGED <<mats, list, album, shown, load, mode, selected, work, raced>>

\* 450 ms without a move turn the selection on.
LongPress ==
  /\ press # {} /\ press' = {} /\ fired' = TRUE
  /\ mode' = TRUE
  /\ \E m \in press : selected' = Toggled(m)
  /\ UNCHANGED <<mats, list, album, shown, load, work, raced>>

TouchEnds == /\ press # {} /\ press' = {}
             /\ UNCHANGED <<mats, list, album, shown, load, mode, selected, fired, work, raced>>

\* The click that ends a long press is dropped; outside select mode it opens the
\* photo.
Click(m) ==
  /\ m \in shown /\ fired' = FALSE
  /\ selected' = IF mode /\ ~fired THEN Toggled(m) ELSE selected
  /\ UNCHANGED <<mats, list, album, shown, load, mode, press, work, raced>>

\* By the cross, or at the end of downloadSelected.
LeaveSelect == /\ mode /\ mode' = FALSE /\ selected' = {}
               /\ UNCHANGED <<mats, list, album, shown, load, press, fired, work, raced>>

\* deleteSelected asks first; what is deleted is what was marked when asked.
AskDelete ==
  /\ mode /\ selected # {} /\ delete.pc = "idle"
  /\ delete' = [pc |-> "ask", album |-> album, todo |-> selected \cap shown]
  /\ UNCHANGED <<mats, list, album, shown, load, marks, upload, raced>>

Answer(yes) ==
  /\ delete.pc = "ask"
  /\ delete' = IF yes THEN [delete EXCEPT !.pc = "deleting"] ELSE NoDelete
  /\ UNCHANGED <<mats, list, album, shown, load, marks, upload, raced>>

\* One by one; a refused one does not stop the others.
DeleteOne(m, taken) ==
  /\ delete.pc = "deleting" /\ m \in delete.todo
  /\ delete' = [delete EXCEPT !.todo = @ \ {m}]
  /\ mats' = IF taken THEN [mats EXCEPT ![delete.album] = @ \ {m}] ELSE mats
  /\ UNCHANGED <<list, album, shown, load, marks, upload, raced>>

\* Then the grid is loaded again and the selection dropped, with all it got since.
DeleteOver ==
  /\ delete.pc = "deleting" /\ delete.todo = {}
  /\ delete' = NoDelete /\ mode' = FALSE /\ selected' = {}
  /\ StartLoad(delete.album)
  /\ raced' = (raced \/ Overlaps \/ delete.album # album)
  /\ UNCHANGED <<mats, list, album, shown, press, fired, upload>>

Upload(files) ==
  /\ album # None /\ upload = NoUpload /\ ~mode /\ files # {}
  /\ upload' = [album |-> album, files |-> files]
  /\ UNCHANGED <<mats, list, album, shown, load, marks, delete, raced>>

\* Every file or none (AlbumsService.upload_materials).
Uploaded ==
  /\ upload # NoUpload /\ upload' = NoUpload
  /\ mats' = [mats EXCEPT ![upload.album] = @ \cup upload.files]
  /\ StartLoad(upload.album)
  /\ raced' = (raced \/ Overlaps \/ upload.album # album)
  /\ UNCHANGED <<list, album, shown, marks, delete>>

UploadFails ==
  /\ upload # NoUpload /\ upload' = NoUpload
  /\ \E taken \in SUBSET upload.files :
       /\ taken \in {{}, upload.files}
       /\ mats' = [mats EXCEPT ![upload.album] = @ \cup taken]
       /\ raced' = (raced \/ taken # {})
  /\ UNCHANGED <<list, album, shown, load, marks, delete>>

Unused == Materials \ UNION {mats[a] : a \in Names}

Next ==
  \/ OpenSheet \/ CloseSheet \/ Create \/ Created \/ CreateFails
  \/ \E a \in Names : SelectAlbum(a)
  \/ \E l \in Loads : Served(l) \/ Shown(l) \/ LoadFails(l)
  \/ \E m \in Materials : Touch(m) \/ Click(m) \/ \E taken \in BOOLEAN : DeleteOne(m, taken)
  \/ LongPress \/ TouchEnds \/ LeaveSelect \/ AskDelete \/ DeleteOver
  \/ \E yes \in BOOLEAN : Answer(yes)
  \/ \E files \in SUBSET Unused : Upload(files)
  \/ Uploaded \/ UploadFails

Spec == Init /\ [][Next]_vars

------------------------------------------------------------------------------
TypeOK ==
  /\ albums \subseteq Names /\ listed \subseteq albums /\ mats \in [Names -> SUBSET Materials]
  /\ sheet \in [open : BOOLEAN, creating : BOOLEAN] /\ album \in Names \cup {None}
  /\ {shown, selected, press} \subseteq SUBSET Materials /\ {mode, fired, raced} \subseteq BOOLEAN
  /\ load \in [Loads -> [pc : {"idle", "asked", "served"}, album : Names \cup {None},
                         rows : SUBSET Materials]]
  /\ delete \in [pc : {"idle", "ask", "deleting"}, album : Names \cup {None}, todo : SUBSET Materials]
  /\ upload \in [album : Names \cup {None}, files : SUBSET Materials]

\* When nothing is on its way the grid shows what is in the album, what is marked
\* is of this album and only while one selects: unless the album was left while
\* something of it was under way, an older answer came last, one was lost, or a
\* finger marked a photo that was going.
GridIsTheAlbum ==
  ~raced /\ album # None =>
    /\ selected # {} => mode
    /\ ~Overlaps /\ delete.pc # "deleting" => shown = mats[album] /\ selected \subseteq shown
==============================================================================
