------------------------------ MODULE MCClient ------------------------------
(***************************************************************************)
(* The parts of the client that share no state, side by side: a behaviour  *)
(* chooses one of them at its start and is a behaviour of that part.  The  *)
(* variables v1, v2, ... stand for those of the chosen part, in the order  *)
(* its module declares them; the ones it does not need stay 0.             *)
(***************************************************************************)
EXTENDS Sequences, Naturals, FiniteSets, TLC

CONSTANTS X, Y, None,      \* two values each, for whatever there are two of
          Cap, MaxLive,    \* pictures kept on the device; object URLs
          Page, PostsPage, \* messages and posts of an answer
          Limit,           \* comments of an answer
          \* bounds: of the changes on the server, of the days of the two caches
          \* and of the batches that wait, of the pairs generated, of what is
          \* posted, sent and recorded, of the posts, the texts typed and the
          \* posts published
          MaxVersion, DataDays, MediaDays, MaxQueue, MaxPairs,
          MaxMessages, MaxSends, MaxPresses, MaxPosts, MaxTexts, MaxNew

VARIABLES part, v1, v2, v3, v4, v5, v6, v7, v8, v9, v10, v11, v12, v13, v14

vars == <<part, v1, v2, v3, v4, v5, v6, v7, v8, v9, v10, v11, v12, v13, v14>>

Data == INSTANCE DataCache WITH
  Keys <- X, Calls <- Y, MaxDay <- DataDays,
  version <- v1, entry <- v2, about <- v3, shown <- v4, call <- v5,
  clearing <- v6, day <- v7, newest <- v8, raced <- v9

Media == INSTANCE MediaCache WITH
  Keys <- X, MaxDay <- MediaDays,
  file <- v1, index <- v2, touched <- v3, pending <- v4, timer <- v5,
  pass <- v6, queue <- v7, sweep <- v8, clear <- v9, live <- v10, load <- v11,
  writing <- v12, day <- v13, raced <- v14

Pairs == INSTANCE KeyPairs WITH
  Devices <- X, Tasks <- Y,
  pub <- v1, backup <- v2, priv <- v3, publ <- v4, mem <- v5, task <- v6,
  made <- v7, tripped <- v8

Talk == INSTANCE Conversation WITH
  posted <- v1, gone <- v2, list <- v3, hasMore <- v4, hist <- v5, more <- v6,
  up <- v7, queue <- v8, opening <- v9, sent <- v10, outbox <- v11,
  deleting <- v12, cause <- v13, pending <- v14

Field == INSTANCE Composer WITH
  Chats <- X, NoChat <- None,
  chat <- v1, menu <- v2, reply <- v3, touch <- v4, draft <- v5, send <- v6,
  forward <- v7, upload <- v8, sheet <- v9, mic <- v10, press <- v11,
  ref <- v12, sound <- v13, spoilt <- v14

Gallery == INSTANCE Albums WITH
  Names <- X, Materials <- Y, Loads <- Y,
  albums <- v1, mats <- v2, listed <- v3, sheet <- v4, album <- v5,
  shown <- v6, load <- v7, mode <- v8, selected <- v9, press <- v10,
  fired <- v11, delete <- v12, upload <- v13, raced <- v14

Posts == INSTANCE Feed WITH
  Loads <- X, Page <- PostsPage, Words <- {None, "w"}, NoWord <- None,
  feed <- v1, query <- v2, timer <- v3, posts <- v4, offset <- v5,
  hasMore <- v6, loading <- v7, load <- v8, saved <- v9, shown <- v10,
  raced <- v11

Card == INSTANCE PostCard WITH
  Taps <- X,
  marked <- v1, saved <- v2, card <- v3, tap <- v4, raced <- v5

Thread == INSTANCE PostThread WITH
  lives <- v1, comments <- v2, mine <- v3, posting <- v4, removing <- v5,
  thread <- v6, page <- v7, shown <- v8, draft <- v9, typed <- v10,
  quote <- v11, sending <- v12, waiting <- v13, raced <- v14

Form == INSTANCE NewPost WITH
  MaxPosts <- MaxNew,
  modal <- v1, submit <- v2, published <- v3, raced <- v4

ASSUME PartsAssumption ==
  /\ Data!BoundsAssumption /\ Media!BoundsAssumption
  /\ Pairs!MaxPairsAssumption /\ Talk!ConversationAssumption
  /\ Field!ComposerAssumption /\ Gallery!AlbumsAssumption
  /\ Posts!BoundsAssumption /\ Thread!PostThreadAssumption /\ Form!MaxPostsAssumption

\* The variables behind the n-th, which a part of n variables does not need.
After11 == <<v12, v13, v14>>
After9 == <<v10, v11, v12, v13, v14>>
After8 == <<v9, v10, v11, v12, v13, v14>>
After5 == <<v6, v7, v8, v9, v10, v11, v12, v13, v14>>
After4 == <<v5, v6, v7, v8, v9, v10, v11, v12, v13, v14>>

Zero11 == v12 = 0 /\ v13 = 0 /\ v14 = 0
Zero9 == v10 = 0 /\ v11 = 0 /\ Zero11
Zero5 == v6 = 0 /\ v7 = 0 /\ v8 = 0 /\ v9 = 0 /\ Zero9

Init ==
  \/ part = "data" /\ Data!Init /\ Zero9
  \/ part = "media" /\ Media!Init
  \/ part = "pairs" /\ Pairs!Init /\ v9 = 0 /\ Zero9
  \/ part = "talk" /\ Talk!Init
  \/ part = "field" /\ Field!Init
  \/ part = "gallery" /\ Gallery!Init
  \/ part = "posts" /\ Posts!Init /\ Zero11
  \/ part = "card" /\ Card!Init /\ Zero5
  \/ part = "thread" /\ Thread!Init
  \/ part = "form" /\ Form!Init /\ v5 = 0 /\ Zero5

Step ==
  \/ part = "data" /\ Data!Next /\ UNCHANGED After9
  \/ part = "media" /\ Media!Next
  \/ part = "pairs" /\ Pairs!Next /\ UNCHANGED After8
  \/ part = "talk" /\ Talk!Next
  \/ part = "field" /\ Field!Next
  \/ part = "gallery" /\ Gallery!Next
  \/ part = "posts" /\ Posts!Next /\ UNCHANGED After11
  \/ part = "card" /\ Card!Next /\ UNCHANGED After5
  \/ part = "thread" /\ Thread!Next
  \/ part = "form" /\ Form!Next /\ UNCHANGED After4

Next == UNCHANGED part /\ Step

Spec == Init /\ [][Next]_vars

Symmetric == Permutations(X) \cup Permutations(Y)

\* Where an excuse of the part's property has happened, the property says
\* nothing any more: those states are not explored further.
Unraced ==
  /\ part = "data" => ~v9
  /\ part \in {"media", "gallery", "thread"} => ~v14
  /\ part = "talk" => v13 = "none"
  /\ part = "posts" /\ v11 => Len(v4) <= 2 /\ \E l \in X : v8[l].pc = "idle"

\* Bound: of the pictures, one is downloaded or written at a time.
OneDownload == part = "media" => Cardinality({k \in X : v11[k] = "net"} \cup v12) <= 1

------------------------------------------------------------------------------
\* The types of the part.
TypeOK ==
  CASE part = "data" -> Data!TypeOK
    [] part = "media" -> Media!TypeOK
    [] part = "pairs" -> Pairs!TypeOK
    [] part = "talk" -> Talk!TypeOK
    [] part = "field" -> Field!TypeOK
    [] part = "gallery" -> Gallery!TypeOK
    [] part = "posts" -> Posts!TypeOK
    [] part = "card" -> Card!TypeOK
    [] part = "thread" -> Thread!TypeOK
    [] part = "form" -> Form!TypeOK

\* dataCache.ts: while one load runs at a time and the device saves, the screen
\* shows what it is about, never goes back from the server's answer to an older
\* saved one, and nothing stays on the device once it was cleared.
ShownIsRight == part = "data" => Data!ShownIsRight

\* mediaCache.ts: outside the overlaps the module names, the index that the limit
\* is kept by lists every file that no pass has still to list and no file that is
\* gone; and it never lists more than the limit.
Accounted == part = "media" => Media!Accounted

\* setupCrypto of App.tsx: as long as every set-up ran alone and to its end, all
\* devices work with the pair the server publishes and keeps the backup of.
OnePairUnlessTripped == part = "pairs" => Pairs!OnePairUnlessTripped

\* App.tsx and ChatView.tsx: when nothing is on its way, the list has each of the
\* newest messages once, none of the deleted ones and no gap, and the button for
\* older ones is there unless it has them all; Conversation names what breaks it.
NoneTwiceNoneMissing == part = "talk" => Talk!NoneTwiceNoneMissing

\* ChatView.tsx: the quote and the menu are of the chat on the screen, and a
\* microphone that is on is the one the screen can stop.
NothingLeftBehind == part = "field" => Field!NothingLeftBehind

\* AlbumGallery.tsx: when nothing is on its way the grid shows what is in the
\* album, and what is marked is of this album and only while one selects.
GridIsTheAlbum == part = "gallery" => Gallery!GridIsTheAlbum

\* PostFeed.tsx: the list is what the server has for one word, from the top and
\* without gaps or repetitions; when all is quiet, for the word that is typed.
ListIsAPrefix == part = "posts" => Posts!ListIsAPrefix

\* PostCard.tsx: however fast one taps, the card ends with the server's mark, while
\* the server serves the taps one at a time; PostCard names what else excuses it.
MarkIsTrue == part = "card" => Card!MarkIsTrue

\* PostThread.tsx and CreatePostModal.tsx: whatever order the answers come in, an
\* open thread shows those of one's own comments the server has, and a post stands
\* without its files only while they are sent; PostThread and NewPost name what
\* excuses them.
ThreadIsTrue == /\ part = "thread" => Thread!ThreadIsTrue
                /\ part = "form" => Form!FilesFollow
==============================================================================
