--------------------------------- MODULE Feed ---------------------------------
(***************************************************************************)
(* The list of posts of PostFeed.tsx: pages by offset, a search that waits *)
(* until the typing stops, and loads whose answers come in any order; of   *)
(* all posts, or of those one has saved.                                   *)
(*                                                                         *)
(* Posts are numbers in the order of their creation, and the words one can *)
(* search for are in the odd ones.                                         *)
(***************************************************************************)
EXTENDS Naturals, FiniteSets, SequencesExt

CONSTANTS Loads,
          Page,              \* 20
          Words, NoWord,     \* what the user may type, and that nothing is typed
          MaxPosts           \* bound of the posts ever created

BoundsAssumption == Page \in Nat \ {0} /\ MaxPosts \in Nat /\ NoWord \in Words

VARIABLES feed,                         \* server: by word, the posts, newest first
          query, timer,                 \* what is typed, and the debounce
          posts, offset, hasMore, loading,
          load,                         \* calls of load() in flight
          saved,                        \* withCache: the first page, or none yet
          shown,                        \* history: the word of the list on the screen
          raced                         \* history: see Begin, Answer, Fails and Changed

vars == <<feed, query, timer, posts, offset, hasMore, loading, load, saved, shown, raced>>
screen == <<posts, offset, hasMore>>

Pages == SeqOf(1 .. MaxPosts, Page)
NoPage == <<0>>
Idle == [pc |-> "idle", text |-> NoWord, reset |-> TRUE, offset |-> 0, items |-> <<>>,
         before |-> {},      \* history: the loads under way when it began
         over |-> FALSE]     \* history: its answer comes too late, see Overtaken

Init ==
  /\ feed = [w \in Words |-> <<>>]
  /\ query = NoWord /\ timer = FALSE
  /\ posts = <<>> /\ offset = 0 /\ hasMore = TRUE /\ loading = FALSE
  /\ load = [l \in Loads |-> Idle]
  /\ saved = NoPage /\ shown = NoWord /\ raced = FALSE

Has(n, word) == word = NoWord \/ n % 2 = 1
Place(s, n) == Cardinality({i \in 1 .. Len(s) : s[i] > n}) + 1
PageAt(s, from) ==
  SubSeq(s, from + 1, IF from + Page < Len(s) THEN from + Page ELSE Len(s))
InFlight == {l \in Loads : load[l].pc # "idle"}
Cacheable(q) == q.reset /\ q.text = NoWord

\* The answer of l leaves m behind: a page that follows a list which is no more, or
\* an older load for another word.
Overtaken(l, m) == \/ ~load[m].reset
                   \/ m \in load[l].before /\ load[m].text # load[l].text

\* load(query, reset) starts. It is excused to ask for the next page while a load is
\* under way, or for another word than the list on the screen is of.
Begin(l, reset) ==
  /\ load[l].pc = "idle"
  /\ loading' = TRUE
  /\ load' = [load EXCEPT ![l] =
       [pc |-> "asked", text |-> query, reset |-> reset,
        offset |-> IF reset THEN 0 ELSE offset, items |-> <<>>,
        before |-> InFlight, over |-> FALSE]]
  /\ raced' = (raced \/ (~reset /\ (query # shown \/ InFlight # {})))
  /\ UNCHANGED <<feed, query, posts, hasMore, saved, shown>>

\* The screen opens: at once, and once more when the debounce of the query ends.
Mount(l) ==
  /\ InFlight = {} /\ ~timer
  /\ Begin(l, TRUE) /\ offset' = 0 /\ timer' = TRUE

Debounced(l) ==
  /\ timer /\ timer' = FALSE
  /\ Begin(l, TRUE) /\ offset' = 0

More(l) ==
  /\ hasMore /\ posts # <<>> /\ ~loading
  /\ Begin(l, FALSE) /\ UNCHANGED <<offset, timer>>

Type(word) ==
  /\ word # query
  /\ query' = word /\ timer' = TRUE
  /\ UNCHANGED <<feed, screen, loading, load, saved, shown, raced>>

Serve(l) ==
  LET q == load[l] IN
  /\ q.pc = "asked"
  /\ load' = [load EXCEPT ![l] = [q EXCEPT !.pc = "served",
       !.items = PageAt(feed[q.text], q.offset)]]
  /\ UNCHANGED <<feed, query, timer, screen, loading, saved, shown, raced>>

\* Fault: the offset of the page before is kept.
FaultApply(items) ==
  /\ posts' = items /\ offset' = offset /\ hasMore' = (Len(items) = Page)

Apply(items) ==
  /\ posts' = items /\ offset' = Len(items) /\ hasMore' = (Len(items) = Page)

\* The saved first page is shown while the answer is awaited.
ShowSaved(l) ==
  /\ load[l].pc # "idle" /\ Cacheable(load[l]) /\ saved # NoPage
  /\ Apply(saved) /\ shown' = load[l].text
  /\ load' = [m \in Loads |-> [load[m] EXCEPT !.over = @ \/ ~load[m].reset]]
  /\ raced' = (raced \/ load[l].over \/ saved # PageAt(feed[NoWord], 0))
  /\ UNCHANGED <<feed, query, timer, loading, saved>>

\* History: a load from the top that is the only one, and is of what the server has
\* and of what is typed, puts the list right.
Reload(l) ==
  /\ InFlight = {l} /\ load[l].reset /\ load[l].text = query
  /\ load[l].items = PageAt(feed[query], 0)

Answer(l) ==
  LET q == load[l] IN
  /\ q.pc = "served"
  /\ IF q.reset
       THEN Apply(q.items) /\ shown' = q.text
       ELSE /\ posts' = posts \o q.items /\ offset' = offset + Len(q.items)
            /\ hasMore' = (Len(q.items) = Page)
            /\ UNCHANGED shown
  /\ saved' = IF Cacheable(q) THEN q.items ELSE saved
  /\ load' = [m \in Loads |-> IF m = l THEN Idle ELSE
                [load[m] EXCEPT !.before = @ \ {l}, !.over = @ \/ Overtaken(l, m)]]
  /\ loading' = FALSE
  /\ raced' = (~Reload(l) /\ (raced \/ q.over))
  /\ UNCHANGED <<feed, query, timer>>

\* What was on the screen stays, and nobody tries again.
Fails(l) ==
  /\ load[l].pc # "idle"
  /\ load' = [m \in Loads |-> IF m = l THEN Idle ELSE
                [load[m] EXCEPT !.before = @ \ {l}]]
  /\ loading' = FALSE /\ raced' = TRUE
  /\ UNCHANGED <<feed, query, timer, screen, saved, shown>>

\* The pages to come move, which is harmless while nothing is shown and no page is
\* asked for but the first.
Changed ==
  /\ raced' = (raced \/ posts # <<>>
               \/ \E l \in InFlight : load[l].pc = "served" \/ ~load[l].reset)
  /\ UNCHANGED <<query, timer, screen, loading, load, saved, shown>>

\* Somebody publishes a post; among the saved ones, an older one is saved.
Appears(n) ==
  /\ \A i \in DOMAIN feed[NoWord] : feed[NoWord][i] # n
  /\ feed' = [w \in Words |-> IF Has(n, w) THEN InsertAt(feed[w], Place(feed[w], n), n)
                                           ELSE feed[w]]
  /\ Changed

\* A post is deleted; among the saved ones, one is no longer saved.
Vanishes(n) ==
  /\ \E i \in DOMAIN feed[NoWord] : feed[NoWord][i] = n
  /\ feed' = [w \in Words |-> IF Has(n, w) THEN RemoveAt(feed[w], Place(feed[w], n))
                                           ELSE feed[w]]
  /\ Changed

Next ==
  \/ \E l \in Loads : \/ Mount(l) \/ Debounced(l) \/ More(l) \/ Serve(l)
                      \/ ShowSaved(l) \/ Answer(l) \/ Fails(l)
  \/ \E w \in Words : Type(w)
  \/ \E n \in 1 .. MaxPosts : Appears(n) \/ Vanishes(n)

Spec == Init /\ [][Next]_vars

------------------------------------------------------------------------------
TypeOK ==
  /\ feed \in [Words -> Seq(1 .. MaxPosts)] /\ query \in Words /\ timer \in BOOLEAN
  /\ posts \in Seq(1 .. MaxPosts) /\ offset \in Nat
  /\ hasMore \in BOOLEAN /\ loading \in BOOLEAN
  /\ load \in [Loads -> [pc : {"idle", "asked", "served"}, text : Words,
                         reset : BOOLEAN, offset : Nat, items : Pages,
                         before : SUBSET Loads, over : BOOLEAN]]
  /\ saved \in Pages \cup {NoPage} /\ shown \in Words /\ raced \in BOOLEAN

\* However loads overlap, the list is what the server has for one word, from the top
\* and without gaps or repetitions; and when all is quiet, the word is the one that
\* is typed: unless an older answer came after that of a later load, a load failed,
\* posts came or went after a page was read, an old page was shown, or "more" was
\* pressed during a load or before the search; and until a lone load from the top.
ListIsAPrefix ==
  ~raced => /\ IsPrefix(posts, feed[shown])
            /\ InFlight = {} => offset = Len(posts)
            /\ InFlight = {} /\ ~timer => shown = query
==============================================================================
