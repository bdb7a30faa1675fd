------------------------- MODULE ConversationProofs -------------------------
(***************************************************************************)
(* Proofs about Conversation for pages of any length and any number of     *)
(* messages: what the operators on lists return (by an induction over the  *)
(* length that is carried out on the least length for which the claim      *)
(* would fail), the types, and by one inductive invariant (TalkInv) that,  *)
(* as long as nothing is excused, the list ends with every message once    *)
(* and without a gap.                                                      *)
(***************************************************************************)
EXTENDS Conversation, Integers, FunctionTheorems, FiniteSetTheorems,
        SequenceTheorems, WellFoundedInduction, TLAPS

------------------------------------------------------------------------------
(* Lists.                                                                  *)

\* The least number, for the arguments that go through a list item by item.
LEMMA LeastNatural ==
  ASSUME NEW T \in SUBSET Nat, T # {} PROVE \E n \in T : \A k \in T : n <= k
<1> DEFINE R == {ss \in Nat \X Nat : ss[1] < ss[2]}
<1>1. IsWellFoundedOn(R, Nat)
  BY NatLessThanWellFounded DEF OpToRel
<1>2. \A k, n \in Nat : <<k, n>> \in R <=> k < n
  OBVIOUS
<1> HIDE DEF R
<1>3. PICK n \in T : \A k \in T : <<k, n>> \notin R
  BY <1>1, WFMin
<1>4. \A k \in T : ~(k < n)
  BY <1>2, <1>3
<1> QED BY <1>4

\* Only is computed step by step: there is a function of the first items.
LEMMA OnlyIsDefined ==
  ASSUME NEW items, NEW ms, Len(items) \in Nat
  PROVE  \E f : f = [n \in 0 .. Len(items) |->
                       IF n = 0 THEN <<>>
                       ELSE IF items[n] \in ms THEN Append(f[n - 1], items[n]) ELSE f[n - 1]]
<1> DEFINE Step(f, n) == IF n = 0 THEN <<>>
                         ELSE IF items[n] \in ms THEN Append(f[n - 1], items[n]) ELSE f[n - 1]
           Bad == {k \in Nat : ~ \E f : f = [n \in 0 .. k |-> Step(f, n)]}
<1>1. SUFFICES ASSUME Bad # {} PROVE FALSE
  BY DEF Bad
<1>2. PICK k \in Bad : \A j \in Bad : k <= j
  <2>1. Bad \in SUBSET Nat
    OBVIOUS
  <2> HIDE DEF Bad
  <2> QED BY <1>1, <2>1, LeastNatural
<1>3. CASE k = 0
  <2> DEFINE g == [n \in 0 .. 0 |-> <<>>]
  <2>1. g = [n \in 0 .. 0 |-> Step(g, n)]
    BY DEF Step
  <2> QED BY <1>2, <1>3, <2>1
<1>4. CASE k # 0
  <2>1. k - 1 \in Nat /\ k \in Nat /\ k - 1 \notin Bad
    <3>1. k \in Nat
      OBVIOUS
    <3>2. k - 1 \in Nat /\ ~(k <= k - 1)
      BY <1>4, <3>1
    <3> HIDE DEF Bad
    <3> QED BY <1>2, <3>1, <3>2
  <2>2. PICK f : f = [n \in 0 .. k - 1 |-> Step(f, n)]
    BY <2>1
  <2> DEFINE last == IF items[k] \in ms THEN Append(f[k - 1], items[k]) ELSE f[k - 1]
             g == [n \in 0 .. k |-> IF n = k THEN last ELSE f[n]]
  <2>3. ASSUME NEW n \in 0 .. k PROVE g[n] = Step(g, n)
    <3>1. CASE n = 0
      BY <1>4, <2>1, <2>2, <3>1
    <3>2. CASE n = k
      BY <1>4, <2>1, <3>2
    <3>3. CASE n # 0 /\ n # k
      <4>1. n \in 0 .. k - 1 /\ n - 1 \in 0 .. k /\ n - 1 # k
        BY <2>1, <3>3
      <4>2. g[n] = f[n] /\ g[n - 1] = f[n - 1]
        BY <3>3, <4>1
      <4>3. f[n] = Step(f, n)
        BY <2>2, <4>1
      <4> QED BY <3>3, <4>2, <4>3
    <3> QED BY <3>1, <3>2, <3>3
  <2>4. g = [n \in 0 .. k |-> Step(g, n)]
    BY <2>3
  <2> QED BY <1>2, <2>4
<1> QED BY <1>3, <1>4

\* The places of t are, through h, those of the items in ms, in their order.
Selects(h, t, items, ms) ==
  /\ h \in [1 .. Len(t) -> 1 .. Len(items)]
  /\ \A i, j \in 1 .. Len(t) : i < j => h[i] < h[j]
  /\ \A i \in 1 .. Len(t) : t[i] = items[h[i]] /\ items[h[i]] \in ms
  /\ \A k \in 1 .. Len(items) : items[k] \in ms => \E i \in 1 .. Len(t) : h[i] = k

\* It takes the items that are in ms, each once and in their order.
LEMMA OnlySelects ==
  ASSUME NEW S, NEW items \in Seq(S), NEW ms
  PROVE  /\ Only(items, ms) \in Seq(S)
         /\ \E h : Selects(h, Only(items, ms), items, ms)
<1> DEFINE Computes(f) ==
             f = [n \in 0 .. Len(items) |->
                    IF n = 0 THEN <<>>
                    ELSE IF items[n] \in ms THEN Append(f[n - 1], items[n]) ELSE f[n - 1]]
           f == CHOOSE f : Computes(f)
<1>1. Only(items, ms) = f[Len(items)]
  BY DEF Only
<1>2. Len(items) \in Nat /\ \A n \in 1 .. Len(items) : items[n] \in S
  OBVIOUS
<1>3. f = [n \in 0 .. Len(items) |->
             IF n = 0 THEN <<>>
             ELSE IF items[n] \in ms THEN Append(f[n - 1], items[n]) ELSE f[n - 1]]
  <2>1. \E g : Computes(g)
    BY <1>2, OnlyIsDefined
  <2> HIDE DEF Computes
  <2>2. Computes(f)
    BY <2>1, Zenon
  <2> QED BY <2>2 DEF Computes
<1> HIDE DEF f, Computes
<1> DEFINE Places(n, h) ==
             /\ \A i, j \in 1 .. Len(f[n]) : i < j => h[i] < h[j]
             /\ \A i \in 1 .. Len(f[n]) : f[n][i] = items[h[i]] /\ items[h[i]] \in ms
             /\ \A k \in 1 .. n : items[k] \in ms => \E i \in 1 .. Len(f[n]) : h[i] = k
           Fine(n) ==
             /\ f[n] \in Seq(S)
             /\ \E h \in [1 .. Len(f[n]) -> 1 .. n] : Places(n, h)
           Bad == {n \in 0 .. Len(items) : ~ Fine(n)}
<1>4. Bad = {}
  <2>1. SUFFICES ASSUME Bad # {} PROVE FALSE
    OBVIOUS
  <2>2. PICK n \in Bad : \A j \in Bad : n <= j
    <3>1. Bad \in SUBSET Nat
      BY <1>2
    <3> HIDE DEF Bad
    <3> QED BY <2>1, <3>1, LeastNatural
  <2>3. n # 0
    <3>1. f[0] = <<>>
      BY <1>2, <1>3
    <3>2. <<>> \in Seq(S) /\ Len(<<>>) = 0 /\ 1 .. 0 = {}
      BY EmptySeq
    <3>3. [i \in 1 .. 0 |-> 0] \in [1 .. 0 -> 1 .. 0]
      BY <3>2
    <3>4. Places(0, [i \in 1 .. 0 |-> 0])
      BY <3>1, <3>2
    <3>5. Fine(0)
      BY <3>1, <3>2, <3>3, <3>4
    <3> QED BY <3>5
  <2> HIDE DEF Fine
  <2>4. n \in 1 .. Len(items) /\ n - 1 \in 0 .. Len(items) /\ n - 1 \notin Bad /\ n \in Nat
    BY <1>2, <2>2, <2>3
  <2>5. Fine(n - 1)
    BY <2>4
  <2> USE DEF Fine
  <2>6. f[n] = IF items[n] \in ms THEN Append(f[n - 1], items[n]) ELSE f[n - 1]
    <3>1. n \in 0 .. Len(items) /\ n # 0
      BY <1>2, <2>4
    <3> QED BY <1>3, <3>1
  <2> DEFINE p == f[n - 1]
  <2>7. PICK h \in [1 .. Len(p) -> 1 .. n - 1] : Places(n - 1, h)
    BY <2>5
  <2>8. p \in Seq(S) /\ Len(p) \in Nat
    BY <2>5
  <2>9. /\ \A i, j \in 1 .. Len(p) : i < j => h[i] < h[j]
        /\ \A i \in 1 .. Len(p) : p[i] = items[h[i]] /\ items[h[i]] \in ms
        /\ \A k \in 1 .. n - 1 : items[k] \in ms => \E i \in 1 .. Len(p) : h[i] = k
    BY <2>7
  <2> HIDE DEF Fine, Bad
  <2>10. CASE items[n] \notin ms
    <3>1. f[n] = p
      BY <2>6, <2>10
    <3> HIDE DEF p
    <3>2. h \in [1 .. Len(f[n]) -> 1 .. n]
      BY <2>4, <2>7, <3>1
    <3>3. Places(n, h)
      BY <2>4, <2>9, <2>10, <3>1
    <3>4. Fine(n)
      BY <2>8, <3>1, <3>2, <3>3 DEF Fine
    <3> QED BY <2>2, <3>4 DEF Bad
  <2>11. CASE items[n] \in ms
    <3> DEFINE e == items[n]
               g == [i \in 1 .. Len(p) + 1 |-> IF i = Len(p) + 1 THEN n ELSE h[i]]
    <3>1. e \in S /\ f[n] = Append(p, e)
      BY <1>2, <2>4, <2>6, <2>11
    <3> HIDE DEF p
    <3>2. /\ f[n] \in Seq(S) /\ Len(f[n]) = Len(p) + 1
          /\ \A i \in 1 .. Len(p) : f[n][i] = p[i]
          /\ f[n][Len(p) + 1] = e
      BY <2>8, <3>1
    <3>3. /\ \A i \in 1 .. Len(p) : h[i] \in 1 .. n - 1 /\ g[i] = h[i]
          /\ g[Len(p) + 1] = n /\ g \in [1 .. Len(p) + 1 -> 1 .. n]
      BY <2>4, <2>7, <2>8
    <3> HIDE DEF e, g
    <3>4. ASSUME NEW i \in 1 .. Len(f[n]), NEW j \in 1 .. Len(f[n]), i < j PROVE g[i] < g[j]
      <4>1. i \in 1 .. Len(p) /\ h[i] < n
        BY <2>4, <2>8, <3>2, <3>3, <3>4
      <4>2. j \in 1 .. Len(p) \/ j = Len(p) + 1
        BY <2>8, <3>2
      <4> QED BY <2>9, <3>3, <3>4, <4>1, <4>2
    <3>5. \A i \in 1 .. Len(f[n]) : f[n][i] = items[g[i]] /\ items[g[i]] \in ms
      <4>1. SUFFICES ASSUME NEW i \in 1 .. Len(f[n])
                     PROVE  f[n][i] = items[g[i]] /\ items[g[i]] \in ms
        OBVIOUS
      <4>2. CASE i \in 1 .. Len(p)
        BY <2>9, <3>2, <3>3, <4>2
      <4>3. CASE i = Len(p) + 1
        BY <2>11, <3>2, <3>3, <4>3 DEF e
      <4> QED BY <2>8, <3>2, <4>2, <4>3
    <3>6. ASSUME NEW k \in 1 .. n, items[k] \in ms
          PROVE  \E i \in 1 .. Len(f[n]) : g[i] = k
      <4>1. CASE k = n
        BY <2>8, <3>2, <3>3, <4>1
      <4>2. CASE k # n
        <5>1. k \in 1 .. n - 1
          BY <2>4, <4>2
        <5>2. PICK i \in 1 .. Len(p) : h[i] = k
          BY <2>9, <3>6, <5>1
        <5>3. i \in 1 .. Len(f[n])
          BY <2>8, <3>2
        <5> QED BY <3>3, <5>2, <5>3
      <4> QED BY <4>1, <4>2
    <3>7. Places(n, g)
      BY <3>4, <3>5, <3>6
    <3> HIDE DEF Places
    <3>8. Fine(n)
      BY <3>2, <3>3, <3>7 DEF Fine
    <3> QED BY <2>2, <3>8 DEF Bad
  <2> QED BY <2>10, <2>11
<1>5. Fine(Len(items))
  <2>1. Len(items) \in 0 .. Len(items)
    BY <1>2
  <2> HIDE DEF Fine
  <2> QED BY <1>4, <2>1
<1> QED BY <1>1, <1>5 DEF Selects

\* The last ones: all of them, or n.
LEMMA LastOfIsEnd ==
  ASSUME NEW S, NEW s \in Seq(S), NEW n \in Nat \ {0}
  PROVE  /\ LastOf(s, n) \in Seq(S) /\ Len(LastOf(s, n)) <= n
         /\ \E d \in 0 .. Len(s) :
              /\ d = 0 \/ Len(LastOf(s, n)) = n
              /\ Len(LastOf(s, n)) = Len(s) - d
              /\ \A i \in 1 .. Len(LastOf(s, n)) : LastOf(s, n)[i] = s[d + i]
<1> DEFINE d == IF Len(s) > n THEN Len(s) - n ELSE 0
<1>1. /\ d \in 0 .. Len(s) /\ Len(s) \in Nat /\ Len(s) - d <= n
      /\ d = 0 \/ Len(s) - d = n
  OBVIOUS
<1>2. LastOf(s, n) = SubSeq(s, d + 1, Len(s))
  BY DEF LastOf
<1> HIDE DEF d
<1>3. /\ d + 1 \in Int /\ Len(s) \in Int /\ Len(s) - (d + 1) + 1 = Len(s) - d
      /\ (IF d + 1 <= Len(s) THEN Len(s) - (d + 1) + 1 ELSE 0) = Len(s) - d
      /\ \A i \in d + 1 .. Len(s) : s[i] \in S
      /\ \A i \in 1 .. Len(s) - d : d + 1 + i - 1 = d + i
  BY <1>1
<1>4. SubSeq(s, d + 1, Len(s)) \in Seq(S)
  BY <1>3, SubSeqProperties, Zenon
<1>5. Len(SubSeq(s, d + 1, Len(s))) = IF d + 1 <= Len(s) THEN Len(s) - (d + 1) + 1 ELSE 0
  BY <1>3, SubSeqProperties
<1>6. \A i \in 1 .. Len(s) - (d + 1) + 1 : SubSeq(s, d + 1, Len(s))[i] = s[d + 1 + i - 1]
  BY <1>3, SubSeqProperties
<1>7. /\ Len(LastOf(s, n)) = Len(s) - d
      /\ \A i \in 1 .. Len(s) - d : LastOf(s, n)[i] = s[d + i]
  BY <1>2, <1>3, <1>5, <1>6, Zenon
<1> QED BY <1>1, <1>2, <1>4, <1>7

------------------------------------------------------------------------------
(* Pages, entries and types.                                               *)

\* A page: messages that are there, in order, and no gap above the oldest of them.
LEMMA PageIsATail ==
  ASSUME ConversationAssumption, NEW log \in Nat, NEW before
  PROVE  LET p == LastPage(log, before)
             ms == {m \in 1 .. log \ gone : before = 0 \/ (before \notin gone /\ m < before)}
         IN  /\ p \in Seq(1 .. log) /\ Len(p) <= Page
             /\ \A i, j \in 1 .. Len(p) : i < j => p[i] < p[j]
             /\ \A i \in 1 .. Len(p) : p[i] \in ms
             /\ \A i \in 1 .. Len(p), m \in ms : p[i] <= m => \E j \in 1 .. Len(p) : p[j] = m
             /\ Len(p) < Page => \A m \in ms : \E j \in 1 .. Len(p) : p[j] = m
<1> DEFINE p == LastPage(log, before)
           ms == {m \in 1 .. log \ gone : before = 0 \/ (before \notin gone /\ m < before)}
           all == [m \in 1 .. log |-> m]
           s == Only(all, ms)
<1>1. all \in Seq(1 .. log) /\ Len(all) = log /\ \A k \in 1 .. log : all[k] = k
  OBVIOUS
<1> DEFINE S == 1 .. log
<1>0. all \in Seq(S)
  BY <1>1
<1> HIDE DEF all, ms, S
<1>a. PICK h : Selects(h, s, all, ms)
  BY <1>0, OnlySelects, Zenon
<1>2. /\ h \in [1 .. Len(s) -> 1 .. Len(all)]
      /\ \A i, j \in 1 .. Len(s) : i < j => h[i] < h[j]
      /\ \A i \in 1 .. Len(s) : s[i] = all[h[i]] /\ all[h[i]] \in ms
      /\ \A k \in 1 .. Len(all) : all[k] \in ms => \E i \in 1 .. Len(s) : h[i] = k
  BY <1>a DEF Selects
<1>3. s \in Seq(1 .. log)
  BY <1>0, OnlySelects, Zenon DEF S
<1> USE DEF all, ms
<1>4. p = LastOf(s, Page)
  BY DEF LastPage
<1>5. ms \subseteq 1 .. log
  OBVIOUS
<1> HIDE DEF all, ms, s, p
<1>6. /\ \A i, j \in 1 .. Len(s) : i < j => s[i] < s[j]
      /\ \A i \in 1 .. Len(s) : s[i] \in ms
      /\ \A m \in ms : \E i \in 1 .. Len(s) : s[i] = m
  <2>1. \A i \in 1 .. Len(s) : h[i] \in 1 .. log /\ s[i] = h[i] /\ s[i] \in ms
    BY <1>1, <1>2
  <2>2. \A m \in ms : m \in 1 .. log /\ all[m] = m
    BY <1>1, <1>5
  <2>3. \A m \in ms : \E i \in 1 .. Len(s) : s[i] = m
    BY <1>1, <1>2, <2>1, <2>2
  <2> QED BY <1>2, <2>1, <2>3
<1>7. PICK d \in 0 .. Len(s) :
        /\ d = 0 \/ Len(p) = Page
        /\ Len(p) = Len(s) - d
        /\ \A i \in 1 .. Len(p) : p[i] = s[d + i]
  BY <1>3, <1>4, LastOfIsEnd DEF ConversationAssumption
<1>8. p \in Seq(1 .. log) /\ Len(p) <= Page
  BY <1>3, <1>4, LastOfIsEnd DEF ConversationAssumption
<1>9. /\ Len(s) \in Nat /\ Len(p) \in Nat /\ Page \in Nat
      /\ \A i \in 1 .. Len(p) : d + i \in 1 .. Len(s)
      /\ \A k \in 1 .. Len(s) : k > d => k - d \in 1 .. Len(p) /\ p[k - d] = s[k]
  <2>1. Len(s) \in Nat /\ Len(p) \in Nat /\ Page \in Nat /\ d \in Nat
    BY <1>3, <1>7, <1>8 DEF ConversationAssumption
  <2>2. \A i \in 1 .. Len(p) : d + i \in 1 .. Len(s)
    BY <1>7, <2>1
  <2>3. ASSUME NEW k \in 1 .. Len(s), k > d PROVE k - d \in 1 .. Len(p) /\ p[k - d] = s[k]
    <3>1. k - d \in 1 .. Len(p) /\ d + (k - d) = k
      BY <1>7, <2>1, <2>3
    <3> QED BY <1>7, <3>1
  <2> QED BY <2>1, <2>2, <2>3
<1>10. \A i, j \in 1 .. Len(p) : i < j => p[i] < p[j]
  BY <1>6, <1>7, <1>9
<1>11. ASSUME NEW i \in 1 .. Len(p), NEW m \in ms, p[i] <= m
       PROVE  \E j \in 1 .. Len(p) : p[j] = m
  <2>1. PICK k \in 1 .. Len(s) : s[k] = m
    BY <1>6
  <2>2. d + i \in 1 .. Len(s) /\ s[d + i] <= s[k] /\ s[k] \in 1 .. log /\ s[d + i] \in 1 .. log
    BY <1>5, <1>6, <1>7, <1>9, <1>11, <2>1
  <2>3. ~(k < d + i)
    BY <1>6, <2>2
  <2>4. k > d
    BY <1>9, <2>2, <2>3
  <2> QED BY <1>9, <2>1, <2>4
<1>12. ASSUME Len(p) < Page, NEW m \in ms PROVE \E j \in 1 .. Len(p) : p[j] = m
  <2>1. d = 0
    BY <1>7, <1>9, <1>12
  <2> QED BY <1>6, <1>9, <2>1
<1> QED BY <1>6, <1>7, <1>8, <1>9, <1>10, <1>11, <1>12 DEF p, ms

\* The list without a message: the others, each in its turn.
LEMMA WithoutTakes ==
  ASSUME NEW S, list \in Seq(S), NEW m
  PROVE  /\ Without(m) \in Seq(S)
         /\ \E h \in [1 .. Len(Without(m)) -> 1 .. Len(list)] :
              /\ \A i, j \in 1 .. Len(Without(m)) : h[i] = h[j] => i = j
              /\ \A i \in 1 .. Len(Without(m)) : Without(m)[i] = list[h[i]] /\ list[h[i]].m # m
              /\ \A k \in 1 .. Len(list) :
                   list[k].m # m => \E i \in 1 .. Len(Without(m)) : h[i] = k
<1> DEFINE ms == {e \in {list[i] : i \in DOMAIN list} : e.m # m}
           t == Only(list, ms)
<1>1. Without(m) = t
  BY DEF Without
<1>a. PICK h : Selects(h, t, list, ms)
  <2> HIDE DEF ms
  <2> QED BY OnlySelects, Zenon
<1>2. /\ h \in [1 .. Len(t) -> 1 .. Len(list)]
      /\ \A i, j \in 1 .. Len(t) : i < j => h[i] < h[j]
      /\ \A i \in 1 .. Len(t) : t[i] = list[h[i]] /\ list[h[i]] \in ms
      /\ \A k \in 1 .. Len(list) : list[k] \in ms => \E i \in 1 .. Len(t) : h[i] = k
  <2> HIDE DEF ms, t
  <2> QED BY <1>a DEF Selects
<1>3. t \in Seq(S)
  <2> HIDE DEF ms
  <2> QED BY OnlySelects
<1>4. /\ \A e \in ms : e.m # m
      /\ \A k \in 1 .. Len(list) : list[k].m # m => list[k] \in ms
  OBVIOUS
<1> HIDE DEF ms, t
<1>5. \A i, j \in 1 .. Len(t) : h[i] = h[j] => i = j
  <2>1. Len(t) \in Nat /\ \A i \in 1 .. Len(t) : h[i] \in Nat
    BY <1>2, <1>3
  <2>2. ASSUME NEW i \in 1 .. Len(t), NEW j \in 1 .. Len(t), h[i] = h[j] PROVE i = j
    <3>1. ~(h[i] < h[j]) /\ ~(h[j] < h[i])
      BY <2>1, <2>2
    <3>2. ~(i < j) /\ ~(j < i)
      BY <1>2, <3>1
    <3> QED BY <2>1, <3>2
  <2> QED BY <2>2
<1> QED BY <1>1, <1>2, <1>3, <1>4, <1>5

\* The places of t are, through h, those of s but one.
AllBut(h, t, s, i) ==
  /\ h \in [1 .. Len(t) -> 1 .. Len(s)]
  /\ \A j \in 1 .. Len(t) : t[j] = s[h[j]] /\ h[j] # i
  /\ \A j, k \in 1 .. Len(t) : h[j] = h[k] => j = k
  /\ \A k \in 1 .. Len(s) : k # i => \E j \in 1 .. Len(t) : h[j] = k

\* A list without its i-th item.
LEMMA TakenOut ==
  ASSUME NEW S, NEW s \in Seq(S), NEW i \in 1 .. Len(s), NEW t \in Seq(S),
         Len(t) = Len(s) - 1,
         \A j \in 1 .. Len(t) : t[j] = s[IF j < i THEN j ELSE j + 1]
  PROVE  \E h : AllBut(h, t, s, i)
<1> DEFINE h == [j \in 1 .. Len(t) |-> IF j < i THEN j ELSE j + 1]
<1>1. Len(s) \in Nat /\ Len(t) \in Nat /\ i \in Nat
  OBVIOUS
<1>2. /\ h \in [1 .. Len(t) -> 1 .. Len(s)]
      /\ \A j \in 1 .. Len(t) : h[j] = (IF j < i THEN j ELSE j + 1) /\ h[j] # i
  BY <1>1
<1>3. \A j \in 1 .. Len(t) : t[j] = s[h[j]]
  BY <1>1, <1>2
<1>4. \A j, k \in 1 .. Len(t) : h[j] = h[k] => j = k
  BY <1>1, <1>2
<1>5. ASSUME NEW k \in 1 .. Len(s), k # i PROVE \E j \in 1 .. Len(t) : h[j] = k
  <2>1. CASE k < i
    BY <1>1, <1>2, <2>1
  <2>2. CASE k > i
    <3>1. k - 1 \in 1 .. Len(t) /\ ~(k - 1 < i)
      BY <1>1, <2>2
    <3>2. h[k - 1] = k
      BY <1>1, <1>2, <3>1
    <3> QED BY <3>1, <3>2
  <2> QED BY <1>1, <1>5, <2>1, <2>2
<1> HIDE DEF h
<1>6. AllBut(h, t, s, i)
  BY <1>2, <1>3, <1>4, <1>5 DEF AllBut
<1> QED BY <1>6

------------------------------------------------------------------------------
\* Types.

\* The rows of a page as entries of the list.
LEMMA EntriesAreItems ==
  ASSUME ConversationAssumption, NEW rows \in Seq(Numbers), NEW plain \in BOOLEAN
  PROVE  /\ Entries(rows, plain) \in Seq(Item) /\ Len(Entries(rows, plain)) = Len(rows)
         /\ \A i \in 1 .. Len(rows) : Entries(rows, plain)[i] = [m |-> rows[i], c |-> 0, plain |-> plain]
<1>1. DOMAIN rows = 1 .. Len(rows) /\ Len(rows) \in Nat /\ 0 \in 0 .. MaxSends
  BY DEF ConversationAssumption
<1>2. \A i \in 1 .. Len(rows) : rows[i] \in Numbers
  OBVIOUS
<1>3. \A i \in 1 .. Len(rows) : [m |-> rows[i], c |-> 0, plain |-> plain] \in Item
  BY <1>1, <1>2 DEF Item
<1> QED BY <1>1, <1>3 DEF Entries, Entry

\* A page is a list of numbers.
LEMMA PageTypes ==
  ASSUME ConversationAssumption, TypeOK, NEW log \in 0 .. posted, NEW before
  PROVE  LastPage(log, before) \in Seq(Numbers)
<1>1. log \in Nat /\ 1 .. log \subseteq Numbers
  BY DEF TypeOK, Numbers, ConversationAssumption
<1>2. LastPage(log, before) \in Seq(1 .. log)
  BY <1>1, PageIsATail
<1> DEFINE p == LastPage(log, before)
<1> HIDE DEF p
<1>3. ASSUME p \in Seq(1 .. log) PROVE p \in Seq(Numbers)
  BY <1>1, <1>3
<1> QED BY <1>2, <1>3 DEF p

\* A message that is merged is an entry.
LEMMA OpeningTypes ==
  ASSUME ConversationAssumption, TypeOK, NEW e \in Event
  PROVE  Merged(e) \in Seq(Item)
<1>1. Entry(e.m, e.c, TRUE) \in Item
  BY DEF Entry, Event, Item
<1>2. list \in Seq(Item) /\ DOMAIN list = 1 .. Len(list) /\ Len(list) \in Nat
  BY DEF TypeOK
<1>3. [i \in DOMAIN list |-> IF list[i].c = e.c THEN Entry(e.m, e.c, TRUE) ELSE list[i]] \in Seq(Item)
  <2> DEFINE x == Entry(e.m, e.c, TRUE)
             s == [i \in 1 .. Len(list) |-> IF list[i].c = e.c THEN x ELSE list[i]]
  <2>1. \A i \in 1 .. Len(list) : list[i] \in Item
    BY <1>2
  <2>2. s \in [1 .. Len(list) -> Item]
    BY <1>1, <2>1
  <2> HIDE DEF s
  <2>3. s \in Seq(Item)
    BY <1>2, <2>2
  <2> QED BY <1>2, <2>3 DEF s
<1>4. Append(list, Entry(e.m, e.c, TRUE)) \in Seq(Item)
  <2> DEFINE x == Entry(e.m, e.c, TRUE)
  <2> HIDE DEF x
  <2>1. x \in Item
    BY <1>1 DEF x
  <2>2. Append(list, x) \in Seq(Item)
    BY <1>2, <2>1
  <2> QED BY <2>2 DEF x
<1>5. \/ Merged(e) = [i \in DOMAIN list |-> IF list[i].c = e.c THEN Entry(e.m, e.c, TRUE) ELSE list[i]]
      \/ Merged(e) = Append(list, Entry(e.m, e.c, TRUE))
  BY DEF Merged
<1> QED BY <1>3, <1>4, <1>5

\* Every step keeps the types.
LEMMA TypeKeeps ==
  ASSUME ConversationAssumption, TypeOK, [Next]_vars
  PROVE  TypeOK'
<1>0. /\ posted \in Numbers /\ gone \subseteq 1 .. posted /\ pending \subseteq Event
      /\ list \in Seq(Item) /\ hasMore \in BOOLEAN
      /\ hist \in [pc : {"none", "asked", "served", "over"}, rows : Seq(Numbers), top : Numbers]
      /\ more \in [pc : {"idle", "asked", "served"}, before : Numbers, rows : Seq(Numbers)]
      /\ up \in BOOLEAN /\ queue \in Seq(Event) /\ opening \in Seq(Event)
      /\ sent \in 0 .. MaxSends /\ outbox \subseteq 1 .. sent
      /\ deleting \subseteq gone /\ cause \in Causes
  BY DEF TypeOK
<1>n. <<>> \in Seq(Numbers) /\ <<>> \in Seq(Event) /\ 0 \in Numbers /\ Numbers \subseteq Nat
      /\ MaxSends \in Nat /\ MaxMessages \in Nat /\ Page \in Nat /\ Page # 0 /\ posted \in 0 .. posted
  BY <1>0 DEF ConversationAssumption, Numbers
<1>c. {"copy", "offline", "early", "missed", "late", "overtaken", "lost", "disorder", "other chat"}
        \subseteq Causes
  BY DEF Causes
<1>1. CASE OpenChat
  <2>1. PICK old \in 0 .. posted : list' = Entries(LastPage(old, 0), TRUE)
    BY <1>1 DEF OpenChat
  <2>2. LastPage(old, 0) \in Seq(Numbers)
    BY PageTypes
  <2>3. list' \in Seq(Item)
    BY <2>1, <2>2, EntriesAreItems
  <2>4. hist' = [pc |-> "asked", rows |-> <<>>, top |-> 0]
    BY <1>1 DEF OpenChat, NoHist
  <2>5. hist' \in [pc : {"none", "asked", "served", "over"}, rows : Seq(Numbers), top : Numbers]
    BY <1>n, <2>4
  <2> QED BY <1>0, <1>1, <2>3, <2>5 DEF OpenChat, TypeOK
<1>2. CASE History
  <2>1. LastPage(posted, 0) \in Seq(Numbers)
    BY <1>n, PageTypes
  <2> QED BY <1>0, <1>2, <2>1 DEF History, TypeOK
<1>3. CASE HistoryShown
  <2>1. list' \in Seq(Item)
    BY <1>0, <1>3, EntriesAreItems DEF HistoryShown
  <2>2. hist' \in [pc : {"none", "asked", "served", "over"}, rows : Seq(Numbers), top : Numbers]
    BY <1>0, <1>3, <1>n DEF HistoryShown
  <2> QED BY <1>0, <1>3, <1>c, <2>1, <2>2 DEF HistoryShown, Because, TypeOK
<1>4. CASE HistoryFails
  <2>1. hist' \in [pc : {"none", "asked", "served", "over"}, rows : Seq(Numbers), top : Numbers]
    BY <1>0, <1>4, <1>n DEF HistoryFails
  <2> QED BY <1>0, <1>4, <1>c, <2>1 DEF HistoryFails, Because, TypeOK
<1>5. CASE Connect
  BY <1>0, <1>5, <1>c DEF Connect, Because, TypeOK
<1>6. CASE Disconnect
  BY <1>0, <1>6, <1>n, <1>c DEF Disconnect, Because, TypeOK
<1>7. ASSUME NEW c \in 0 .. sent, Post(c), outbox' \subseteq outbox PROVE TypeOK'
  <2>1. [kind |-> "message", m |-> posted + 1, c |-> c] \in Event /\ posted' \in Numbers
    BY <1>0, <1>7, <1>n DEF Post, Event, Numbers
  <2>2. pending' \subseteq Event
    BY <1>0, <1>7, <2>1 DEF Post
  <2>3. gone' \subseteq 1 .. posted'
    BY <1>0, <1>7, <1>n DEF Post
  <2> QED BY <1>0, <1>7, <2>1, <2>2, <2>3 DEF Post, TypeOK
<1>8. CASE Deliver
  <2>1. /\ Head(queue) \in Event /\ Tail(queue) \in Seq(Event)
        /\ Append(opening, Head(queue)) \in Seq(Event)
    BY <1>0, <1>8 DEF Deliver
  <2>2. Without(Head(queue).m) \in Seq(Item)
    BY <1>0, WithoutTakes
  <2> QED BY <1>0, <1>8, <1>c, <2>1, <2>2 DEF Deliver, Because, TypeOK
<1>9. ASSUME NEW m \in 1 .. posted, NEW own \in BOOLEAN, Delete(m, own) PROVE TypeOK'
  <2>1. [kind |-> "delete", m |-> m, c |-> 0] \in Event
    BY <1>0, <1>n DEF Event, Numbers
  <2>2. pending' \subseteq Event
    BY <1>0, <1>9, <2>1 DEF Delete
  <2> QED BY <1>0, <1>9, <2>2 DEF Delete, TypeOK
<1>10. ASSUME NEW m \in deleting, DeleteAnswered(m) PROVE TypeOK'
  <2>1. Without(m) \in Seq(Item)
    BY <1>0, WithoutTakes
  <2> QED BY <1>0, <1>10, <1>c, <2>1 DEF DeleteAnswered, Because, TypeOK
<1>11. ASSUME NEW i \in DOMAIN opening, Opened(i) PROVE TypeOK'
  <2>1. i \in 1 .. Len(opening) /\ opening[i] \in Event
    BY <1>0
  <2>2. opening' \in Seq(Event)
    <3>1. Len(opening) \in Nat /\ Len(opening) - 1 \in Nat
      BY <1>0, <2>1
    <3>2. \A j \in 1 .. Len(opening) - 1 : opening[IF j < i THEN j ELSE j + 1] \in Event
      BY <1>0, <2>1, <3>1
    <3> QED BY <1>11, <3>1, <3>2 DEF Opened
  <2>3. list' \in Seq(Item)
    BY <1>11, <2>1, OpeningTypes DEF Opened
  <2> QED BY <1>0, <1>11, <2>2, <2>3 DEF Opened, TypeOK
<1>12. CASE Send
  <2>1. Entry(0, sent + 1, TRUE) \in Item /\ sent' \in 0 .. MaxSends
    BY <1>0, <1>12, <1>n DEF Send, Entry, Item
  <2> DEFINE x == Entry(0, sent + 1, TRUE)
  <2> HIDE DEF x
  <2>x. x \in Item /\ list' = Append(list, x)
    BY <1>12, <2>1 DEF Send, x
  <2>2. list' \in Seq(Item)
    BY <1>0, <2>x
  <2>3. outbox' \subseteq 1 .. sent'
    BY <1>0, <1>12, <1>n DEF Send
  <2> QED BY <1>0, <1>12, <2>1, <2>2, <2>3 DEF Send, TypeOK
<1>13. ASSUME NEW c \in outbox, SendLost(c) PROVE TypeOK'
  BY <1>0, <1>13, <1>c DEF SendLost, Because, TypeOK
<1>14. CASE LoadMore
  <2>1. list[1].m \in Numbers
    <3>1. Len(list) >= Page /\ Len(list) \in Nat
      BY <1>0, <1>14 DEF LoadMore
    <3>2. 1 \in 1 .. Len(list)
      BY <1>n, <3>1
    <3>3. list[1] \in Item
      BY <1>0, <3>2
    <3> QED BY <3>3 DEF Item
  <2> QED BY <1>0, <1>14, <1>n, <1>c, <2>1 DEF LoadMore, Because, TypeOK
<1>15. CASE Older
  <2>1. LastPage(posted, more.before) \in Seq(Numbers)
    BY <1>n, PageTypes
  <2>2. more' = [pc |-> "served", before |-> more.before, rows |-> LastPage(posted, more.before)]
    BY <1>0, <1>15 DEF Older
  <2> QED BY <1>0, <1>15, <1>c, <2>1, <2>2 DEF Older, Because, TypeOK
<1>16. CASE OlderShown
  <2>1. Entries(more.rows, FALSE) \in Seq(Item)
    BY <1>0, EntriesAreItems
  <2>2. list' \in Seq(Item)
    BY <1>0, <1>16, <2>1, ConcatProperties DEF OlderShown
  <2>3. hasMore' \in BOOLEAN /\ more' = [pc |-> "idle", before |-> 0, rows |-> <<>>]
    BY <1>16 DEF OlderShown, NoMore
  <2>4. more' \in [pc : {"idle", "asked", "served"}, before : Numbers, rows : Seq(Numbers)]
    BY <1>n, <2>3
  <2> QED BY <1>0, <1>16, <2>2, <2>3, <2>4 DEF OlderShown, TypeOK
<1>17. CASE OlderFails
  BY <1>0, <1>17, <1>n DEF OlderFails, NoMore, TypeOK
<1>18. CASE OtherChat
  BY <1>0, <1>18, <1>c DEF OtherChat, Because, TypeOK
<1>19. CASE UNCHANGED vars
  BY <1>0, <1>19 DEF vars, TypeOK
<1>20. CASE PostByOther
  <2>1. 0 \in 0 .. sent /\ Post(0) /\ outbox' \subseteq outbox
    BY <1>0, <1>20 DEF PostByOther
  <2> QED BY <1>7, <2>1
<1>21. ASSUME NEW c \in outbox, PostSent(c) PROVE TypeOK'
  <2>1. c \in 0 .. sent /\ Post(c) /\ outbox' \subseteq outbox
    BY <1>0, <1>21 DEF PostSent
  <2> QED BY <1>7, <2>1
<1>22. ASSUME NEW e \in pending, PublishMessage(e) \/ PublishDeletion(e) \/ PublishFails(e)
       PROVE  TypeOK'
  <2>1. /\ UNCHANGED <<posted, gone, list, hasMore, hist, more, up, opening, sent, outbox>>
        /\ pending' \subseteq pending /\ deleting' \subseteq deleting
        /\ queue' = queue \/ queue' = Append(queue, e)
    BY <1>22 DEF PublishMessage, PublishDeletion, PublishFails, Publish
  <2>2. queue' \in Seq(Event)
    <3>1. queue \in Seq(Event) /\ e \in Event
      BY <1>0
    <3>2. Append(queue, e) \in Seq(Event)
      BY <3>1
    <3> QED BY <2>1, <3>1, <3>2
  <2>3. cause' \in Causes
    BY <1>0, <1>22, <1>c DEF PublishMessage, PublishDeletion, PublishFails, Because
  <2> QED BY <1>0, <2>1, <2>2, <2>3 DEF TypeOK
<1> QED BY <1>1, <1>2, <1>3, <1>4, <1>5, <1>6, <1>8, <1>9, <1>10, <1>11, <1>12, <1>13,
           <1>14, <1>15, <1>16, <1>17, <1>18, <1>19, <1>20, <1>21, <1>22 DEF Next

------------------------------------------------------------------------------
(* Why it holds, as long as nothing is excused.                            *)

Live == 1 .. posted \ gone
Events == {queue[i] : i \in DOMAIN queue}
            \cup {e \in pending : e.kind = "delete" \/ e.m > hist.top}
InQueue == {queue[i].m : i \in {j \in DOMAIN queue : queue[j].kind = "message"}}
Waiting == {e.m : e \in {f \in pending : f.kind = "message" /\ f.m > hist.top}}
Queued == {e.m : e \in {f \in Events : f.kind = "message"}}
Paged == {more.rows[i] : i \in DOMAIN more.rows}
Known == (Listed \ {0}) \cup Awaited \cup Queued

\* A message is in one place and there once.
Once ==
  /\ \A i, j \in DOMAIN list : list[i].m = list[j].m /\ list[i].m # 0 => i = j
  /\ \A i, j \in DOMAIN opening : opening[i].m = opening[j].m => i = j
  /\ Listed \cap Awaited = {} /\ 0 \notin Awaited \cup Queued
  /\ (Listed \cup Awaited) \cap Queued = {}
  /\ \A m \in Known : m <= posted

\* An event is published once, a message's before that of its deletion and only when
\* the page has it not; a client_id comes back in one event.
InLine ==
  /\ \A i, j \in DOMAIN queue :
       /\ queue[i].kind = "message" /\ queue[j].kind = "message" /\ queue[i].m = queue[j].m => i = j
       /\ queue[i].kind = "message" /\ queue[j].kind = "delete" /\ queue[i].m = queue[j].m => i < j
       /\ queue[i].c = queue[j].c /\ queue[i].c # 0 => i = j
  /\ \A i \in DOMAIN queue : queue[i].kind = "message" => queue[i].m > hist.top
  /\ \A i \in DOMAIN queue, e \in pending :
       /\ queue[i].kind = e.kind => queue[i].m # e.m
       /\ queue[i].c = e.c => e.c = 0
  /\ \A e, f \in pending : e.c = f.c /\ e.c # 0 => e = f

\* What was deleted is taken out of wherever it is, after it has come; or it is still
\* to be published, which will be excused if its deletion was.
Leaving ==
  /\ \A e \in Events : e.kind = "delete" => e.m \in gone
  /\ \A m \in gone \cap (Known \cup Paged) :
       \/ \E e \in Events : e.kind = "delete" /\ e.m = m
       \/ m \in deleting \ InQueue
       \/ m \in Waiting

\* What was sent is shown once, and without a number until it comes back.
Owed == (outbox \cup {e.c : e \in Events} \cup {opening[i].c : i \in DOMAIN opening}) \ {0}
Echoed ==
  /\ \A i, j \in DOMAIN list : list[i].c = list[j].c /\ list[i].c # 0 => i = j
  /\ \A i \in DOMAIN list : list[i].c <= sent /\ (list[i].m = 0 => list[i].c \in Owed)
  /\ \A c \in Owed : c <= sent /\ \E i \in DOMAIN list : list[i] = Entry(0, c, TRUE)
  /\ \A i, j \in DOMAIN opening : opening[i].c = opening[j].c /\ opening[i].c # 0 => i = j
  /\ \A i \in DOMAIN opening, e \in Events : opening[i].c = e.c => e.c = 0
  /\ \A e \in Events : e.c \notin outbox /\ (e.kind = "delete" => e.c = 0)
  /\ \A i \in DOMAIN opening : opening[i].c \notin outbox

\* From any message that is there on, all are; with no more to ask for, all are; and
\* an older page goes on below them.
NoGap(rows, there) ==
  /\ \A i \in DOMAIN rows : \A m \in Live : m >= rows[i] => m \in there
  /\ Len(rows) < Page => Live \subseteq there
Gapless ==
  /\ \A k \in Known, m \in Live : m >= k => m \in Known
  /\ ~hasMore => Live \subseteq Known
  /\ more.pc = "asked" =>
       /\ more.before \in 1 .. posted /\ \A m \in Known : more.before <= m
       /\ \A m \in Live : more.before <= m => m \in Known
  /\ more.pc = "served" =>
       /\ \A i, j \in DOMAIN more.rows : i < j => more.rows[i] < more.rows[j]
       /\ \A i \in DOMAIN more.rows :
            more.rows[i] \in 1 .. posted /\ \A m \in Known : more.rows[i] < m
       /\ Len(more.rows) <= Page /\ NoGap(more.rows, Known \cup Paged)

\* What the server has committed and not published yet.
Committed ==
  /\ \A e \in pending : /\ e.m \in 1 .. posted
                        /\ e.kind = "delete" => e.m \in gone /\ e.c = 0
                        /\ hist.pc # "over" \/ e.m <= hist.top => e.c = 0
  /\ \A e, f \in pending : e.kind = f.kind /\ e.m = f.m => e = f
  /\ hist.top <= posted

\* What the page asked for lacks, or has too much, is still to be published.
Served ==
  hist.pc = "served" =>
    /\ \A i, j \in DOMAIN hist.rows : i < j => hist.rows[i] < hist.rows[j]
    /\ \A i \in DOMAIN hist.rows : /\ hist.rows[i] \in 1 .. hist.top
                                   /\ hist.rows[i] \in gone => Unpublished(hist.rows[i])
    /\ NoGap(hist.rows, {hist.rows[i] : i \in DOMAIN hist.rows} \cup Waiting)

\* The copy is replaced by a page before anything else happens.
Closed ==
  /\ ~up => queue = <<>>
  /\ more.pc # "served" => more.rows = <<>>
  /\ hist.pc # "over" => ~up /\ opening = <<>> /\ sent = 0

Loading == Closed /\ Committed /\ Served
Steady == Once /\ InLine /\ Leaving /\ Echoed /\ Gapless
TalkInv == cause = "none" => Loading /\ (hist.pc = "over" => Steady)

------------------------------------------------------------------------------
(* What is on its way, and the list until it is first shown.               *)

\* What the lists hold, place by place.
LEMMA Places ==
  ASSUME ConversationAssumption, TypeOK
  PROVE  /\ Len(list) \in Nat /\ DOMAIN list = 1 .. Len(list)
         /\ \A i \in DOMAIN list : list[i].m \in Nat /\ list[i].c \in Nat
         /\ Len(opening) \in Nat /\ DOMAIN opening = 1 .. Len(opening)
         /\ \A i \in DOMAIN opening : opening[i] \in Event /\ opening[i].m \in Nat /\ opening[i].c \in Nat
         /\ Len(queue) \in Nat /\ DOMAIN queue = 1 .. Len(queue)
         /\ \A i \in DOMAIN queue : queue[i] \in Event /\ queue[i].m \in Nat /\ queue[i].c \in Nat
         /\ Len(more.rows) \in Nat /\ DOMAIN more.rows = 1 .. Len(more.rows)
         /\ \A i \in DOMAIN more.rows : more.rows[i] \in Nat
         /\ \A e \in pending : e \in Event /\ e.m \in Nat /\ e.c \in Nat
         /\ hist.top \in Nat
         /\ posted \in Nat /\ sent \in Nat /\ outbox \subseteq 1 .. sent
         /\ deleting \subseteq gone /\ gone \subseteq 1 .. posted
         /\ Page \in Nat /\ Page # 0
<1>1. Numbers \subseteq Nat /\ 0 .. MaxSends \subseteq Nat
  BY DEF ConversationAssumption, Numbers
<1>2. list \in Seq(Item) /\ opening \in Seq(Event) /\ queue \in Seq(Event) /\ more.rows \in Seq(Numbers)
  BY DEF TypeOK
<1>3. /\ \A x \in Item : x.m \in Nat /\ x.c \in Nat
      /\ \A x \in Event : x.m \in Nat /\ x.c \in Nat
  BY <1>1 DEF Item, Event
<1>4. Len(list) \in Nat /\ DOMAIN list = 1 .. Len(list) /\ \A i \in DOMAIN list : list[i] \in Item
  BY <1>2
<1>5. Len(opening) \in Nat /\ DOMAIN opening = 1 .. Len(opening) /\ \A i \in DOMAIN opening : opening[i] \in Event
  BY <1>2
<1>6. Len(queue) \in Nat /\ DOMAIN queue = 1 .. Len(queue) /\ \A i \in DOMAIN queue : queue[i] \in Event
  BY <1>2
<1>7. Len(more.rows) \in Nat /\ DOMAIN more.rows = 1 .. Len(more.rows) /\ \A i \in DOMAIN more.rows : more.rows[i] \in Nat
  <2>1. /\ Len(more.rows) \in Nat /\ DOMAIN more.rows = 1 .. Len(more.rows)
        /\ \A i \in DOMAIN more.rows : more.rows[i] \in Numbers
    BY <1>2
  <2> QED BY <1>1, <2>1
<1>8. posted \in Nat /\ sent \in Nat /\ hist.top \in Nat /\ pending \subseteq Event
  BY <1>1 DEF TypeOK
<1>9. Page \in Nat /\ Page # 0 /\ deleting \subseteq gone /\ gone \subseteq 1 .. posted /\ outbox \subseteq 1 .. sent
  BY DEF ConversationAssumption, TypeOK
<1> QED BY <1>3, <1>4, <1>5, <1>6, <1>7, <1>8, <1>9

\* What is excused once stays so.
LEMMA StaysBlamed ==
  ASSUME Next, cause' = "none" PROVE cause = "none"
<1>1. CASE cause' = cause
  BY <1>1
<1>2. CASE HistoryShown \/ HistoryFails \/ Connect \/ Disconnect \/ PostByOther \/ Deliver
           \/ LoadMore \/ Older \/ OtherChat
  BY <1>2 DEF HistoryShown, HistoryFails, Connect, Disconnect, PostByOther, Post, Deliver,
     LoadMore, Older, OtherChat, Because
<1>7. ASSUME NEW e \in pending, PublishMessage(e) \/ PublishDeletion(e) \/ PublishFails(e)
      PROVE  cause = "none"
  BY <1>7 DEF PublishMessage, PublishDeletion, PublishFails, Because
<1>3. ASSUME NEW m \in 1 .. posted, NEW own \in BOOLEAN, Delete(m, own) PROVE cause = "none"
  BY <1>3 DEF Delete, Because
<1>4. ASSUME NEW m \in deleting, DeleteAnswered(m) PROVE cause = "none"
  BY <1>4 DEF DeleteAnswered, Because
<1>5. ASSUME NEW c \in outbox, PostSent(c) \/ SendLost(c) PROVE cause = "none"
  BY <1>5 DEF PostSent, Post, SendLost, Because
<1>6. CASE OpenChat \/ History \/ Send \/ OlderShown \/ OlderFails \/ \E i \in DOMAIN opening : Opened(i)
  BY <1>1, <1>6 DEF OpenChat, History, Send, OlderShown, OlderFails, Opened
<1> QED BY <1>2, <1>3, <1>4, <1>5, <1>6, <1>7 DEF Next

\* What the excuses leave of publishing: a message comes if and only if the page had
\* not been asked for when it was committed, and never after its deletion ...
LEMMA MessageIsHeard ==
  ASSUME ConversationAssumption, TypeOK, NEW e \in pending, PublishMessage(e), cause' = "none"
  PROVE  /\ up => e.m > hist.top /\ (e.m \in gone => Unpublished(e.m))
         /\ ~up /\ Asked => ~(e.m > hist.top)
<1>1. e.m \in Nat /\ hist.top \in Nat /\ up \in BOOLEAN
  BY Places DEF TypeOK
<1>2. up => ~(e.m <= hist.top) /\ (e.m \in gone => Unpublished(e.m))
  BY DEF PublishMessage, Because
<1>3. ~up /\ Asked => ~(e.m > hist.top)
  BY DEF PublishMessage, Because
<1> QED BY <1>1, <1>2, <1>3

\* ... and a deletion comes, unless its own answer tells of it.
LEMMA DeletionIsHeard ==
  ASSUME NEW e \in pending, PublishDeletion(e), cause' = "none", Asked
  PROVE  up \/ (e.m \in deleting /\ hist.pc = "over")
  BY DEF PublishDeletion, Because

\* Until the answer is shown, the socket is closed and nothing was sent.
LEMMA ClosedKeeps ==
  ASSUME ConversationAssumption, TypeOK, Closed, Next, cause = "none", cause' = "none"
  PROVE  Closed'
<1>0. /\ up \in BOOLEAN
      /\ ~up => queue = <<>>
      /\ more.pc # "served" => more.rows = <<>>
      /\ hist.pc # "over" => ~up /\ opening = <<>> /\ sent = 0
  BY DEF Closed, TypeOK
<1> SUFFICES /\ ~up' => queue' = <<>>
             /\ more'.pc # "served" => more'.rows = <<>>
             /\ hist'.pc # "over" => ~up' /\ opening' = <<>> /\ sent' = 0
  BY DEF Closed
<1>1. CASE OpenChat
  BY <1>0, <1>1 DEF OpenChat
<1>2. CASE History
  BY <1>0, <1>2 DEF History
<1>3. CASE HistoryShown
  BY <1>0, <1>3 DEF HistoryShown
<1>4. CASE HistoryFails
  BY <1>0, <1>4 DEF HistoryFails
<1>5. CASE Connect
  BY <1>0, <1>5 DEF Connect, Because
<1>6. CASE Disconnect
  BY <1>0, <1>6 DEF Disconnect
<1>7. CASE (\E c : Post(c)) \/ (\E m \in 1 .. posted, own \in BOOLEAN : Delete(m, own))
  BY <1>0, <1>7 DEF Post, Delete
<1>8. CASE \E e \in pending : PublishMessage(e) \/ PublishDeletion(e) \/ PublishFails(e)
  <2>1. /\ UNCHANGED <<hist, more, up, opening, sent>>
        /\ ~up => queue' = queue
    BY <1>8 DEF PublishMessage, PublishDeletion, PublishFails, Publish
  <2> QED BY <1>0, <2>1
<1>9. CASE Deliver
  BY <1>0, <1>9 DEF Deliver
<1>10. CASE \E m \in deleting : DeleteAnswered(m)
  BY <1>0, <1>10 DEF DeleteAnswered
<1>11. CASE \E i \in DOMAIN opening : Opened(i)
  <2>1. opening # <<>>
    BY <1>11
  <2> QED BY <1>0, <1>11, <2>1 DEF Opened
<1>12. CASE Send
  BY <1>0, <1>12 DEF Send
<1>13. CASE \E c \in outbox : SendLost(c)
  BY <1>0, <1>13 DEF SendLost
<1>14. CASE LoadMore
  BY <1>0, <1>14 DEF LoadMore
<1>15. CASE Older
  <2>1. more'.pc = "served"
    BY <1>15 DEF Older, TypeOK
  <2> QED BY <1>0, <1>15, <2>1 DEF Older
<1>16. CASE OlderShown
  BY <1>0, <1>16 DEF OlderShown, NoMore
<1>17. CASE OlderFails
  BY <1>0, <1>17 DEF OlderFails, NoMore
<1>18. CASE OtherChat
  BY <1>0, <1>18 DEF OtherChat
<1> QED BY <1>1, <1>2, <1>3, <1>4, <1>5, <1>6, <1>7, <1>8, <1>9, <1>10, <1>11, <1>12, <1>13,
           <1>14, <1>15, <1>16, <1>17, <1>18 DEF Next, PostByOther, PostSent

\* A message gets a number of its own, and is deleted once.
LEMMA CommittedKeeps ==
  ASSUME ConversationAssumption, TypeOK, Loading, Next
  PROVE  Committed'
<1>0. /\ \A e \in pending : /\ e.m \in 1 .. posted
                            /\ e.kind = "delete" => e.m \in gone /\ e.c = 0
                            /\ hist.pc # "over" \/ e.m <= hist.top => e.c = 0
      /\ \A e, f \in pending : e.kind = f.kind /\ e.m = f.m => e = f
      /\ hist.top <= posted /\ hist.top \in Nat /\ posted \in Nat
  BY Places DEF Loading, Committed
<1>1. ASSUME pending' \subseteq pending, posted' = posted, gone' = gone, hist'.top = hist.top,
             hist'.pc # "over" => hist.pc # "over"
      PROVE  Committed'
  BY <1>0, <1>1 DEF Committed
<1>2. CASE OpenChat \/ History
  <2>1. /\ hist.pc # "over" /\ (hist'.top = 0 \/ hist'.top = posted)
        /\ UNCHANGED <<posted, gone, pending>>
    <3>1. CASE OpenChat
      BY <3>1 DEF OpenChat, NoHist
    <3>2. CASE History
      BY <3>2 DEF History
    <3> QED BY <1>2, <3>1, <3>2
  <2> QED BY <1>0, <2>1 DEF Committed
<1>3. CASE HistoryShown \/ HistoryFails
  <2>1. hist'.top = hist.top /\ hist'.pc = "over" /\ UNCHANGED <<posted, gone, pending>>
    BY <1>3 DEF HistoryShown, HistoryFails, TypeOK
  <2> QED BY <1>1, <2>1
<1>4. ASSUME NEW c \in Nat, Post(c), hist.pc # "over" => c = 0 PROVE Committed'
  <2> DEFINE n == [kind |-> "message", m |-> posted + 1, c |-> c]
  <2>1. /\ posted' = posted + 1 /\ pending' = pending \cup {n} /\ gone' = gone /\ hist' = hist
        /\ n.kind = "message" /\ n.m = posted + 1 /\ n.c = c
    BY <1>4 DEF Post
  <2> HIDE DEF n
  <2>2. \A e \in pending' : /\ e.m \in 1 .. posted'
                            /\ e.kind = "delete" => e.m \in gone' /\ e.c = 0
                            /\ hist'.pc # "over" \/ e.m <= hist'.top => e.c = 0
    BY <1>0, <1>4, <2>1
  <2>3. \A e, f \in pending' : e.kind = f.kind /\ e.m = f.m => e = f
    <3>1. \A e \in pending : e.m # n.m
      BY <1>0, <2>1
    <3> QED BY <1>0, <2>1, <3>1
  <2> QED BY <1>0, <2>1, <2>2, <2>3 DEF Committed
<1>5. CASE PostByOther
  BY <1>4, <1>5 DEF PostByOther
<1>6. ASSUME NEW c \in outbox, PostSent(c) PROVE Committed'
  <2>1. c \in Nat /\ (hist.pc # "over" => outbox = {})
    BY Places DEF Loading, Closed
  <2> QED BY <1>4, <1>6, <2>1 DEF PostSent
<1>7. ASSUME NEW m \in 1 .. posted, NEW own \in BOOLEAN, Delete(m, own) PROVE Committed'
  <2> DEFINE n == [kind |-> "delete", m |-> m, c |-> 0]
  <2>1. /\ gone' = gone \cup {m} /\ m \notin gone /\ pending' = pending \cup {n}
        /\ posted' = posted /\ hist' = hist
        /\ n.kind = "delete" /\ n.m = m /\ n.c = 0
    BY <1>7 DEF Delete
  <2> HIDE DEF n
  <2>2. \A e \in pending' : /\ e.m \in 1 .. posted'
                            /\ e.kind = "delete" => e.m \in gone' /\ e.c = 0
                            /\ hist'.pc # "over" \/ e.m <= hist'.top => e.c = 0
    BY <1>0, <2>1
  <2>3. \A e, f \in pending' : e.kind = f.kind /\ e.m = f.m => e = f
    <3>1. \A e \in pending : e.kind = "delete" => e.m # n.m
      BY <1>0, <2>1
    <3> QED BY <1>0, <2>1, <3>1
  <2> QED BY <1>0, <2>1, <2>2, <2>3 DEF Committed
<1>8. CASE \E e \in pending : PublishMessage(e) \/ PublishDeletion(e) \/ PublishFails(e)
  <2>1. pending' \subseteq pending /\ UNCHANGED <<posted, gone, hist>>
    BY <1>8 DEF PublishMessage, PublishDeletion, PublishFails, Publish
  <2> QED BY <1>1, <2>1
<1>9. CASE \/ Connect \/ Disconnect \/ Deliver \/ Send \/ LoadMore \/ Older \/ OlderShown \/ OlderFails
           \/ OtherChat
  <2>1. UNCHANGED <<posted, gone, pending, hist>>
    BY <1>9 DEF Connect, Disconnect, Deliver, Send, LoadMore, Older, OlderShown, OlderFails, OtherChat
  <2> QED BY <1>1, <2>1
<1>10. CASE \/ \E m \in deleting : DeleteAnswered(m)
            \/ \E i \in DOMAIN opening : Opened(i)
            \/ \E c \in outbox : SendLost(c)
  <2>1. UNCHANGED <<posted, gone, pending, hist>>
    BY <1>10 DEF DeleteAnswered, Opened, SendLost
  <2> QED BY <1>1, <2>1
<1> QED BY <1>2, <1>3, <1>5, <1>6, <1>7, <1>8, <1>9, <1>10 DEF Next

\* Nothing is heard, or lost, between the server's answer and the list it becomes.
LEMMA ServedKeeps ==
  ASSUME ConversationAssumption, TypeOK, Loading, Next, cause = "none", cause' = "none"
  PROVE  Served'
<1> SUFFICES ASSUME hist'.pc = "served" PROVE Served'
  BY DEF Served
<1>1. CASE History
  <2> DEFINE p == LastPage(posted, 0)
  <2>1. /\ p \in Seq(1 .. posted) /\ Len(p) <= Page
        /\ \A i, j \in 1 .. Len(p) : i < j => p[i] < p[j]
        /\ \A i \in 1 .. Len(p) : p[i] \in Live
        /\ \A i \in 1 .. Len(p), m \in Live : p[i] <= m => \E j \in 1 .. Len(p) : p[j] = m
        /\ Len(p) < Page => \A m \in Live : \E j \in 1 .. Len(p) : p[j] = m
    <3> DEFINE ms == {m \in 1 .. posted \ gone : 0 = 0 \/ (0 \notin gone /\ m < 0)}
    <3>1. posted \in Nat /\ ms = Live
      BY Places DEF Live
    <3>2. /\ p \in Seq(1 .. posted) /\ Len(p) <= Page
          /\ \A i, j \in 1 .. Len(p) : i < j => p[i] < p[j]
          /\ \A i \in 1 .. Len(p) : p[i] \in ms
          /\ \A i \in 1 .. Len(p), m \in ms : p[i] <= m => \E j \in 1 .. Len(p) : p[j] = m
          /\ Len(p) < Page => \A m \in ms : \E j \in 1 .. Len(p) : p[j] = m
      <4> HIDE DEF ms
      <4> QED BY <3>1, PageIsATail, Zenon DEF ms
    <3> HIDE DEF ms, p
    <3> QED BY <3>1, <3>2
  <2>2. hist'.rows = p /\ hist'.top = posted /\ gone' = gone /\ posted' = posted
    BY <1>1 DEF History
  <2> HIDE DEF p
  <2>3. /\ DOMAIN p = 1 .. Len(p) /\ Len(p) \in Nat
        /\ \A i \in 1 .. Len(p) : p[i] \in Nat /\ p[i] \in 1 .. posted
    <3> DEFINE S == 1 .. posted
    <3>1. p \in Seq(S)
      BY <2>1
    <3> HIDE DEF S
    <3>2. Len(p) \in Nat /\ DOMAIN p = 1 .. Len(p) /\ \A i \in 1 .. Len(p) : p[i] \in S
      BY <3>1
    <3>3. Len(p) \in Nat /\ DOMAIN p = 1 .. Len(p) /\ \A i \in 1 .. Len(p) : p[i] \in 1 .. posted
      BY <3>2 DEF S
    <3> QED BY <3>3, Places
  <2>4. Live' = Live /\ \A m \in Live : m \in Nat /\ m \notin gone
    BY <2>2, Places DEF Live
  <2>6. /\ \A i \in DOMAIN p : \A m \in Live' : m >= p[i] => m \in {p[j] : j \in DOMAIN p}
        /\ Len(p) < Page => Live' \subseteq {p[j] : j \in DOMAIN p}
    <3>1. ASSUME NEW i \in 1 .. Len(p), NEW m \in Live, m >= p[i] PROVE m \in {p[j] : j \in 1 .. Len(p)}
      <4>1. p[i] <= m
        BY <2>3, <2>4, <3>1
      <4> QED BY <2>1, <4>1
    <3>2. Len(p) < Page => \A m \in Live : m \in {p[j] : j \in 1 .. Len(p)}
      BY <2>1
    <3> QED BY <2>3, <2>4, <3>1, <3>2
  <2>7. NoGap(hist.rows, {hist.rows[i] : i \in DOMAIN hist.rows} \cup Waiting)'
    BY <2>2, <2>6 DEF NoGap
  <2>8. \A i, j \in DOMAIN p : i < j => p[i] < p[j]
    BY <2>1, <2>3
  <2>9. \A i, j \in DOMAIN hist'.rows : i < j => hist'.rows[i] < hist'.rows[j]
    BY <2>2, <2>8
  <2>5. \A i \in DOMAIN p : p[i] \in 1 .. hist'.top /\ p[i] \notin gone'
    BY <2>1, <2>2, <2>3, <2>4
  <2>10. \A i \in DOMAIN hist'.rows :
           hist'.rows[i] \in 1 .. hist'.top /\ hist'.rows[i] \notin gone'
    BY <2>2, <2>5
  <2> QED BY <2>7, <2>9, <2>10 DEF Served
<1>2. ASSUME hist' = hist PROVE
        /\ hist.pc = "served" /\ ~up /\ sent = 0 /\ Asked
        /\ \A i, j \in DOMAIN hist.rows : i < j => hist.rows[i] < hist.rows[j]
        /\ \A i \in DOMAIN hist.rows : /\ hist.rows[i] \in 1 .. hist.top
                                       /\ hist.rows[i] \in gone => Unpublished(hist.rows[i])
        /\ NoGap(hist.rows, {hist.rows[i] : i \in DOMAIN hist.rows} \cup Waiting)
        /\ hist.top <= posted /\ hist.top \in Nat /\ posted \in Nat
  <2>1. hist.pc = "served"
    BY <1>2
  <2> QED BY <2>1, Places DEF Loading, Closed, Committed, Served, Asked
<1>3. ASSUME hist' = hist, Live' \subseteq Live, Waiting \subseteq Waiting',
             \A m \in 1 .. posted : m \in gone' => (m \in gone /\ (Unpublished(m) => Unpublished(m)')) \/ Unpublished(m)'
      PROVE  Served'
  <2>1. \A i \in DOMAIN hist.rows : hist.rows[i] \in gone' => Unpublished(hist.rows[i])'
    BY <1>2, <1>3
  <2>2. NoGap(hist.rows, {hist.rows[i] : i \in DOMAIN hist.rows} \cup Waiting)'
    BY <1>2, <1>3 DEF NoGap
  <2> QED BY <1>2, <1>3, <2>1, <2>2 DEF Served
<1>4. ASSUME NEW c, Post(c) PROVE Served'
  <2> DEFINE n == [kind |-> "message", m |-> posted + 1, c |-> c]
  <2>1. /\ posted' = posted + 1 /\ pending' = pending \cup {n} /\ gone' = gone /\ hist' = hist
        /\ n.kind = "message" /\ n.m = posted + 1
    BY <1>4 DEF Post
  <2> HIDE DEF n
  <2>2. n.m > hist.top
    BY <1>2, <2>1
  <2>3. Waiting \subseteq Waiting' /\ n.m \in Waiting'
    BY <2>1, <2>2 DEF Waiting
  <2>4. \A m \in Live' : m \in Live \/ m \in Waiting'
    BY <1>2, <2>1, <2>3 DEF Live
  <2>5. \A m : Unpublished(m) => Unpublished(m)'
    BY <2>1 DEF Unpublished
  <2>6. NoGap(hist.rows, {hist.rows[i] : i \in DOMAIN hist.rows} \cup Waiting)'
    BY <1>2, <2>1, <2>3, <2>4 DEF NoGap
  <2> QED BY <1>2, <2>1, <2>5, <2>6 DEF Served
<1>5. ASSUME NEW m \in 1 .. posted, NEW own \in BOOLEAN, Delete(m, own) PROVE Served'
  <2> DEFINE n == [kind |-> "delete", m |-> m, c |-> 0]
  <2>1. /\ gone' = gone \cup {m} /\ pending' = pending \cup {n} /\ posted' = posted /\ hist' = hist
        /\ n.kind = "delete" /\ n.m = m
    BY <1>5 DEF Delete
  <2> HIDE DEF n
  <2>2. Waiting \subseteq Waiting' /\ Live' \subseteq Live
    BY <2>1 DEF Waiting, Live
  <2>3. Unpublished(m)' /\ \A x : Unpublished(x) => Unpublished(x)'
    BY <2>1 DEF Unpublished
  <2>4. \A x \in 1 .. posted : x \in gone' => (x \in gone /\ (Unpublished(x) => Unpublished(x)')) \/ Unpublished(x)'
    BY <2>1, <2>3
  <2> QED BY <1>3, <2>1, <2>2, <2>4
<1>6. ASSUME NEW e \in pending, PublishMessage(e) PROVE Served'
  <2>1. pending' = pending \ {e} /\ UNCHANGED <<posted, gone, hist>> /\ e.kind = "message"
    BY <1>6 DEF PublishMessage, Publish
  <2>2. ~(e.m > hist.top)
    BY <1>2, <1>6, <2>1, MessageIsHeard
  <2>3. Waiting' = Waiting /\ Live' = Live
    BY <2>1, <2>2 DEF Waiting, Live
  <2>4. \A x : Unpublished(x) => Unpublished(x)'
    BY <2>1 DEF Unpublished
  <2> QED BY <1>3, <2>1, <2>3, <2>4
<1>7. ASSUME NEW e \in pending, PublishDeletion(e) PROVE FALSE
  <2>1. hist' = hist
    BY <1>7 DEF PublishDeletion, Publish
  <2> QED BY <1>2, <1>7, <2>1, DeletionIsHeard
<1>8. ASSUME NEW e \in pending, PublishFails(e) PROVE FALSE
  <2>1. hist' = hist
    BY <1>8 DEF PublishFails
  <2> QED BY <1>2, <1>8, <2>1 DEF PublishFails, Because
<1>9. CASE OpenChat
  <2>1. hist'.pc = "asked"
    BY <1>9 DEF OpenChat, NoHist
  <2> QED BY <2>1
<1>10. CASE HistoryShown \/ HistoryFails
  <2>1. hist'.pc = "over"
    BY <1>10 DEF HistoryShown, HistoryFails, TypeOK
  <2> QED BY <2>1
<1>11. ASSUME UNCHANGED <<posted, gone, pending, hist>> PROVE Served'
  <2>1. Live' = Live /\ Waiting' = Waiting /\ \A m : Unpublished(m)' = Unpublished(m)
    BY <1>11 DEF Live, Waiting, Unpublished
  <2> QED BY <1>3, <1>11, <2>1
<1>12. CASE \/ Connect \/ Disconnect \/ Deliver \/ Send \/ LoadMore \/ Older \/ OlderShown \/ OlderFails
            \/ OtherChat
  BY <1>11, <1>12 DEF Connect, Disconnect, Deliver, Send, LoadMore, Older, OlderShown, OlderFails, OtherChat
<1>13. CASE \/ \E m \in deleting : DeleteAnswered(m)
            \/ \E i \in DOMAIN opening : Opened(i)
            \/ \E c \in outbox : SendLost(c)
  BY <1>11, <1>13 DEF DeleteAnswered, Opened, SendLost
<1> QED BY <1>1, <1>4, <1>5, <1>6, <1>7, <1>8, <1>9, <1>10, <1>12, <1>13
        DEF Next, PostByOther, PostSent

\* Together.
LEMMA LoadingKeeps ==
  ASSUME ConversationAssumption, TypeOK, Loading, Next, cause = "none", cause' = "none"
  PROVE  Loading'
BY ClosedKeeps, CommittedKeeps, ServedKeeps DEF Loading

------------------------------------------------------------------------------
(* Messages that come, and that are deleted.                               *)

Calm == TypeOK /\ Loading /\ Steady /\ hist.pc = "over"

\* What is said of the places stays, when these do not change.
LEMMA SamePlaces ==
  ASSUME UNCHANGED <<posted, gone, pending, list, hist, queue, opening>>
  PROVE  /\ Listed' = Listed /\ Awaited' = Awaited /\ Events' = Events /\ Queued' = Queued
         /\ InQueue' = InQueue /\ Waiting' = Waiting
         /\ Known' = Known /\ Live' = Live /\ (InLine => InLine')
<1>1. Listed' = Listed /\ Awaited' = Awaited /\ Live' = Live
  BY DEF Listed, Awaited, Live
<1>2. Events' = Events /\ InQueue' = InQueue /\ Waiting' = Waiting
  BY DEF Events, InQueue, Waiting
<1>3. Queued' = Queued
  BY <1>2 DEF Queued
<1>4. InLine => InLine'
  BY DEF InLine
<1> QED BY <1>1, <1>2, <1>3, <1>4 DEF Known

\* A step that moves no message keeps all five parts.
LEMMA RestKeeps ==
  ASSUME Steady,
         UNCHANGED <<posted, gone, pending, list, hasMore, hist, more, queue, opening, sent, outbox,
                     deleting>>
  PROVE  Steady'
<1>1. /\ Listed' = Listed /\ Awaited' = Awaited /\ Events' = Events /\ Queued' = Queued
      /\ InQueue' = InQueue /\ Waiting' = Waiting
      /\ Known' = Known /\ Live' = Live /\ (InLine => InLine')
  BY SamePlaces
<1>2. Paged' = Paged
  BY DEF Paged
<1>3. Owed' = Owed
  BY <1>1 DEF Owed
<1>4. Once' /\ InLine'
  BY <1>1, <1>3 DEF Steady, Once
<1>5. Leaving'
  BY <1>1, <1>2 DEF Steady, Leaving
<1>6. Echoed'
  BY <1>1, <1>3 DEF Steady, Echoed
<1>7. Gapless'
  BY <1>1, <1>2 DEF Steady, Gapless, NoGap
<1> QED BY <1>4, <1>5, <1>6, <1>7 DEF Steady

\* Where the messages are, as numbers.
LEMMA Numbered ==
  ASSUME ConversationAssumption, Calm
  PROVE  /\ \A m \in Known : m \in 1 .. posted
         /\ \A m \in Live : m \in 1 .. posted /\ m \notin gone
         /\ \A m \in gone : m \in 1 .. posted
         /\ \A e \in Events : e.m \in Nat /\ e.c \in Nat /\ e.kind \in {"message", "delete"}
         /\ \A c \in Owed : c \in 1 .. sent
         /\ \A m \in Listed \cup Awaited \cup Queued : m \in 0 .. posted
         /\ Queued = InQueue \cup Waiting
<1>1. \A e \in Events : e \in Event /\ e.m \in Nat /\ e.c \in Nat
  BY Places DEF Calm, Events
<1>2. \A m \in Listed \cup Awaited \cup Queued : m \in Nat
  BY <1>1, Places DEF Calm, Listed, Awaited, Queued
<1>3. 0 \notin Known /\ \A m \in Known : m <= posted
  BY DEF Calm, Steady, Once, Known
<1>4. posted \in Nat /\ sent \in Nat /\ gone \subseteq 1 .. posted /\ outbox \subseteq 1 .. sent
  BY Places DEF Calm
<1>5. \A m \in Known : m \in 1 .. posted
  BY <1>2, <1>3, <1>4 DEF Known
<1>6. \A m \in Listed \cup Awaited \cup Queued : m \in 0 .. posted
  BY <1>2, <1>4, <1>5 DEF Known
<1>7. \A c \in Owed : c \in Nat /\ c <= sent /\ c # 0
  <2>1. \A c \in Owed : c <= sent /\ c # 0
    BY DEF Calm, Steady, Echoed, Owed
  <2>2. \A c \in Owed : c \in Nat
    BY <1>1, <1>4, Places DEF Calm, Owed
  <2> QED BY <2>1, <2>2
<1>8. \A c \in Owed : c \in 1 .. sent
  BY <1>4, <1>7
<1>9. \A e \in Events : e.kind \in {"message", "delete"}
  BY <1>1 DEF Event
<1>10. Queued = InQueue \cup Waiting
  <2>1. \A m : m \in Queued => m \in InQueue \cup Waiting
    BY DEF Queued, Events, InQueue, Waiting
  <2>2. \A m : m \in InQueue \cup Waiting => m \in Queued
    BY DEF Queued, Events, InQueue, Waiting
  <2> QED BY <2>1, <2>2
<1> QED BY <1>1, <1>4, <1>5, <1>6, <1>8, <1>9, <1>10 DEF Live

\* An event more on its way.
LEMMA EventAdded ==
  ASSUME ConversationAssumption, TypeOK, NEW e \in Event, queue' = Append(queue, e)
  PROVE  /\ DOMAIN queue' = 1 .. Len(queue) + 1 /\ DOMAIN queue = 1 .. Len(queue) /\ Len(queue) \in Nat
         /\ \A j \in DOMAIN queue : queue'[j] = queue[j]
         /\ queue'[Len(queue) + 1] = e
         /\ {queue'[i] : i \in DOMAIN queue'} = {queue[i] : i \in DOMAIN queue} \cup {e}
<1>1. queue \in Seq(Event) /\ Len(queue) \in Nat /\ DOMAIN queue = 1 .. Len(queue)
  BY Places DEF TypeOK
<1>2. /\ queue' \in Seq(Event) /\ Len(queue') = Len(queue) + 1
      /\ \A j \in 1 .. Len(queue) : queue'[j] = queue[j]
      /\ queue'[Len(queue) + 1] = e
  BY <1>1, AppendProperties
<1>3. DOMAIN queue' = 1 .. Len(queue) + 1
  BY <1>2
<1>4. {queue'[i] : i \in DOMAIN queue'} = {queue[i] : i \in DOMAIN queue} \cup {e}
  BY <1>1, <1>2, <1>3
<1> QED BY <1>1, <1>2, <1>3, <1>4

\* A message that comes to the chat, one's own or another's: it is to be published.
LEMMA PostKeeps ==
  ASSUME ConversationAssumption, Calm, NEW c \in 0 .. MaxSends, Post(c), TypeOK',
         \/ c = 0 /\ outbox' = outbox
         \/ c \in outbox /\ outbox' = outbox \ {c}
  PROVE  Steady'
<1> DEFINE p == posted + 1
           e == [kind |-> "message", m |-> p, c |-> c]
<1>0. /\ posted' = p /\ pending' = pending \cup {e}
      /\ UNCHANGED <<gone, list, hasMore, hist, more, queue, opening, sent, deleting>>
  BY DEF Post
<1>1. e.kind = "message" /\ e.m = p /\ e.c = c
  OBVIOUS
<1> HIDE DEF e
<1>2. posted \in Nat /\ p \notin gone /\ hist.top \in Nat /\ hist.top <= posted /\ e.m > hist.top
  BY <1>1, Places DEF Calm, Loading, Committed
<1>3. /\ Listed' = Listed /\ Awaited' = Awaited /\ Paged' = Paged /\ InQueue' = InQueue
      /\ Events' = Events \cup {e} /\ Waiting' = Waiting \cup {p}
  <2>1. Listed' = Listed /\ Awaited' = Awaited /\ Paged' = Paged /\ InQueue' = InQueue
    BY <1>0 DEF Listed, Awaited, Paged, InQueue
  <2>2. Events' = Events \cup {e}
    BY <1>0, <1>1, <1>2 DEF Events
  <2>3. Waiting' = Waiting \cup {p}
    BY <1>0, <1>1, <1>2 DEF Waiting
  <2> QED BY <2>1, <2>2, <2>3
<1>q. Queued' = Queued \cup {p}
  BY <1>1, <1>3, Zenon DEF Queued
<1>4. Known' = Known \cup {p}
  BY <1>q, <1>3 DEF Known
<1>5. Live' = Live \cup {p}
  <2>1. 1 .. posted' = 1 .. posted \cup {p}
    BY <1>0, <1>2
  <2> QED BY <2>1, <1>0, <1>2 DEF Live
<1>6. /\ Owed' = Owed /\ c \notin {f.c : f \in Events} \ {0}
      /\ \A i \in DOMAIN opening : opening[i].c = c => c = 0
  <2>1. /\ \A f \in Events : f.c \notin outbox
        /\ \A i \in DOMAIN opening : opening[i].c \notin outbox
    BY DEF Calm, Steady, Echoed
  <2> QED BY <1>0, <1>1, <1>3, <2>1 DEF Owed
<1> HIDE DEF p
<1>7. p = posted + 1 /\ \A m \in Known : m \in 1 .. posted
  BY Numbered DEF p
<1>8. Once'
  <2>1. \A m \in Listed \cup Awaited : m # p
    BY <1>2, <1>7, Numbered
  <2>2. (Listed' \cup Awaited') \cap Queued' = {}
    BY <1>q, <1>3, <2>1 DEF Calm, Steady, Once
  <2>3. \A m \in Known' : m <= posted'
    BY <1>0, <1>2, <1>4, <1>7
  <2>4. 0 \notin Awaited' \cup Queued' /\ Listed' \cap Awaited' = {}
    BY <1>q, <1>2, <1>3, <1>7 DEF Calm, Steady, Once
  <2> QED BY <1>0, <2>2, <2>3, <2>4 DEF Calm, Steady, Once
<1>i. InLine'
  <2>1. \A i \in DOMAIN queue : queue[i].kind = "message" => queue[i].m # p
    <3> SUFFICES ASSUME NEW i \in DOMAIN queue, queue[i].kind = "message" PROVE queue[i].m # p
      OBVIOUS
    <3>1. queue[i].m \in Known
      BY DEF Known, Queued, Events
    <3> QED BY <1>2, <1>7, <3>1
  <2>2. \A i \in DOMAIN queue : queue[i].c = c => c = 0
    BY <1>6 DEF Events
  <2>3. \A f \in pending : f.c = c => c = 0
    <3> SUFFICES ASSUME NEW f \in pending, f.c = c PROVE c = 0
      OBVIOUS
    <3>1. CASE f \in Events
      BY <1>6, <3>1
    <3>2. CASE f \notin Events
      <4>1. f.m <= hist.top
        <5>1. f.m \in Nat /\ ~(f.m > hist.top)
          BY <3>2, Places DEF Events, Calm
        <5> QED BY <1>2, <5>1
      <4> QED BY <4>1 DEF Calm, Loading, Committed
    <3> QED BY <3>1, <3>2
  <2>4. \A i \in DOMAIN queue, f \in pending' :
          /\ queue[i].kind = f.kind => queue[i].m # f.m
          /\ queue[i].c = f.c => f.c = 0
    BY <1>0, <1>1, <2>1, <2>2 DEF Calm, Steady, InLine
  <2>5. \A f, g \in pending' : f.c = g.c /\ f.c # 0 => f = g
    BY <1>0, <1>1, <2>3 DEF Calm, Steady, InLine
  <2> QED BY <1>0, <2>4, <2>5 DEF Calm, Steady, InLine
<1>9. Leaving'
  <2>1. \A f \in Events' : f.kind = "delete" => f.m \in gone
    BY <1>1, <1>3 DEF Calm, Steady, Leaving
  <2>2. gone' \cap (Known' \cup Paged') = gone \cap (Known \cup Paged)
    BY <1>0, <1>2, <1>3, <1>4
  <2> QED BY <1>0, <1>3, <2>1, <2>2 DEF Calm, Steady, Leaving
<1>10. Echoed'
  <2>1. \A i \in DOMAIN opening, f \in Events' : opening[i].c = f.c => f.c = 0
    BY <1>1, <1>3, <1>6 DEF Calm, Steady, Echoed
  <2>2. \A f \in Events' : f.c \notin outbox' /\ (f.kind = "delete" => f.c = 0)
    <3>1. 0 \notin outbox
      BY Places DEF Calm
    <3> QED BY <1>1, <1>3, <3>1 DEF Calm, Steady, Echoed
  <2> QED BY <1>0, <1>6, <2>1, <2>2 DEF Calm, Steady, Echoed
<1>11. Gapless'
  <2>1. \A k \in Known', m \in Live' : m >= k => m \in Known'
    <3> SUFFICES ASSUME NEW k \in Known', NEW m \in Live', m >= k, m # p PROVE m \in Known
      BY <1>4, <1>5
    <3>1. m \in Live /\ m \in 1 .. posted
      BY <1>5, Numbered
    <3>2. k \in Known
      BY <1>2, <1>4, <1>7, <3>1
    <3> QED BY <3>1, <3>2 DEF Calm, Steady, Gapless
  <2>2. ~hasMore => Live' \subseteq Known'
    BY <1>4, <1>5 DEF Calm, Steady, Gapless
  <2>3. more.pc = "asked" =>
          /\ more.before \in 1 .. posted' /\ \A m \in Known' : more.before <= m
          /\ \A m \in Live' : more.before <= m => m \in Known'
    BY <1>0, <1>2, <1>4, <1>5, <1>7 DEF Calm, Steady, Gapless
  <2>4. more.pc = "served" =>
          /\ \A i \in DOMAIN more.rows :
               more.rows[i] \in 1 .. posted' /\ \A m \in Known' : more.rows[i] < m
          /\ NoGap(more.rows, Known \cup Paged)'
    <3>1. more.pc = "served" => NoGap(more.rows, Known \cup Paged)'
      BY <1>0, <1>3, <1>4, <1>5 DEF Calm, Steady, Gapless, NoGap
    <3> QED BY <1>0, <1>2, <1>4, <1>7, <3>1 DEF Calm, Steady, Gapless
  <2> QED BY <1>0, <2>1, <2>2, <2>3, <2>4 DEF Calm, Steady, Gapless
<1> QED BY <1>8, <1>i, <1>9, <1>10, <1>11 DEF Steady

\* A deletion on the server: it is to be published.
LEMMA DeleteKeeps ==
  ASSUME ConversationAssumption, Calm, NEW m \in 1 .. posted, NEW own \in BOOLEAN, Delete(m, own)
  PROVE  Steady'
<1> DEFINE d == [kind |-> "delete", m |-> m, c |-> 0]
<1>0. /\ gone' = gone \cup {m} /\ m \in Live /\ pending' = pending \cup {d}
      /\ UNCHANGED <<posted, list, hasMore, hist, more, queue, opening, sent, outbox>>
      /\ deleting \subseteq deleting'
  BY DEF Delete, Live
<1>1. d.kind = "delete" /\ d.m = m /\ d.c = 0
  OBVIOUS
<1> HIDE DEF d
<1>2. /\ Listed' = Listed /\ Awaited' = Awaited /\ Paged' = Paged /\ InQueue' = InQueue
      /\ Live' = Live \ {m} /\ Waiting' = Waiting /\ Events' = Events \cup {d}
  <2>1. Listed' = Listed /\ Awaited' = Awaited /\ Paged' = Paged /\ InQueue' = InQueue /\ Live' = Live \ {m}
    BY <1>0 DEF Listed, Awaited, Paged, InQueue, Live
  <2>2. Waiting' = Waiting /\ Events' = Events \cup {d}
    BY <1>0, <1>1 DEF Waiting, Events
  <2> QED BY <2>1, <2>2
<1>3. Queued' = Queued
  BY <1>1, <1>2 DEF Queued
<1>4. Known' = Known
  BY <1>2, <1>3 DEF Known
<1>5. Owed' = Owed
  BY <1>0, <1>1, <1>2 DEF Owed
<1>6. Once'
  BY <1>0, <1>2, <1>3, <1>4 DEF Calm, Steady, Once
<1>i. InLine'
  <2>1. \A i \in DOMAIN queue : queue[i].kind = "delete" => queue[i].m # m
    <3>1. \A i \in DOMAIN queue : queue[i].kind = "delete" => queue[i].m \in gone
      BY DEF Calm, Steady, Leaving, Events
    <3> QED BY <1>0, <3>1 DEF Live
  <2>2. \A i \in DOMAIN queue, f \in pending' :
          /\ queue[i].kind = f.kind => queue[i].m # f.m
          /\ queue[i].c = f.c => f.c = 0
    BY <1>0, <1>1, <2>1 DEF Calm, Steady, InLine
  <2>3. \A f, g \in pending' : f.c = g.c /\ f.c # 0 => f = g
    BY <1>0, <1>1 DEF Calm, Steady, InLine
  <2> QED BY <1>0, <2>2, <2>3 DEF Calm, Steady, InLine
<1>7. Leaving'
  <2>1. \A f \in Events' : f.kind = "delete" => f.m \in gone'
    BY <1>0, <1>1, <1>2 DEF Calm, Steady, Leaving
  <2>2. ASSUME NEW x \in gone \cup {m}, x \in Known \cup Paged
        PROVE  \/ \E e \in Events' : e.kind = "delete" /\ e.m = x
               \/ x \in deleting' \ InQueue
               \/ x \in Waiting
    <3>1. CASE x = m
      BY <1>1, <1>2, <3>1
    <3>2. CASE x \in gone
      <4>1. \/ \E e \in Events : e.kind = "delete" /\ e.m = x
            \/ x \in deleting \ InQueue
            \/ x \in Waiting
        BY <2>2, <3>2 DEF Calm, Steady, Leaving
      <4> QED BY <1>0, <1>2, <4>1
    <3> QED BY <2>2, <3>1, <3>2
  <2> QED BY <1>0, <1>2, <1>4, <2>1, <2>2 DEF Leaving
<1>8. Echoed'
  <2>1. 0 \notin outbox
    BY Places DEF Calm
  <2> QED BY <1>0, <1>1, <1>2, <1>5, <2>1 DEF Calm, Steady, Echoed
<1>9. Gapless'
  <2>1. \A rows, S : NoGap(rows, S) => NoGap(rows, S)'
    BY <1>2 DEF NoGap
  <2> QED BY <1>0, <1>2, <1>4, <2>1 DEF Calm, Steady, Gapless, NoGap
<1> QED BY <1>6, <1>i, <1>7, <1>8, <1>9 DEF Steady

\* A published event has only changed its place; or it was nothing to the list.
LEMMA SameEvents ==
  ASSUME ConversationAssumption, Calm, Events' = Events, InLine',
         UNCHANGED <<posted, gone, list, hasMore, more, opening, sent, outbox, deleting>>,
         \A m \in gone \cap (Known \cup Paged) :
            \/ \E e \in Events : e.kind = "delete" /\ e.m = m
            \/ m \in deleting \ InQueue'
            \/ m \in Waiting'
  PROVE  Steady'
<1>1. Queued' = Queued /\ Listed' = Listed /\ Awaited' = Awaited /\ Live' = Live /\ Paged' = Paged
  BY DEF Queued, Listed, Awaited, Live, Paged
<1>2. Known' = Known /\ Owed' = Owed
  BY <1>1 DEF Known, Owed
<1>3. Once'
  BY <1>1, <1>2 DEF Calm, Steady, Once
<1>4. Leaving'
  BY <1>1, <1>2 DEF Calm, Steady, Leaving
<1>5. Echoed'
  BY <1>1, <1>2 DEF Calm, Steady, Echoed
<1>6. Gapless'
  BY <1>1, <1>2 DEF Calm, Steady, Gapless, NoGap
<1> QED BY <1>3, <1>4, <1>5, <1>6 DEF Steady

\* An event is published while the socket is open.
LEMMA HeardKeeps ==
  ASSUME ConversationAssumption, Calm, NEW e \in pending, up,
         PublishMessage(e) \/ PublishDeletion(e), cause = "none", cause' = "none"
  PROVE  Steady'
<1>1. /\ pending' = pending \ {e} /\ queue' = Append(queue, e) /\ e \in Event
      /\ e.kind \in {"message", "delete"}
      /\ UNCHANGED <<posted, gone, list, hasMore, hist, more, opening, sent, outbox, deleting>>
  BY Places DEF Calm, PublishMessage, PublishDeletion, Publish
<1>2. e.kind = "message" => e.m > hist.top /\ (e.m \in gone => Unpublished(e.m))
  <2>1. CASE PublishMessage(e)
    BY <2>1, MessageIsHeard DEF Calm
  <2>2. CASE PublishDeletion(e)
    BY <2>2 DEF PublishDeletion
  <2> QED BY <2>1, <2>2
<1>3. /\ DOMAIN queue' = 1 .. Len(queue) + 1 /\ DOMAIN queue = 1 .. Len(queue) /\ Len(queue) \in Nat
      /\ \A j \in DOMAIN queue : queue'[j] = queue[j]
      /\ queue'[Len(queue) + 1] = e
      /\ {queue'[i] : i \in DOMAIN queue'} = {queue[i] : i \in DOMAIN queue} \cup {e}
  BY <1>1, EventAdded DEF Calm
<1>4. Events' = Events
  <2>1. e \in Events
    BY <1>1, <1>2 DEF Events
  <2>2. \A f : f \in Events' <=> f \in {queue[i] : i \in DOMAIN queue} \cup {e}
                                 \/ (f \in pending \ {e} /\ (f.kind = "delete" \/ f.m > hist.top))
    BY <1>1, <1>3 DEF Events
  <2> QED BY <2>1, <2>2 DEF Events
<1>5. InLine'
  <2>1. \A i \in DOMAIN queue : /\ queue[i].kind = e.kind => queue[i].m # e.m
                                /\ queue[i].c = e.c => e.c = 0
    BY DEF Calm, Steady, InLine
  <2>2. \A i \in DOMAIN queue : e.kind = "message" /\ queue[i].kind = "delete" => queue[i].m # e.m
    <3> SUFFICES ASSUME NEW i \in DOMAIN queue, e.kind = "message", queue[i].kind = "delete",
                        queue[i].m = e.m
                 PROVE  FALSE
      OBVIOUS
    <3>1. e.m \in gone
      BY DEF Calm, Steady, Leaving, Events
    <3>2. PICK f \in pending : f.kind = "delete" /\ f.m = e.m
      BY <1>2, <3>1 DEF Unpublished
    <3> QED BY <3>2 DEF Calm, Steady, InLine
  <2>3. \A f \in pending' : /\ e.kind = f.kind => e.m # f.m
                            /\ e.c = f.c => f.c = 0
    BY <1>1 DEF Calm, Steady, InLine, Loading, Committed
  <2>4. ASSUME NEW i \in DOMAIN queue', NEW j \in DOMAIN queue'
        PROVE  /\ queue'[i].kind = "message" /\ queue'[j].kind = "message" /\ queue'[i].m = queue'[j].m
                    => i = j
               /\ queue'[i].kind = "message" /\ queue'[j].kind = "delete" /\ queue'[i].m = queue'[j].m
                    => i < j
               /\ queue'[i].c = queue'[j].c /\ queue'[i].c # 0 => i = j
    <3>1. CASE i \in DOMAIN queue /\ j \in DOMAIN queue
      BY <1>3, <3>1 DEF Calm, Steady, InLine
    <3>2. CASE i = Len(queue) + 1 /\ j \in DOMAIN queue
      BY <1>3, <2>1, <2>2, <3>2
    <3>3. CASE i \in DOMAIN queue /\ j = Len(queue) + 1
      BY <1>3, <2>1, <3>3
    <3>4. CASE i = Len(queue) + 1 /\ j = Len(queue) + 1
      BY <1>3, <3>4
    <3> QED BY <1>3, <2>4, <3>1, <3>2, <3>3, <3>4
  <2>5. \A i \in DOMAIN queue' : queue'[i].kind = "message" => queue'[i].m > hist'.top
    BY <1>1, <1>2, <1>3 DEF Calm, Steady, InLine
  <2>6. \A i \in DOMAIN queue', f \in pending' :
          /\ queue'[i].kind = f.kind => queue'[i].m # f.m
          /\ queue'[i].c = f.c => f.c = 0
    BY <1>1, <1>3, <2>3 DEF Calm, Steady, InLine
  <2>7. \A f, g \in pending' : f.c = g.c /\ f.c # 0 => f = g
    BY <1>1 DEF Calm, Steady, InLine
  <2> QED BY <2>4, <2>5, <2>6, <2>7 DEF InLine
<1>6. ASSUME NEW m \in gone \cap (Known \cup Paged), ~\E f \in Events : f.kind = "delete" /\ f.m = m
      PROVE  m \in deleting \ InQueue' \/ m \in Waiting'
  <2>1. ~Unpublished(m)
    BY <1>6 DEF Unpublished, Events
  <2>2. ~(e.kind = "message" /\ e.m = m)
    BY <1>2, <1>6, <2>1
  <2>3. m \in deleting \ InQueue \/ m \in Waiting
    BY <1>6 DEF Calm, Steady, Leaving
  <2>4. m \in Waiting => m \in Waiting'
    BY <1>1, <2>2 DEF Waiting
  <2>5. m \notin InQueue => m \notin InQueue'
    <3> SUFFICES ASSUME NEW i \in DOMAIN queue', queue'[i].kind = "message", queue'[i].m = m,
                        m \notin InQueue
                 PROVE  FALSE
      BY DEF InQueue
    <3>1. CASE i \in DOMAIN queue
      BY <1>3, <3>1 DEF InQueue
    <3>2. CASE i = Len(queue) + 1
      BY <1>3, <2>2, <3>2
    <3> QED BY <1>3, <3>1, <3>2
  <2> QED BY <2>3, <2>4, <2>5
<1> QED BY <1>1, <1>4, <1>5, <1>6, SameEvents

\* An event is published while nobody listens: it is known already.
LEMMA UnheardKeeps ==
  ASSUME ConversationAssumption, Calm, NEW e \in pending, ~up,
         PublishMessage(e) \/ PublishDeletion(e), cause = "none", cause' = "none"
  PROVE  Steady'
<1>1. /\ pending' = pending \ {e} /\ queue' = queue /\ queue = <<>>
      /\ UNCHANGED <<posted, gone, list, hasMore, hist, more, opening, sent, outbox, deleting>>
  BY DEF Calm, Loading, Closed, PublishMessage, PublishDeletion, Publish
<1>2. DOMAIN queue = {} /\ InQueue = {} /\ InQueue' = {} /\ InLine'
  <2>1. DOMAIN queue = {} /\ DOMAIN queue' = {}
    BY <1>1
  <2>2. InQueue = {} /\ InQueue' = {}
    BY <2>1 DEF InQueue
  <2> QED BY <1>1, <2>1, <2>2 DEF Calm, Steady, InLine
<1>3. CASE PublishMessage(e)
  <2>1. e.kind = "message" /\ ~(e.m > hist.top)
    BY <1>3, MessageIsHeard DEF Calm, Asked, PublishMessage
  <2>2. Events' = Events /\ Waiting' = Waiting
    BY <1>1, <2>1 DEF Events, Waiting
  <2>3. \A m \in gone \cap (Known \cup Paged) :
            \/ \E f \in Events : f.kind = "delete" /\ f.m = m
            \/ m \in deleting \ InQueue'
            \/ m \in Waiting'
    BY <1>2, <2>2 DEF Calm, Steady, Leaving
  <2> QED BY <1>1, <1>2, <2>2, <2>3, SameEvents
<1>4. CASE PublishDeletion(e)
  <2>1. e.kind = "delete" /\ e.m \in deleting /\ e.c = 0
    <3>1. e.kind = "delete"
      BY <1>4 DEF PublishDeletion
    <3>2. e.m \in deleting
      BY <1>4, DeletionIsHeard DEF Calm, Asked
    <3> QED BY <3>1, <3>2 DEF Calm, Loading, Committed
  <2>2. Events' = Events \ {e} /\ Waiting' = Waiting
    BY <1>1, <1>2, <2>1 DEF Events, Waiting
  <2>3. Queued' = Queued /\ Listed' = Listed /\ Awaited' = Awaited /\ Live' = Live /\ Paged' = Paged
    <3>1. Queued' = Queued
      BY <2>1, <2>2 DEF Queued
    <3> QED BY <1>1, <3>1 DEF Listed, Awaited, Live, Paged
  <2>4. Known' = Known /\ Owed' = Owed
    <3>1. Known' = Known
      BY <2>3 DEF Known
    <3>2. {f.c : f \in Events'} \ {0} = {f.c : f \in Events} \ {0}
      BY <2>1, <2>2
    <3> QED BY <1>1, <3>1, <3>2 DEF Owed
  <2>5. Once'
    BY <1>1, <2>3, <2>4 DEF Calm, Steady, Once
  <2>6. Leaving'
    <3>1. ASSUME NEW m \in gone \cap (Known \cup Paged)
          PROVE  \/ \E f \in Events' : f.kind = "delete" /\ f.m = m
                 \/ m \in deleting \ InQueue'
                 \/ m \in Waiting'
      <4>1. \/ \E f \in Events : f.kind = "delete" /\ f.m = m
            \/ m \in deleting \ InQueue
            \/ m \in Waiting
        BY DEF Calm, Steady, Leaving
      <4>2. CASE m = e.m
        BY <1>2, <2>1, <4>2
      <4>3. CASE m # e.m
        BY <1>2, <2>2, <4>1, <4>3
      <4> QED BY <4>2, <4>3
    <3>2. \A f \in Events' : f.kind = "delete" => f.m \in gone'
      BY <1>1, <2>2 DEF Calm, Steady, Leaving
    <3> QED BY <1>1, <2>3, <2>4, <3>1, <3>2 DEF Leaving
  <2>7. Echoed'
    BY <1>1, <2>2, <2>4 DEF Calm, Steady, Echoed
  <2>8. Gapless'
    BY <1>1, <2>3, <2>4 DEF Calm, Steady, Gapless, NoGap
  <2> QED BY <1>2, <2>5, <2>6, <2>7, <2>8 DEF Steady
<1> QED BY <1>3, <1>4

\* An event is published.
LEMMA PublishKeeps ==
  ASSUME ConversationAssumption, Calm, NEW e \in pending, PublishMessage(e) \/ PublishDeletion(e),
         cause = "none", cause' = "none"
  PROVE  Steady'
BY HeardKeeps, UnheardKeeps

\* The first event leaves the queue.
LEMMA EventTaken ==
  ASSUME ConversationAssumption, TypeOK, queue # <<>>, queue' = Tail(queue),
         UNCHANGED <<pending, hist>>
  PROVE  /\ Head(queue) = queue[1] /\ queue[1] \in Event /\ Len(queue) \in Nat \ {0}
         /\ DOMAIN queue' = 1 .. Len(queue) - 1
         /\ \A j \in 1 .. Len(queue) - 1 : queue'[j] = queue[j + 1]
         /\ Events = Events' \cup {queue[1]}
         /\ InQueue' \subseteq InQueue /\ Waiting' = Waiting
<1>1. queue \in Seq(Event) /\ Len(queue) \in Nat /\ DOMAIN queue = 1 .. Len(queue)
  BY Places DEF TypeOK
<1>2. /\ Head(queue) = queue[1] /\ Len(queue) # 0
      /\ queue' \in Seq(Event) /\ Len(queue') = Len(queue) - 1
      /\ \A j \in 1 .. Len(queue) - 1 : queue'[j] = queue[j + 1]
  BY <1>1
<1>3. DOMAIN queue' = 1 .. Len(queue) - 1
  BY <1>2
<1>4. /\ \A i \in DOMAIN queue : i # 1 => i - 1 \in DOMAIN queue' /\ queue'[i - 1] = queue[i]
      /\ \A i \in DOMAIN queue' : i + 1 \in DOMAIN queue /\ queue'[i] = queue[i + 1]
  BY <1>1, <1>2, <1>3
<1>5. 1 \in DOMAIN queue /\ queue[1] \in Event
  BY <1>1, <1>2
<1>6. {queue[i] : i \in DOMAIN queue} = {queue'[i] : i \in DOMAIN queue'} \cup {queue[1]}
  <2>1. \A i \in DOMAIN queue : queue[i] = queue[1] \/ queue[i] \in {queue'[j] : j \in DOMAIN queue'}
    BY <1>4
  <2>2. \A i \in DOMAIN queue' : queue'[i] \in {queue[j] : j \in DOMAIN queue}
    BY <1>4
  <2> QED BY <1>5, <2>1, <2>2
<1>7. Events = Events' \cup {queue[1]}
  BY <1>6 DEF Events
<1>8. InQueue' \subseteq InQueue /\ Waiting' = Waiting
  BY <1>4 DEF InQueue, Waiting
<1> QED BY <1>1, <1>2, <1>3, <1>5, <1>7, <1>8

\* What is said of the queue holds without its first event.
LEMMA TailKeeps ==
  ASSUME ConversationAssumption, Calm, queue # <<>>, queue' = Tail(queue), UNCHANGED <<pending, hist>>
  PROVE  InLine'
<1>1. /\ DOMAIN queue = 1 .. Len(queue) /\ Len(queue) \in Nat \ {0}
      /\ DOMAIN queue' = 1 .. Len(queue) - 1
      /\ \A j \in 1 .. Len(queue) - 1 : queue'[j] = queue[j + 1]
  BY EventTaken, Places DEF Calm
<1>2. \A j \in DOMAIN queue' : j + 1 \in DOMAIN queue /\ queue'[j] = queue[j + 1] /\ j \in Nat
  BY <1>1
<1>3. ASSUME NEW i \in DOMAIN queue', NEW j \in DOMAIN queue'
      PROVE  /\ queue'[i].kind = "message" /\ queue'[j].kind = "message" /\ queue'[i].m = queue'[j].m
                  => i = j
             /\ queue'[i].kind = "message" /\ queue'[j].kind = "delete" /\ queue'[i].m = queue'[j].m
                  => i < j
             /\ queue'[i].c = queue'[j].c /\ queue'[i].c # 0 => i = j
  <2>1. /\ queue'[i].kind = "message" /\ queue'[j].kind = "message" /\ queue'[i].m = queue'[j].m
             => i + 1 = j + 1
        /\ queue'[i].kind = "message" /\ queue'[j].kind = "delete" /\ queue'[i].m = queue'[j].m
             => i + 1 < j + 1
        /\ queue'[i].c = queue'[j].c /\ queue'[i].c # 0 => i + 1 = j + 1
    BY <1>2 DEF Calm, Steady, InLine
  <2>2. i \in Nat /\ j \in Nat
    BY <1>2
  <2> QED BY <2>1, <2>2
<1>4. \A i \in DOMAIN queue' : queue'[i].kind = "message" => queue'[i].m > hist'.top
  BY <1>2 DEF Calm, Steady, InLine
<1>5. \A i \in DOMAIN queue', e \in pending' :
        /\ queue'[i].kind = e.kind => queue'[i].m # e.m
        /\ queue'[i].c = e.c => e.c = 0
  BY <1>2 DEF Calm, Steady, InLine
<1>6. \A e, f \in pending' : e.c = f.c /\ e.c # 0 => e = f
  BY DEF Calm, Steady, InLine
<1> QED BY <1>3, <1>4, <1>5, <1>6 DEF InLine

\* A message comes through the socket, to be deciphered.
LEMMA MessageDelivered ==
  ASSUME ConversationAssumption, Calm, Deliver, Head(queue).kind = "message"
  PROVE  Steady'
<1> DEFINE e == queue[1]
<1>0. InLine'
  BY TailKeeps DEF Deliver
<1>1. /\ Head(queue) = e /\ e \in Event /\ Len(queue) \in Nat \ {0}
      /\ DOMAIN queue' = 1 .. Len(queue) - 1
      /\ \A j \in 1 .. Len(queue) - 1 : queue'[j] = queue[j + 1]
      /\ Events = Events' \cup {e}
      /\ InQueue' \subseteq InQueue /\ Waiting' = Waiting
  BY EventTaken DEF Calm, Deliver
<1>2. /\ opening' = Append(opening, e)
      /\ UNCHANGED <<posted, gone, pending, list, hasMore, hist, more, sent, outbox, deleting>>
  BY <1>1 DEF Deliver
<1>3. /\ DOMAIN queue = 1 .. Len(queue) /\ 1 \in DOMAIN queue
      /\ opening \in Seq(Event) /\ DOMAIN opening = 1 .. Len(opening) /\ Len(opening) \in Nat
  BY <1>1, Places DEF Calm, TypeOK
<1>4. e \in Events
  BY <1>3 DEF Events
<1>5. e.kind = "message"
  BY <1>1
<1>10. /\ \A j \in DOMAIN queue' : j + 1 \in DOMAIN queue /\ j + 1 # 1 /\ queue'[j] = queue[j + 1]
       /\ \A f \in Events' : e.c = f.c => f.c = 0
       /\ \A f \in Events' : f.kind = "message" => f.m # e.m
  <2>1. \A j \in DOMAIN queue' : j + 1 \in DOMAIN queue /\ j + 1 # 1 /\ queue'[j] = queue[j + 1]
    BY <1>1, <1>3
  <2>2. \A j \in DOMAIN queue' : /\ queue'[j].c = e.c => e.c = 0
                                 /\ queue'[j].kind = "message" => queue'[j].m # e.m
    BY <1>3, <1>5, <2>1 DEF Calm, Steady, InLine
  <2>3. \A f \in pending : /\ f.c = e.c => f.c = 0
                           /\ f.kind = "message" => f.m # e.m
    BY <1>3, <1>5 DEF Calm, Steady, InLine
  <2>4. \A f \in Events' : f \in pending \/ \E j \in DOMAIN queue' : f = queue'[j]
    BY <1>2 DEF Events
  <2> HIDE DEF e
  <2> QED BY <2>1, <2>2, <2>3, <2>4
<1> HIDE DEF e
<1>6. /\ DOMAIN opening' = 1 .. Len(opening) + 1
      /\ \A i \in 1 .. Len(opening) : opening'[i] = opening[i]
      /\ opening'[Len(opening) + 1] = e
  <2>1. /\ opening' \in Seq(Event) /\ Len(opening') = Len(opening) + 1
        /\ \A i \in 1 .. Len(opening) : opening'[i] = opening[i]
        /\ opening'[Len(opening) + 1] = e
    BY <1>1, <1>2, <1>3, AppendProperties
  <2> QED BY <2>1
<1>7. /\ Listed' = Listed /\ Paged' = Paged /\ Live' = Live
      /\ Awaited' = Awaited \cup {e.m}
      /\ Queued = Queued' \cup {e.m} /\ e.m \notin Queued'
  <2>1. Listed' = Listed /\ Paged' = Paged /\ Live' = Live
    BY <1>2 DEF Listed, Paged, Live
  <2>2. Awaited' = Awaited \cup {e.m}
    BY <1>3, <1>6 DEF Awaited
  <2>3. Queued = Queued' \cup {e.m}
    BY <1>1, <1>5, Zenon DEF Queued
  <2>4. e.m \notin Queued'
    BY <1>10 DEF Queued
  <2> QED BY <2>1, <2>2, <2>3, <2>4
<1>8. Known' = Known
  BY <1>7 DEF Known
<1>9. Owed' = Owed
  <2>1. {f.c : f \in Events} = {f.c : f \in Events'} \cup {e.c}
    BY <1>1, Zenon
  <2>2. {opening'[i].c : i \in DOMAIN opening'} = {opening[i].c : i \in DOMAIN opening} \cup {e.c}
    BY <1>3, <1>6
  <2> QED BY <1>2, <2>1, <2>2 DEF Owed
<1>11. e.m \notin Listed /\ e.m \notin Awaited /\ e.m # 0
  BY <1>7 DEF Calm, Steady, Once
<1>12. Once'
  <2>1. \A i, j \in DOMAIN opening' : opening'[i].m = opening'[j].m => i = j
    <3>1. \A i \in 1 .. Len(opening) : opening[i].m # e.m
      BY <1>3, <1>11 DEF Awaited
    <3> QED BY <1>3, <1>6, <3>1 DEF Calm, Steady, Once
  <2>2. Listed' \cap Awaited' = {} /\ 0 \notin Awaited' \cup Queued'
    <3>1. 0 \notin Queued /\ 0 \notin Awaited /\ Listed \cap Awaited = {}
      BY DEF Calm, Steady, Once
    <3> QED BY <1>7, <1>11, <3>1
  <2>3. (Listed' \cup Awaited') \cap Queued' = {}
    BY <1>7 DEF Calm, Steady, Once
  <2> QED BY <1>2, <1>8, <2>1, <2>2, <2>3 DEF Calm, Steady, Once
<1>13. Leaving'
  <2>1. \A f \in Events : f.kind = "delete" => f \in Events'
    BY <1>1, <1>5
  <2>2. \A f \in Events' : f.kind = "delete" => f.m \in gone'
    BY <1>1, <1>2 DEF Calm, Steady, Leaving
  <2>3. ASSUME NEW m \in gone \cap (Known \cup Paged)
        PROVE  \/ \E f \in Events' : f.kind = "delete" /\ f.m = m
               \/ m \in deleting \ InQueue'
               \/ m \in Waiting'
    <3>1. \/ \E f \in Events : f.kind = "delete" /\ f.m = m
          \/ m \in deleting \ InQueue
          \/ m \in Waiting
      BY DEF Calm, Steady, Leaving
    <3> QED BY <1>1, <2>1, <3>1
  <2> QED BY <1>2, <1>7, <1>8, <2>2, <2>3 DEF Leaving
<1>14. Echoed'
  <2>2. \A i \in 1 .. Len(opening) : opening[i].c = e.c => e.c = 0
    BY <1>3, <1>4 DEF Calm, Steady, Echoed
  <2>3. \A i, j \in DOMAIN opening' : opening'[i].c = opening'[j].c /\ opening'[i].c # 0 => i = j
    BY <1>3, <1>6, <2>2 DEF Calm, Steady, Echoed
  <2>5. \A i \in DOMAIN opening', f \in Events' : opening'[i].c = f.c => f.c = 0
    BY <1>1, <1>3, <1>6, <1>10 DEF Calm, Steady, Echoed
  <2>6. \A i \in DOMAIN opening' : opening'[i].c \notin outbox'
    BY <1>2, <1>3, <1>4, <1>6 DEF Calm, Steady, Echoed
  <2> QED BY <1>1, <1>2, <1>9, <2>3, <2>5, <2>6 DEF Calm, Steady, Echoed
<1>15. Gapless'
  BY <1>2, <1>7, <1>8 DEF Calm, Steady, Gapless, NoGap
<1> QED BY <1>0, <1>12, <1>13, <1>14, <1>15 DEF Steady

\* A deleted message is taken out of the list: by its event, or by the answer to
\* the one who deleted it.
LEMMA RemovalKeeps ==
  ASSUME ConversationAssumption, Calm, NEW x \in gone, list' = Without(x),
         x \notin Awaited, x \notin Paged,
         UNCHANGED <<posted, gone, pending, hasMore, hist, more, opening, sent, outbox>>,
         \/ queue' = queue /\ deleting' = deleting \ {x}
         \/ /\ queue # <<>> /\ queue' = Tail(queue) /\ deleting' = deleting
            /\ queue[1].kind = "delete" /\ queue[1].m = x
  PROVE  Steady'
<1>1. list \in Seq(Item) /\ Len(list) \in Nat /\ DOMAIN list = 1 .. Len(list)
  BY Places DEF Calm, TypeOK
<1> DEFINE W == Without(x)
<1>2. /\ W \in Seq(Item)
      /\ \E h \in [1 .. Len(W) -> 1 .. Len(list)] :
           /\ \A i, j \in 1 .. Len(W) : h[i] = h[j] => i = j
           /\ \A i \in 1 .. Len(W) : W[i] = list[h[i]] /\ list[h[i]].m # x
           /\ \A k \in 1 .. Len(list) :
                list[k].m # x => \E i \in 1 .. Len(W) : h[i] = k
  BY <1>1, WithoutTakes
<1>3. list' = W
  OBVIOUS
<1> HIDE DEF W
<1>4. DOMAIN list' = 1 .. Len(W)
  BY <1>2, <1>3
<1>p. PICK h \in [1 .. Len(W) -> 1 .. Len(list)] :
        /\ \A i, j \in 1 .. Len(W) : h[i] = h[j] => i = j
        /\ \A i \in 1 .. Len(W) : W[i] = list[h[i]] /\ list[h[i]].m # x
        /\ \A k \in 1 .. Len(list) : list[k].m # x => \E i \in 1 .. Len(W) : h[i] = k
  BY <1>2
<1>5. /\ \A i, j \in DOMAIN list' : h[i] = h[j] => i = j
      /\ \A i \in DOMAIN list' : list'[i] = list[h[i]] /\ list[h[i]].m # x
      /\ \A k \in DOMAIN list : list[k].m # x => \E i \in DOMAIN list' : h[i] = k
  BY <1>1, <1>3, <1>4, <1>p
<1>6. \A i \in DOMAIN list' : h[i] \in DOMAIN list
  BY <1>1, <1>4, <1>p
<1>7. Listed' = Listed \ {x}
  BY <1>5, <1>6 DEF Listed
<1>8. Awaited' = Awaited /\ Paged' = Paged /\ Live' = Live /\ x \in 1 .. posted /\ x \notin Live
  <2>1. x \in 1 .. posted
    BY Numbered
  <2> QED BY <2>1 DEF Awaited, Paged, Live
<1>9. /\ Events' \subseteq Events /\ Queued' = Queued /\ InLine'
      /\ InQueue' \subseteq InQueue /\ Waiting' = Waiting
      /\ \A f \in Events : f \in Events' \/ (f.kind = "delete" /\ f.m = x)
  <2>1. CASE queue' = queue
    <3>1. Events' = Events /\ InQueue' = InQueue /\ Waiting' = Waiting
      BY <2>1 DEF Events, InQueue, Waiting
    <3> QED BY <2>1, <3>1 DEF Queued, Calm, Steady, InLine
  <2>2. CASE queue' # queue
    <3>1. Events = Events' \cup {queue[1]} /\ InQueue' \subseteq InQueue /\ Waiting' = Waiting
      BY <2>2, EventTaken DEF Calm
    <3>2. Queued' = Queued
      BY <2>2, <3>1 DEF Queued
    <3> QED BY <2>2, <3>1, <3>2, TailKeeps
  <2> QED BY <2>1, <2>2
<1>10. /\ Known' \subseteq Known
       /\ \A m \in Known : m \in Known' \/ m = x
       /\ x \in Known' => x \in Waiting \/ (x \in InQueue /\ queue' = queue)
  <2>1. /\ Known' \subseteq Known
        /\ \A m \in Known : m \in Known' \/ m = x
        /\ x \in Known' => x \in Queued
    BY <1>7, <1>8, <1>9 DEF Known
  <2>2. ASSUME x \in InQueue PROVE queue' = queue
    <3> SUFFICES ASSUME queue # <<>>, queue[1].kind = "delete", queue[1].m = x PROVE FALSE
      OBVIOUS
    <3>1. PICK i \in DOMAIN queue : queue[i].kind = "message" /\ queue[i].m = x
      BY <2>2 DEF InQueue
    <3>2. DOMAIN queue = 1 .. Len(queue) /\ Len(queue) \in Nat
      BY Places DEF Calm
    <3>3. 1 \in DOMAIN queue
      BY <3>1, <3>2
    <3>4. i < 1
      BY <3>1, <3>3 DEF Calm, Steady, InLine
    <3> QED BY <3>1, <3>2, <3>4
  <2> QED BY <2>1, <2>2, Numbered
<1>11. Owed' = Owed
  <2>1. \A f \in Events : f \in Events' \/ f.c = 0
    BY <1>9 DEF Calm, Steady, Echoed
  <2> QED BY <1>9, <2>1 DEF Owed
<1>12. Once'
  <2>1. \A i, j \in DOMAIN list' : list'[i].m = list'[j].m /\ list'[i].m # 0 => i = j
    BY <1>5, <1>6 DEF Calm, Steady, Once
  <2> QED BY <1>7, <1>8, <1>9, <1>10, <2>1 DEF Calm, Steady, Once
<1>13. Leaving'
  <2>1. ASSUME NEW y \in gone, y \in Known' \cup Paged, y # x
        PROVE  \/ \E e \in Events' : e.kind = "delete" /\ e.m = y
               \/ y \in deleting' \ InQueue'
               \/ y \in Waiting'
    <3>1. y \in Known \cup Paged
      BY <1>10, <2>1
    <3>2. \/ \E e \in Events : e.kind = "delete" /\ e.m = y
          \/ y \in deleting \ InQueue
          \/ y \in Waiting
      BY <3>1 DEF Calm, Steady, Leaving
    <3> QED BY <1>9, <2>1, <3>2
  <2>2. ASSUME x \in Known' \cup Paged
        PROVE  x \in Waiting' \/ \E e \in Events' : e.kind = "delete" /\ e.m = x
    <3>1. CASE x \in Waiting
      BY <1>9, <3>1
    <3>2. CASE x \in InQueue /\ queue' = queue
      <4>1. \/ \E e \in Events : e.kind = "delete" /\ e.m = x
            \/ x \in Waiting
        BY <1>10, <2>2, <3>2 DEF Calm, Steady, Leaving
      <4>2. Events' = Events
        BY <3>2 DEF Events
      <4> QED BY <1>9, <4>1, <4>2
    <3> QED BY <1>10, <2>2, <3>1, <3>2
  <2>3. \A f \in Events' : f.kind = "delete" => f.m \in gone'
    BY <1>9 DEF Calm, Steady, Leaving
  <2> QED BY <1>8, <2>1, <2>2, <2>3 DEF Leaving
<1>14. Echoed'
  <2>1. \A i, j \in DOMAIN list' : list'[i].c = list'[j].c /\ list'[i].c # 0 => i = j
    BY <1>5, <1>6 DEF Calm, Steady, Echoed
  <2>2. \A i \in DOMAIN list' : list'[i].c <= sent /\ (list'[i].m = 0 => list'[i].c \in Owed)
    BY <1>5, <1>6 DEF Calm, Steady, Echoed
  <2>3. \A c \in Owed : c <= sent /\ \E i \in DOMAIN list' : list'[i] = Entry(0, c, TRUE)
    <3> SUFFICES ASSUME NEW c \in Owed
                 PROVE  c <= sent /\ \E i \in DOMAIN list' : list'[i] = Entry(0, c, TRUE)
      OBVIOUS
    <3>1. PICK k \in DOMAIN list : list[k] = Entry(0, c, TRUE) /\ c <= sent
      BY DEF Calm, Steady, Echoed
    <3>2. list[k].m # x
      BY <1>8, <3>1 DEF Entry
    <3>3. PICK i \in DOMAIN list' : h[i] = k
      BY <1>5, <3>2
    <3>4. list'[i] = list[k]
      BY <1>5, <3>3
    <3> QED BY <3>1, <3>4
  <2>4. \A f \in Events' : f.c \notin outbox' /\ (f.kind = "delete" => f.c = 0)
    BY <1>9 DEF Calm, Steady, Echoed
  <2> QED BY <1>9, <1>11, <2>1, <2>2, <2>3, <2>4 DEF Calm, Steady, Echoed
<1>15. Gapless'
  <2>1. \A m \in Live : m \in Known => m \in Known'
    BY <1>8, <1>10
  <2>2. \A rows : NoGap(rows, Known \cup Paged) => NoGap(rows, Known \cup Paged)'
    BY <1>8, <2>1 DEF NoGap
  <2> QED BY <1>8, <1>10, <2>1, <2>2 DEF Calm, Steady, Gapless
<1> QED BY <1>9, <1>12, <1>13, <1>14, <1>15 DEF Steady

------------------------------------------------------------------------------
(* Messages sent and deciphered.                                           *)

\* The list grows by one at its end.
LEMMA EntryAdded ==
  ASSUME ConversationAssumption, TypeOK, NEW x \in Item, list' = Append(list, x)
  PROVE  /\ DOMAIN list' = 1 .. Len(list) + 1
         /\ \A i \in DOMAIN list : list'[i] = list[i]
         /\ list'[Len(list) + 1] = x
         /\ Listed' = Listed \cup {x.m}
<1>1. list \in Seq(Item) /\ Len(list) \in Nat /\ DOMAIN list = 1 .. Len(list)
  BY Places DEF TypeOK
<1>2. /\ list' \in Seq(Item) /\ Len(list') = Len(list) + 1
      /\ \A j \in 1 .. Len(list) : list'[j] = list[j]
      /\ list'[Len(list) + 1] = x
  BY <1>1, AppendProperties
<1>3. DOMAIN list' = 1 .. Len(list) + 1
  BY <1>2
<1>4. Listed' = Listed \cup {x.m}
  BY <1>1, <1>2, <1>3 DEF Listed
<1> QED BY <1>1, <1>2, <1>3, <1>4

\* A message is sent: shown at once, owed an answer.
LEMMA SendKeeps ==
  ASSUME ConversationAssumption, Calm, Send
  PROVE  Steady'
<1> DEFINE s == sent + 1
           x == Entry(0, s, TRUE)
<1>1. /\ sent' = s /\ outbox' = outbox \cup {s} /\ list' = Append(list, x)
      /\ UNCHANGED <<posted, gone, pending, hasMore, hist, more, queue, opening, deleting>>
  BY DEF Send
<1>2. sent \in Nat /\ s \in 0 .. MaxSends /\ s > sent
  BY Places DEF Calm, Send, TypeOK, ConversationAssumption
<1>3. x \in Item /\ x.m = 0 /\ x.c = s
  BY <1>2 DEF Entry, Item, Numbers, ConversationAssumption
<1>x. x = Entry(0, s, TRUE)
  OBVIOUS
<1> HIDE DEF x
<1>4. /\ DOMAIN list' = 1 .. Len(list) + 1 /\ DOMAIN list = 1 .. Len(list) /\ Len(list) \in Nat
      /\ \A i \in DOMAIN list : list'[i] = list[i]
      /\ list'[Len(list) + 1] = x
      /\ Listed' = Listed \cup {0}
  BY <1>1, <1>3, EntryAdded, Places DEF Calm
<1>5. /\ Awaited' = Awaited /\ Events' = Events /\ Queued' = Queued /\ Paged' = Paged /\ Live' = Live
      /\ InQueue' = InQueue /\ Waiting' = Waiting /\ InLine'
  <2>1. Awaited' = Awaited /\ Paged' = Paged /\ Live' = Live
    BY <1>1 DEF Awaited, Paged, Live
  <2>2. Events' = Events /\ InQueue' = InQueue /\ Waiting' = Waiting
    BY <1>1 DEF Events, InQueue, Waiting
  <2>3. Queued' = Queued
    BY <2>2 DEF Queued
  <2> QED BY <1>1, <2>1, <2>2, <2>3 DEF Calm, Steady, InLine
<1>6. Known' = Known
  BY <1>4, <1>5 DEF Known
<1>7. Owed' = Owed \cup {s} /\ s # 0 /\ \A c \in Owed : c \in 1 .. sent
  <2>1. s # 0 /\ \A c \in Owed : c \in 1 .. sent
    BY <1>2, Numbered
  <2> QED BY <1>1, <1>5, <2>1 DEF Owed
<1> HIDE DEF s
<1>8. Once'
  <2>1. \A i, j \in DOMAIN list' : list'[i].m = list'[j].m /\ list'[i].m # 0 => i = j
    BY <1>3, <1>4 DEF Calm, Steady, Once
  <2>2. Listed' \cap Awaited' = {} /\ 0 \notin Awaited' \cup Queued'
    BY <1>4, <1>5 DEF Calm, Steady, Once
  <2>3. (Listed' \cup Awaited') \cap Queued' = {}
    BY <1>4, <1>5 DEF Calm, Steady, Once
  <2> QED BY <1>1, <1>4, <1>5, <1>6, <2>1, <2>2, <2>3 DEF Calm, Steady, Once
<1>9. Leaving'
  BY <1>1, <1>4, <1>5, <1>6 DEF Calm, Steady, Leaving
<1>10. Echoed'
  <2>1. \A i \in DOMAIN list : list[i].c # s
    BY <1>2, Places DEF Calm, Steady, Echoed
  <2>2. \A i, j \in DOMAIN list' : list'[i].c = list'[j].c /\ list'[i].c # 0 => i = j
    BY <1>3, <1>4, <2>1 DEF Calm, Steady, Echoed
  <2>3. \A i \in DOMAIN list' : list'[i].c <= s /\ (list'[i].m = 0 => list'[i].c \in Owed \cup {s})
    <3>1. \A i \in DOMAIN list : list[i].c \in Nat /\ list[i].c <= sent
      BY Places DEF Calm, Steady, Echoed
    <3>2. \A i \in DOMAIN list : list[i].c <= s
      BY <1>2, <3>1
    <3> QED BY <1>2, <1>3, <1>4, <3>2 DEF Calm, Steady, Echoed
  <2>4. \A c \in Owed \cup {s} : c <= s /\ \E i \in DOMAIN list' : list'[i] = Entry(0, c, TRUE)
    <3>1. \A c \in Owed \cup {s} : c <= s
      BY <1>2, <1>7
    <3>2. ASSUME NEW c \in Owed PROVE \E i \in DOMAIN list' : list'[i] = Entry(0, c, TRUE)
      <4>1. PICK i \in DOMAIN list : list[i] = Entry(0, c, TRUE)
        BY <3>2 DEF Calm, Steady, Echoed
      <4>2. i \in DOMAIN list' /\ list'[i] = list[i]
        BY <1>4
      <4> QED BY <4>1, <4>2
    <3>3. Len(list) + 1 \in DOMAIN list'
      BY <1>4
    <3> QED BY <1>4, <1>x, <3>1, <3>2, <3>3
  <2>5. \A e \in Events : e.c # s
    BY <1>2, <1>7, Numbered DEF Owed
  <2>6. \A i \in DOMAIN opening : opening[i].c # s
    BY <1>2, <1>7 DEF Owed
  <2> QED BY <1>1, <1>5, <1>7, <2>2, <2>3, <2>4, <2>5, <2>6 DEF Calm, Steady, Echoed
<1>11. Gapless'
  BY <1>1, <1>5, <1>6 DEF Calm, Steady, Gapless, NoGap
<1> QED BY <1>5, <1>8, <1>9, <1>10, <1>11 DEF Steady

\* A deciphered message is shown: in the place of what was sent, or at the end.
LEMMA OpenedKeeps ==
  ASSUME ConversationAssumption, Calm, NEW n \in DOMAIN opening, Opened(n), TypeOK'
  PROVE  Steady'
<1> DEFINE e == opening[n]
           x == Entry(e.m, e.c, TRUE)
<1>1. /\ list' = Merged(e)
      /\ UNCHANGED <<posted, gone, pending, hasMore, hist, more, queue, sent, outbox, deleting>>
  BY DEF Opened
<1>2. /\ opening \in Seq(Event) /\ DOMAIN opening = 1 .. Len(opening) /\ Len(opening) \in Nat
      /\ DOMAIN list = 1 .. Len(list) /\ Len(list) \in Nat
      /\ e \in Event /\ e.m \in Nat /\ e.c \in Nat
  BY Places DEF Calm, TypeOK
<1>3. PICK h : /\ \A j \in DOMAIN opening' : h[j] \in DOMAIN opening
               /\ \A j \in DOMAIN opening' : opening'[j] = opening[h[j]] /\ h[j] # n
               /\ \A j, k \in DOMAIN opening' : h[j] = h[k] => j = k
               /\ \A k \in DOMAIN opening : k # n => \E j \in DOMAIN opening' : h[j] = k
  <2> DEFINE t == opening'
  <2> HIDE DEF e, x
  <2>0. /\ t \in Seq(Event) /\ Len(t) = Len(opening) - 1
        /\ \A j \in 1 .. Len(t) : t[j] = opening[IF j < n THEN j ELSE j + 1]
        /\ opening \in Seq(Event) /\ n \in 1 .. Len(opening)
    <3>1. t = [j \in 1 .. Len(opening) - 1 |-> opening[IF j < n THEN j ELSE j + 1]]
      BY DEF Opened
    <3>2. t \in Seq(Event)
      BY DEF TypeOK
    <3> HIDE DEF t
    <3> QED BY <1>2, <3>1, <3>2
  <2> HIDE DEF t
  <2>d. DOMAIN t = 1 .. Len(t)
    BY <2>0
  <2>1. PICK h : AllBut(h, t, opening, n)
    BY <2>0, TakenOut
  <2>2. opening' = t
    BY DEF t
  <2>3. DOMAIN opening' = 1 .. Len(t)
    BY <2>d, <2>2
  <2>4. \A j \in 1 .. Len(t) : h[j] \in 1 .. Len(opening)
    BY <2>1 DEF AllBut
  <2>6. /\ \A j \in DOMAIN opening' : h[j] \in DOMAIN opening
        /\ \A j \in DOMAIN opening' : opening'[j] = opening[h[j]] /\ h[j] # n
        /\ \A j, k \in DOMAIN opening' : h[j] = h[k] => j = k
        /\ \A k \in DOMAIN opening : k # n => \E j \in DOMAIN opening' : h[j] = k
    BY <1>2, <2>1, <2>2, <2>3, <2>4 DEF AllBut
  <2> QED BY <2>6, Zenon
<1>4. e.m \in Awaited /\ e.m # 0 /\ e.m \notin Listed /\ (e.c # 0 => e.c \in Owed)
  BY DEF Awaited, Owed, Calm, Steady, Once
<1>5. x.m = e.m /\ x.c = e.c /\ x \in Item
  BY <1>2 DEF Entry, Item, Event
<1>x. x = Entry(e.m, e.c, TRUE)
  OBVIOUS
\* One way or the other the list has all it had, and the message, and nothing without
\* a number that it had not.
<1>6. /\ Listed' \ {0} = (Listed \ {0}) \cup {e.m} /\ Listed' \subseteq Listed \cup {e.m}
      /\ \A i, j \in DOMAIN list' : list'[i].m = list'[j].m /\ list'[i].m # 0 => i = j
      /\ \A i, j \in DOMAIN list' : list'[i].c = list'[j].c /\ list'[i].c # 0 => i = j
      /\ \A i \in DOMAIN list' : list'[i].c <= sent
      /\ \A i \in DOMAIN list' : list'[i].m = 0 => list'[i].c \in Owed \ {e.c}
      /\ \A c \in Owed \ {e.c} : \E i \in DOMAIN list' : list'[i] = Entry(0, c, TRUE)
  <2> HIDE DEF x, e
  <2>0. /\ \A i, j \in DOMAIN list : list[i].m = list[j].m /\ list[i].m # 0 => i = j
        /\ \A i, j \in DOMAIN list : list[i].c = list[j].c /\ list[i].c # 0 => i = j
        /\ \A i \in DOMAIN list : list[i].c <= sent /\ (list[i].m = 0 => list[i].c \in Owed)
        /\ \A c \in Owed : \E i \in DOMAIN list : list[i] = Entry(0, c, TRUE)
        /\ 0 \notin Owed
        /\ \A i \in DOMAIN list : list[i].m \in Listed
    BY DEF Calm, Steady, Once, Echoed, Owed, Listed
  <2>1. CASE e.c = 0
    <3>1. list' = Append(list, x)
      BY <1>1, <1>x, <2>1 DEF Merged
    <3>2. /\ DOMAIN list' = 1 .. Len(list) + 1
          /\ \A i \in DOMAIN list : list'[i] = list[i]
          /\ list'[Len(list) + 1] = x
          /\ Listed' = Listed \cup {e.m}
      BY <1>5, <3>1, EntryAdded DEF Calm
    <3>3. sent \in Nat /\ Owed \ {e.c} = Owed
      BY <2>0, <2>1, Places DEF Calm
    <3>4. \A i, j \in DOMAIN list' : list'[i].m = list'[j].m /\ list'[i].m # 0 => i = j
      BY <1>2, <1>4, <1>5, <2>0, <3>2
    <3>5. \A i, j \in DOMAIN list' : list'[i].c = list'[j].c /\ list'[i].c # 0 => i = j
      BY <1>2, <1>5, <2>0, <2>1, <3>2
    <3>6. \A i \in DOMAIN list' : list'[i].c <= sent /\ (list'[i].m = 0 => list'[i].c \in Owed)
      BY <1>2, <1>4, <1>5, <2>0, <2>1, <3>2, <3>3
    <3>7. \A c \in Owed : \E i \in DOMAIN list' : list'[i] = Entry(0, c, TRUE)
      <4> SUFFICES ASSUME NEW c \in Owed PROVE \E i \in DOMAIN list' : list'[i] = Entry(0, c, TRUE)
        OBVIOUS
      <4>1. PICK i \in DOMAIN list : list[i] = Entry(0, c, TRUE)
        BY <2>0
      <4>2. i \in DOMAIN list' /\ list'[i] = list[i]
        BY <1>2, <3>2
      <4> QED BY <4>1, <4>2
    <3> QED BY <1>4, <3>2, <3>3, <3>4, <3>5, <3>6, <3>7
  <2>2. CASE e.c # 0
    <3>1. PICK k \in DOMAIN list : list[k] = Entry(0, e.c, TRUE)
      BY <1>4, <2>0, <2>2
    <3>2. list[k].m = 0 /\ list[k].c = e.c
      BY <3>1 DEF Entry
    <3>3. list' = [i \in DOMAIN list |-> IF list[i].c = e.c THEN x ELSE list[i]]
      BY <1>1, <1>x, <2>2, <3>2 DEF Merged
    <3>4. /\ DOMAIN list' = DOMAIN list /\ list'[k] = x
          /\ \A i \in DOMAIN list : i # k => list[i].c # e.c /\ list'[i] = list[i]
      BY <2>0, <2>2, <3>2, <3>3
    <3>5. Listed' \ {0} = (Listed \ {0}) \cup {e.m} /\ Listed' \subseteq Listed \cup {e.m}
      <4>1. \A m \in Listed' : m \in Listed \cup {e.m}
        BY <1>5, <2>0, <3>4 DEF Listed
      <4>2. e.m \in Listed'
        BY <1>5, <3>4 DEF Listed
      <4>3. ASSUME NEW i \in DOMAIN list, list[i].m # 0 PROVE list[i].m \in Listed'
        BY <3>2, <3>4, <4>3 DEF Listed
      <4>4. \A m \in Listed : m = 0 \/ m \in Listed'
        BY <4>3 DEF Listed
      <4> QED BY <1>4, <4>1, <4>2, <4>4
    <3>6. \A i, j \in DOMAIN list' : list'[i].m = list'[j].m /\ list'[i].m # 0 => i = j
      BY <1>4, <1>5, <2>0, <3>4
    <3>7. \A i, j \in DOMAIN list' : list'[i].c = list'[j].c /\ list'[i].c # 0 => i = j
      BY <1>5, <2>0, <3>4
    <3>8. \A i \in DOMAIN list' : list'[i].c <= sent /\ (list'[i].m = 0 => list'[i].c \in Owed \ {e.c})
      BY <1>4, <1>5, <2>0, <3>2, <3>4
    <3>9. ASSUME NEW c \in Owed \ {e.c} PROVE \E i \in DOMAIN list' : list'[i] = Entry(0, c, TRUE)
      <4>1. PICK i \in DOMAIN list : list[i] = Entry(0, c, TRUE)
        BY <2>0, <3>9
      <4>2. list[i].c = c
        BY <4>1 DEF Entry
      <4>3. i # k
        BY <3>2, <3>9, <4>2
      <4> QED BY <3>4, <4>1, <4>3
    <3> QED BY <3>5, <3>6, <3>7, <3>8, <3>9
  <2> QED BY <2>1, <2>2
<1>7. /\ Awaited = Awaited' \cup {e.m} /\ e.m \notin Awaited'
      /\ Events' = Events /\ Queued' = Queued /\ Paged' = Paged /\ Live' = Live
      /\ InQueue' = InQueue /\ Waiting' = Waiting /\ InLine'
  <2>1. Awaited = Awaited' \cup {e.m}
    <3>1. \A m \in Awaited' : m \in Awaited
      BY <1>3 DEF Awaited
    <3>2. ASSUME NEW k \in DOMAIN opening, k # n PROVE opening[k].m \in Awaited'
      BY <1>3, <3>2 DEF Awaited
    <3>3. \A m \in Awaited : m = e.m \/ m \in Awaited'
      BY <3>2 DEF Awaited
    <3> QED BY <1>4, <3>1, <3>3
  <2>2. e.m \notin Awaited'
    BY <1>3 DEF Awaited, Calm, Steady, Once
  <2>3. Paged' = Paged /\ Live' = Live
    BY <1>1 DEF Paged, Live
  <2>4. Events' = Events /\ InQueue' = InQueue /\ Waiting' = Waiting
    BY <1>1 DEF Events, InQueue, Waiting
  <2>5. Queued' = Queued
    BY <2>4 DEF Queued
  <2>6. InLine'
    BY <1>1 DEF Calm, Steady, InLine
  <2> QED BY <2>1, <2>2, <2>3, <2>4, <2>5, <2>6
<1>8. Known' = Known
  BY <1>4, <1>6, <1>7 DEF Known
<1>9. Owed' = Owed \ {e.c}
  <2>1. /\ \A f \in Events : f.c = e.c => f.c = 0
        /\ e.c \notin outbox
    BY DEF Calm, Steady, Echoed
  <2>2. \A j \in DOMAIN opening' : opening'[j].c = e.c => e.c = 0
    BY <1>3 DEF Calm, Steady, Echoed
  <2>3. \A j \in DOMAIN opening' : opening'[j].c \in {opening[i].c : i \in DOMAIN opening}
    BY <1>3
  <2>4. ASSUME NEW k \in DOMAIN opening, k # n PROVE opening[k].c \in {opening'[i].c : i \in DOMAIN opening'}
    BY <1>3, <2>4
  <2>5. \A c \in {opening[i].c : i \in DOMAIN opening} : c = e.c \/ c \in {opening'[i].c : i \in DOMAIN opening'}
    BY <2>4
  <2> HIDE DEF e
  <2> QED BY <1>1, <1>7, <2>1, <2>2, <2>3, <2>5 DEF Owed
<1>10. Once'
  <2>1. \A i, j \in DOMAIN opening' : opening'[i].m = opening'[j].m => i = j
    BY <1>3 DEF Calm, Steady, Once
  <2>2. Listed' \cup Awaited' \subseteq Listed \cup Awaited /\ Listed' \cap Awaited' = {}
    BY <1>4, <1>6, <1>7 DEF Calm, Steady, Once
  <2> HIDE DEF e
  <2> QED BY <1>1, <1>6, <1>7, <1>8, <2>1, <2>2 DEF Calm, Steady, Once
<1>11. Leaving'
  BY <1>1, <1>7, <1>8 DEF Calm, Steady, Leaving
<1>12. Echoed'
  <2>1. \A i, j \in DOMAIN opening' : opening'[i].c = opening'[j].c /\ opening'[i].c # 0 => i = j
    BY <1>3 DEF Calm, Steady, Echoed
  <2>2. \A i \in DOMAIN opening', f \in Events : opening'[i].c = f.c => f.c = 0
    BY <1>3 DEF Calm, Steady, Echoed
  <2>3. \A i \in DOMAIN opening' : opening'[i].c \notin outbox
    BY <1>3 DEF Calm, Steady, Echoed
  <2>4. \A c \in Owed : c <= sent
    BY DEF Calm, Steady, Echoed
  <2> HIDE DEF e
  <2> QED BY <1>1, <1>6, <1>7, <1>9, <2>1, <2>2, <2>3, <2>4 DEF Calm, Steady, Echoed
<1>13. Gapless'
  BY <1>1, <1>7, <1>8 DEF Calm, Steady, Gapless, NoGap
<1> QED BY <1>7, <1>10, <1>11, <1>12, <1>13 DEF Steady

------------------------------------------------------------------------------
(* Older pages.                                                            *)

\* Nothing moves but the request for an older page: what is said of the rest stays.
LEMMA MoreChanges ==
  ASSUME Calm, UNCHANGED <<posted, gone, pending, list, hasMore, hist, queue, opening, sent, outbox, deleting>>,
         \A m \in gone \cap Paged' : m \in Paged,
         Gapless'
  PROVE  Steady'
<1>1. /\ Listed' = Listed /\ Awaited' = Awaited /\ Events' = Events /\ Queued' = Queued
      /\ InQueue' = InQueue /\ Waiting' = Waiting
      /\ Known' = Known /\ Live' = Live /\ (InLine => InLine')
  BY SamePlaces
<1>2. Owed' = Owed
  BY <1>1 DEF Owed
<1>3. Once' /\ InLine'
  BY <1>1 DEF Calm, Steady, Once
<1>4. Leaving'
  BY <1>1 DEF Calm, Steady, Leaving
<1>5. Echoed'
  BY <1>1, <1>2 DEF Calm, Steady, Echoed
<1> QED BY <1>3, <1>4, <1>5 DEF Steady

\* An older page is asked for, below the first entry.
LEMMA LoadMoreKeeps ==
  ASSUME ConversationAssumption, Calm, LoadMore, cause = "none", cause' = "none"
  PROVE  Steady'
<1> DEFINE b == list[1].m
<1>1. /\ more' = [pc |-> "asked", before |-> b, rows |-> <<>>]
      /\ UNCHANGED <<posted, gone, pending, list, hasMore, hist, queue, opening, sent, outbox, deleting>>
      /\ more.pc = "idle" /\ Len(list) >= Page
      /\ b # 0 /\ ~\E m \in Listed \cup Awaited \cup Coming : m < b
  BY DEF LoadMore, Because
<1>2. /\ Listed' = Listed /\ Awaited' = Awaited /\ Events' = Events /\ Queued' = Queued
      /\ Known' = Known /\ Live' = Live
  BY <1>1, SamePlaces
<1>3. 1 \in DOMAIN list
  BY <1>1, Places DEF Calm
<1>4. b \in Listed /\ b \in Known
  BY <1>1, <1>3 DEF Listed, Known
<1>5. more'.rows = <<>> /\ more'.pc = "asked" /\ more'.before = b
  BY <1>1
<1>6. Paged' = {}
  <2>1. DOMAIN more'.rows = {}
    BY <1>5
  <2> QED BY <2>1 DEF Paged
<1> HIDE DEF b
<1>7. \A m \in Known : b <= m
  <2>1. ASSUME NEW m \in Queued PROVE b <= m
    <3>1. PICK f \in Events : f.kind = "message" /\ f.m = m
      BY <2>1 DEF Queued
    <3>2. f \in pending \cup {queue[i] : i \in DOMAIN queue} /\ f.m > hist.top
      BY <3>1 DEF Events, Calm, Steady, InLine
    <3>3. m \in Coming
      BY <3>1, <3>2 DEF Coming
    <3> QED BY <1>1, <1>4, <2>1, <3>3, Numbered
  <2>2. ASSUME NEW m \in Listed \cup Awaited PROVE b <= m
    BY <1>1, <1>4, <2>2, Numbered
  <2> QED BY <2>1, <2>2 DEF Known
<1>8. Gapless'
  <2>1. b \in 1 .. posted
    BY <1>4, Numbered
  <2>2. \A m \in Live : b <= m => m \in Known
    BY <1>4, Numbered DEF Calm, Steady, Gapless
  <2> QED BY <1>1, <1>2, <1>5, <1>7, <2>1, <2>2 DEF Calm, Steady, Gapless
<1> QED BY <1>1, <1>6, <1>8, MoreChanges

\* The server answers with the page below it.
LEMMA OlderKeeps ==
  ASSUME ConversationAssumption, Calm, Older, cause = "none", cause' = "none"
  PROVE  Steady'
<1> DEFINE b == more.before
           p == LastPage(posted, b)
<1>1. /\ more' = [more EXCEPT !.pc = "served", !.rows = p]
      /\ UNCHANGED <<posted, gone, pending, list, hasMore, hist, queue, opening, sent, outbox, deleting>>
      /\ more.pc = "asked" /\ b \notin gone
  BY DEF Older, Because
<1>2. /\ Listed' = Listed /\ Awaited' = Awaited /\ Events' = Events /\ Queued' = Queued
      /\ Known' = Known /\ Live' = Live
  BY <1>1, SamePlaces
<1>3. /\ b \in 1 .. posted /\ \A m \in Known : b <= m
      /\ \A m \in Live : b <= m => m \in Known
      /\ \A k \in Known, m \in Live : m >= k => m \in Known
      /\ ~hasMore => Live \subseteq Known
  BY <1>1 DEF Calm, Steady, Gapless
<1>4. more'.pc = "served" /\ more'.rows = p
  BY <1>1 DEF Calm, TypeOK
<1>5. /\ p \in Seq(1 .. posted) /\ Len(p) <= Page
      /\ \A i, j \in 1 .. Len(p) : i < j => p[i] < p[j]
      /\ \A i \in 1 .. Len(p) : p[i] \in Live /\ p[i] < b
      /\ \A i \in 1 .. Len(p), m \in Live : m < b /\ p[i] <= m => \E j \in 1 .. Len(p) : p[j] = m
      /\ Len(p) < Page => \A m \in Live : m < b => \E j \in 1 .. Len(p) : p[j] = m
  <2> DEFINE ms == {m \in 1 .. posted \ gone : b = 0 \/ (b \notin gone /\ m < b)}
  <2>1. posted \in Nat /\ \A m : m \in ms <=> m \in Live /\ m < b
    BY <1>1, <1>3, Places DEF Live, Calm
  <2>2. /\ p \in Seq(1 .. posted) /\ Len(p) <= Page
        /\ \A i, j \in 1 .. Len(p) : i < j => p[i] < p[j]
        /\ \A i \in 1 .. Len(p) : p[i] \in ms
        /\ \A i \in 1 .. Len(p), m \in ms : p[i] <= m => \E j \in 1 .. Len(p) : p[j] = m
        /\ Len(p) < Page => \A m \in ms : \E j \in 1 .. Len(p) : p[j] = m
    <3>1. posted \in Nat
      BY <2>1
    <3> HIDE DEF b
    <3> QED BY <3>1, PageIsATail, Zenon
  <2> HIDE DEF ms, p
  <2> QED BY <2>1, <2>2
<1> HIDE DEF p
<1>6. /\ DOMAIN p = 1 .. Len(p) /\ \A i \in 1 .. Len(p) : p[i] \in Nat
      /\ \A m \in Live : m \in Nat /\ m \in 1 .. posted
      /\ \A m \in Known : m \in Nat
      /\ posted \in Nat
  <2>1. \A m \in Live \cup Known : m \in 1 .. posted
    BY Numbered
  <2>2. posted \in Nat
    BY Places DEF Calm
  <2>3. DOMAIN p = 1 .. Len(p)
    BY <1>5
  <2> QED BY <1>5, <2>1, <2>2, <2>3
<1>7. Paged' = {p[i] : i \in 1 .. Len(p)}
  BY <1>4, <1>6 DEF Paged
<1>8. NoGap(p, Known \cup Paged')
  <2>1. ASSUME NEW i \in 1 .. Len(p), NEW m \in Live, m >= p[i] PROVE m \in Known \cup Paged'
    BY <1>3, <1>5, <1>6, <1>7, <2>1
  <2>2. ASSUME Len(p) < Page, NEW m \in Live PROVE m \in Known \cup Paged'
    <3>1. CASE m < b
      <4>1. \E j \in 1 .. Len(p) : p[j] = m
        BY <1>5, <2>2, <3>1
      <4> QED BY <1>7, <4>1
    <3>2. CASE b <= m
      BY <1>3, <3>2
    <3> QED BY <1>3, <1>6, <3>1, <3>2
  <2> QED BY <1>6, <2>1, <2>2 DEF NoGap
<1>9. Gapless'
  <2>1. NoGap(more.rows, Known \cup Paged)'
    BY <1>2, <1>4, <1>8 DEF NoGap
  <2>2. \A i \in 1 .. Len(p) : p[i] \in 1 .. posted /\ \A m \in Known : p[i] < m
    BY <1>3, <1>5, <1>6
  <2> QED BY <1>1, <1>2, <1>3, <1>4, <1>5, <1>6, <2>1, <2>2 DEF Gapless
<1>10. gone \cap Paged' = {}
  BY <1>5, <1>7, Numbered
<1> QED BY <1>1, <1>9, <1>10, MoreChanges

\* The request for an older page fails.
LEMMA OlderFailsKeeps ==
  ASSUME ConversationAssumption, Calm, OlderFails
  PROVE  Steady'
<1>1. /\ more' = NoMore
      /\ UNCHANGED <<posted, gone, pending, list, hasMore, hist, queue, opening, sent, outbox, deleting>>
  BY DEF OlderFails
<1>2. /\ Listed' = Listed /\ Awaited' = Awaited /\ Events' = Events /\ Queued' = Queued
      /\ Known' = Known /\ Live' = Live
  BY <1>1, SamePlaces
<1>3. more'.pc = "idle" /\ more'.rows = <<>>
  BY <1>1 DEF NoMore
<1>4. Paged' = {}
  <2>1. DOMAIN more'.rows = {}
    BY <1>3
  <2> QED BY <2>1 DEF Paged
<1>5. Gapless'
  BY <1>1, <1>2, <1>3 DEF Calm, Steady, Gapless
<1> QED BY <1>1, <1>4, <1>5, MoreChanges

\* An older page is shown above the list.
LEMMA OlderShownKeeps ==
  ASSUME ConversationAssumption, Calm, OlderShown
  PROVE  Steady'
<1> DEFINE rows == more.rows
           n == Len(rows)
           E == Entries(rows, FALSE)
<1>1. /\ more' = NoMore /\ list' = E \o list /\ hasMore' = (n = Page) /\ more.pc = "served"
      /\ UNCHANGED <<posted, gone, pending, hist, queue, opening, sent, outbox, deleting>>
  BY DEF OlderShown
<1>2. /\ n \in Nat /\ Len(list) \in Nat /\ DOMAIN rows = 1 .. n /\ DOMAIN list = 1 .. Len(list)
      /\ rows \in Seq(Numbers) /\ list \in Seq(Item) /\ posted \in Nat /\ Page \in Nat
      /\ \A i \in 1 .. n : rows[i] \in Nat
  BY Places DEF Calm, TypeOK
<1>3. /\ E \in Seq(Item) /\ Len(E) = n
      /\ \A i \in 1 .. n : E[i] = [m |-> rows[i], c |-> 0, plain |-> FALSE]
  BY <1>2, EntriesAreItems
<1> HIDE DEF E
<1>4. /\ DOMAIN list' = 1 .. n + Len(list)
      /\ \A i \in 1 .. n : list'[i].m = rows[i] /\ list'[i].c = 0
      /\ \A i \in 1 .. n + Len(list) : i > n => i - n \in 1 .. Len(list) /\ list'[i] = list[i - n]
      /\ \A i \in 1 .. Len(list) : i + n \in 1 .. n + Len(list) /\ list'[i + n] = list[i]
  <2> HIDE DEF n, rows
  <2>0. E \in Seq(Item) /\ list \in Seq(Item) /\ Len(E) = n
    BY <1>2, <1>3
  <2>1. /\ E \o list \in Seq(Item) /\ Len(E \o list) = n + Len(list)
        /\ \A i \in 1 .. n + Len(list) : (E \o list)[i] = IF i <= n THEN E[i] ELSE list[i - n]
    <3>1. \A i \in 1 .. Len(E) + Len(list) :
            (E \o list)[i] = IF i <= Len(E) THEN E[i] ELSE list[i - Len(E)]
      BY <2>0, ConcatProperties, Zenon
    <3>2. E \o list \in Seq(Item)
      BY <2>0, ConcatProperties, Zenon
    <3>3. Len(E \o list) = Len(E) + Len(list)
      BY <2>0, ConcatProperties, Zenon
    <3> QED BY <2>0, <3>1, <3>2, <3>3
  <2>2. DOMAIN list' = 1 .. n + Len(list)
    BY <1>1, <2>1
  <2>3. \A i \in 1 .. n + Len(list) : list'[i] = IF i <= n THEN E[i] ELSE list[i - n]
    BY <1>1, <2>1
  <2>4. \A i \in 1 .. n : list'[i].m = rows[i] /\ list'[i].c = 0
    <3> SUFFICES ASSUME NEW i \in 1 .. n PROVE list'[i].m = rows[i] /\ list'[i].c = 0
      OBVIOUS
    <3>1. list'[i] = E[i]
      BY <1>2, <2>3
    <3> QED BY <1>3, <3>1
  <2>5. \A i \in 1 .. n + Len(list) : i > n => i - n \in 1 .. Len(list) /\ list'[i] = list[i - n]
    BY <1>2, <2>3
  <2>6. ASSUME NEW i \in 1 .. Len(list) PROVE i + n \in 1 .. n + Len(list) /\ list'[i + n] = list[i]
    <3>1. i + n \in 1 .. n + Len(list) /\ ~(i + n <= n) /\ (i + n) - n = i
      BY <1>2
    <3> QED BY <2>3, <3>1
  <2> QED BY <2>2, <2>4, <2>5, <2>6
<1>5. /\ \A i, j \in 1 .. n : i < j => rows[i] < rows[j]
      /\ \A i \in 1 .. n : rows[i] \in 1 .. posted /\ \A m \in Known : rows[i] < m
      /\ n <= Page /\ NoGap(rows, Known \cup Paged)
      /\ \A k \in Known, m \in Live : m >= k => m \in Known
  BY <1>1, <1>2 DEF Calm, Steady, Gapless
<1>6. Paged = {rows[i] : i \in 1 .. n}
  BY <1>2 DEF Paged
<1>7. more'.pc = "idle" /\ more'.rows = <<>> /\ Paged' = {}
  <2>1. more'.pc = "idle" /\ more'.rows = <<>>
    BY <1>1 DEF NoMore
  <2>2. DOMAIN more'.rows = {}
    BY <2>1
  <2> QED BY <2>1, <2>2 DEF Paged
<1>8. /\ Awaited' = Awaited /\ Events' = Events /\ Queued' = Queued /\ Live' = Live
      /\ InQueue' = InQueue /\ Waiting' = Waiting /\ InLine'
  <2>1. Awaited' = Awaited /\ Live' = Live
    BY <1>1 DEF Awaited, Live
  <2>2. Events' = Events /\ InQueue' = InQueue /\ Waiting' = Waiting
    BY <1>1 DEF Events, InQueue, Waiting
  <2>3. Queued' = Queued
    BY <2>2 DEF Queued
  <2> QED BY <1>1, <2>1, <2>2, <2>3 DEF Calm, Steady, InLine
<1> HIDE DEF rows, n
<1>9. Listed' = Listed \cup Paged
  <2>1. ASSUME NEW i \in 1 .. n + Len(list) PROVE list'[i].m \in Listed \cup Paged
    <3>1. CASE i > n
      BY <1>2, <1>4, <3>1 DEF Listed
    <3>2. CASE ~(i > n)
      <4>1. i \in 1 .. n
        BY <1>2, <3>2
      <4> QED BY <1>4, <1>6, <4>1
    <3> QED BY <3>1, <3>2
  <2>2. ASSUME NEW i \in 1 .. Len(list) PROVE list[i].m \in Listed'
    BY <1>4, <2>2 DEF Listed
  <2>3. ASSUME NEW i \in 1 .. n PROVE rows[i] \in Listed'
    <3>1. i \in 1 .. n + Len(list)
      BY <1>2
    <3>2. list'[i].m = rows[i]
      BY <1>4
    <3> QED BY <1>4, <3>1, <3>2 DEF Listed
  <2>4. Listed' \subseteq Listed \cup Paged
    BY <1>4, <2>1 DEF Listed
  <2>5. Listed \subseteq Listed'
    BY <1>2, <2>2 DEF Listed
  <2>6. Paged \subseteq Listed'
    BY <1>6, <2>3
  <2> QED BY <2>4, <2>5, <2>6
<1>10. 0 \notin Paged /\ \A m \in Paged : m \in 1 .. posted
  BY <1>2, <1>5, <1>6
<1>11. Known' = Known \cup Paged
  BY <1>8, <1>9, <1>10 DEF Known
<1>12. Owed' = Owed
  BY <1>1, <1>8 DEF Owed
<1>13. \A p \in Paged, m \in Known : p < m
  BY <1>5, <1>6
<1>14. Once'
  <2>1. ASSUME NEW i \in DOMAIN list', NEW j \in DOMAIN list',
               list'[i].m = list'[j].m, list'[i].m # 0
        PROVE  i = j
    <3>1. CASE i \in 1 .. n /\ j \in 1 .. n
      <4>1. rows[i] = rows[j]
        BY <1>4, <2>1, <3>1
      <4>2. ~(rows[i] < rows[j]) /\ ~(rows[j] < rows[i])
        BY <1>2, <3>1, <4>1
      <4> QED BY <1>2, <1>5, <3>1, <4>2
    <3>2. CASE i > n /\ j > n
      <4>1. /\ i - n \in DOMAIN list /\ j - n \in DOMAIN list
            /\ list'[i] = list[i - n] /\ list'[j] = list[j - n]
        BY <1>2, <1>4, <2>1, <3>2
      <4>2. i - n = j - n
        BY <2>1, <4>1 DEF Calm, Steady, Once
      <4> QED BY <1>2, <1>4, <2>1, <4>2
    <3>3. ASSUME NEW k \in 1 .. n, NEW l \in DOMAIN list', l > n, list'[k].m = list'[l].m,
                 list'[l].m # 0
          PROVE  FALSE
      <4>1. l - n \in DOMAIN list /\ list'[l] = list[l - n]
        BY <1>2, <1>4, <3>3
      <4>2. list'[l].m \in Known
        BY <3>3, <4>1 DEF Known, Listed
      <4>3. rows[k] < rows[k]
        BY <1>4, <1>5, <3>3, <4>2
      <4> QED BY <1>2, <4>3
    <3>4. (i \in 1 .. n \/ i > n) /\ (j \in 1 .. n \/ j > n)
      BY <1>2, <1>4, <2>1
    <3> QED BY <2>1, <3>1, <3>2, <3>3, <3>4
  <2>2. Listed' \cap Awaited' = {} /\ 0 \notin Awaited' \cup Queued'
    <3>1. \A p \in Paged : p \notin Known
      BY <1>10, <1>13
    <3> QED BY <1>8, <1>9, <3>1 DEF Known, Calm, Steady, Once
  <2>3. (Listed' \cup Awaited') \cap Queued' = {}
    <3>1. \A p \in Paged : p \notin Known
      BY <1>10, <1>13
    <3> QED BY <1>8, <1>9, <3>1 DEF Known, Calm, Steady, Once
  <2>4. \A m \in Known' : m <= posted'
    BY <1>1, <1>2, <1>10, <1>11 DEF Calm, Steady, Once
  <2> QED BY <1>1, <2>1, <2>2, <2>3, <2>4 DEF Calm, Steady, Once
<1>15. Leaving'
  BY <1>1, <1>7, <1>8, <1>11 DEF Calm, Steady, Leaving
<1>16. Echoed'
  <2>1. ASSUME NEW i \in DOMAIN list', i \notin 1 .. n
        PROVE  i > n /\ i - n \in DOMAIN list /\ list'[i] = list[i - n]
    BY <1>2, <1>4, <2>1
  <2>2. ASSUME NEW i \in DOMAIN list', NEW j \in DOMAIN list', list'[i].c = list'[j].c, list'[i].c # 0
        PROVE  i = j
    <3>1. i \notin 1 .. n /\ j \notin 1 .. n
      BY <1>4, <2>2
    <3>2. /\ i - n \in DOMAIN list /\ j - n \in DOMAIN list
          /\ list'[i] = list[i - n] /\ list'[j] = list[j - n]
      BY <2>1, <3>1
    <3>3. i - n = j - n
      BY <2>2, <3>2 DEF Calm, Steady, Echoed
    <3> QED BY <1>2, <1>4, <2>2, <3>3
  <2>3. ASSUME NEW i \in DOMAIN list'
        PROVE  list'[i].c <= sent /\ (list'[i].m = 0 => list'[i].c \in Owed)
    <3>1. CASE i \in 1 .. n
      <4>1. sent \in Nat /\ list'[i].m # 0 /\ list'[i].c = 0
        BY <1>4, <1>5, <3>1, Places DEF Calm
      <4> QED BY <4>1
    <3>2. CASE i \notin 1 .. n
      BY <2>1, <3>2 DEF Calm, Steady, Echoed
    <3> QED BY <3>1, <3>2
  <2>4. ASSUME NEW c \in Owed PROVE c <= sent /\ \E i \in DOMAIN list' : list'[i] = Entry(0, c, TRUE)
    <3>1. PICK i \in DOMAIN list : list[i] = Entry(0, c, TRUE) /\ c <= sent
      BY DEF Calm, Steady, Echoed
    <3>2. i + n \in DOMAIN list' /\ list'[i + n] = list[i]
      BY <1>2, <1>4
    <3> QED BY <3>1, <3>2
  <2> QED BY <1>1, <1>8, <1>12, <2>2, <2>3, <2>4 DEF Calm, Steady, Echoed
<1>17. Gapless'
  <2>1. ASSUME NEW k \in Known', NEW m \in Live', m >= k PROVE m \in Known'
    BY <1>5, <1>2, <1>6, <1>8, <1>11, <2>1 DEF NoGap
  <2>2. ~hasMore' => Live' \subseteq Known'
    <3>1. ~hasMore' => n < Page
      <4>1. hasMore' <=> n = Page
        BY <1>1, Zenon
      <4>2. n \in Nat /\ Page \in Nat /\ n <= Page
        BY <1>2, <1>5
      <4> QED BY <4>1, <4>2
    <3>2. n < Page => Live \subseteq Known \cup Paged
      BY <1>5 DEF NoGap, n
    <3> QED BY <1>8, <1>11, <3>1, <3>2
  <2> QED BY <1>7, <2>1, <2>2 DEF Gapless
<1> QED BY <1>8, <1>14, <1>15, <1>16, <1>17 DEF Steady

------------------------------------------------------------------------------
(* Together.                                                               *)

\* The answer to openChat: what was shown before is gone.
LEMMA HistoryShownKeeps ==
  ASSUME ConversationAssumption, TypeOK, Loading, HistoryShown, cause = "none", cause' = "none"
  PROVE  Steady'
<1> DEFINE rows == hist.rows
           n == Len(rows)
           E == Entries(rows, TRUE)
<1>1. /\ list' = E /\ more.pc = "idle" /\ hasMore /\ hist.pc = "served"
      /\ hist'.top = hist.top
      /\ UNCHANGED <<posted, gone, pending, hasMore, more, queue, opening, sent, outbox, deleting>>
  BY DEF HistoryShown, Because, TypeOK
<1>2. /\ queue = <<>> /\ opening = <<>> /\ more.rows = <<>> /\ sent = 0 /\ outbox = {}
  <2>1. queue = <<>> /\ opening = <<>> /\ more.rows = <<>> /\ sent = 0
    BY <1>1 DEF Loading, Closed
  <2>2. outbox \subseteq 1 .. sent
    BY DEF TypeOK
  <2> QED BY <2>1, <2>2
<1>3. /\ rows \in Seq(Numbers) /\ n \in Nat /\ DOMAIN rows = 1 .. n /\ posted \in Nat
      /\ \A i \in 1 .. n : rows[i] \in Nat
      /\ hist.top \in Nat /\ hist.top <= posted
  <2>1. rows \in Seq(Numbers)
    BY DEF TypeOK
  <2>2. posted \in Nat /\ hist.top \in Nat /\ hist.top <= posted
    BY Places DEF Loading, Committed
  <2> QED BY <2>1, <2>2 DEF Numbers, ConversationAssumption
<1>4. /\ E \in Seq(Item) /\ Len(E) = n
      /\ \A i \in 1 .. n : E[i] = [m |-> rows[i], c |-> 0, plain |-> TRUE]
  BY <1>3, EntriesAreItems
<1> HIDE DEF E
<1>5. /\ \A i, j \in 1 .. n : i < j => rows[i] < rows[j]
      /\ \A i \in 1 .. n : rows[i] \in 1 .. hist.top /\ (rows[i] \in gone => Unpublished(rows[i]))
      /\ NoGap(rows, {rows[i] : i \in DOMAIN rows} \cup Waiting)
  BY <1>1, <1>3 DEF Loading, Served
<1>c. /\ \A e \in pending : /\ e.m \in 1 .. posted /\ e.c = 0
                            /\ e.kind = "delete" => e.m \in gone
      /\ \A e, f \in pending : e.kind = f.kind /\ e.m = f.m => e = f
  BY <1>1 DEF Loading, Committed
<1> HIDE DEF rows, n
<1>6. /\ DOMAIN list' = 1 .. n
      /\ \A i \in 1 .. n : list'[i].m = rows[i] /\ list'[i].c = 0
  BY <1>1, <1>4
<1>7. /\ Listed' = {rows[i] : i \in DOMAIN rows} /\ Live' = Live
  BY <1>1, <1>3, <1>6 DEF Listed, Live
<1>13. DOMAIN queue' = {} /\ DOMAIN opening' = {} /\ DOMAIN more'.rows = {}
  BY <1>1, <1>2
<1>8. /\ Awaited' = {} /\ Paged' = {} /\ InQueue' = {} /\ Waiting' = Waiting
      /\ Events' = {e \in pending : e.kind = "delete" \/ e.m > hist.top}
  <2>1. Awaited' = {} /\ Paged' = {} /\ InQueue' = {}
    BY <1>13 DEF Awaited, Paged, InQueue
  <2>2. Waiting' = Waiting
    BY <1>1 DEF Waiting
  <2>3. Events' = {e \in pending : e.kind = "delete" \/ e.m > hist.top}
    BY <1>1, <1>13 DEF Events
  <2> QED BY <2>1, <2>2, <2>3
<1>9. Queued' = Waiting
  <2>1. \A m : m \in Queued' <=> \E e \in pending : e.kind = "message" /\ e.m > hist.top /\ e.m = m
    BY <1>8 DEF Queued
  <2>2. \A m : m \in Waiting <=> \E e \in pending : e.kind = "message" /\ e.m > hist.top /\ e.m = m
    BY DEF Waiting
  <2> QED BY <2>1, <2>2
<1>w. \A m \in Waiting : m > hist.top /\ m \in 1 .. posted
  BY <1>c DEF Waiting
<1>10. \A m \in Listed' : m \in 1 .. hist.top /\ m \in 1 .. posted /\ m # 0
  BY <1>3, <1>5, <1>7
<1>11. Known' = Listed' \cup Waiting
  BY <1>8, <1>9, <1>10 DEF Known
<1>12. Owed' = {}
  <2>1. DOMAIN opening' = {} /\ outbox' = {}
    BY <1>1, <1>2
  <2> QED BY <1>8, <1>c, <2>1 DEF Owed
<1>14. Once'
  <2>1. ASSUME NEW i \in 1 .. n, NEW j \in 1 .. n, rows[i] = rows[j] PROVE i = j
    <3>1. ~(rows[i] < rows[j]) /\ ~(rows[j] < rows[i])
      BY <1>3, <2>1
    <3> QED BY <1>3, <1>5, <3>1
  <2>2. \A m \in Known' : m <= posted'
    BY <1>1, <1>3, <1>10, <1>11, <1>w
  <2>3. (Listed' \cup Awaited') \cap Queued' = {} /\ 0 \notin Awaited' \cup Queued'
    BY <1>3, <1>8, <1>9, <1>10, <1>w
  <2> QED BY <1>6, <1>8, <1>13, <2>1, <2>2, <2>3 DEF Once
<1>i. InLine'
  BY <1>1, <1>13, <1>c DEF InLine
<1>15. Leaving'
  <2>1. \A f \in Events' : f.kind = "delete" => f.m \in gone'
    BY <1>1, <1>8, <1>c
  <2>2. ASSUME NEW m \in gone, m \in Known'
        PROVE  \/ \E f \in Events' : f.kind = "delete" /\ f.m = m
               \/ m \in Waiting'
    <3>1. CASE m \in Waiting
      BY <1>8, <3>1
    <3>2. CASE m \in Listed'
      <4>1. Unpublished(m)
        BY <1>3, <1>5, <1>7, <2>2, <3>2
      <4> QED BY <1>8, <4>1 DEF Unpublished
    <3> QED BY <1>11, <2>2, <3>1, <3>2
  <2> QED BY <1>1, <1>8, <2>1, <2>2 DEF Leaving
<1>16. Echoed'
  <2>1. ASSUME NEW i \in 1 .. n
        PROVE  list'[i].c = 0 /\ list'[i].c <= sent' /\ list'[i].m # 0
    BY <1>1, <1>2, <1>6, <1>7, <1>10, <1>3
  <2>2. \A f \in Events' : f.c \notin outbox' /\ f.c = 0
    BY <1>1, <1>2, <1>8, <1>c
  <2> QED BY <1>6, <1>12, <1>13, <2>1, <2>2 DEF Echoed
<1>17. Gapless'
  <2>1. ASSUME NEW k \in Known', NEW m \in Live', m >= k PROVE m \in Known'
    <3>1. CASE k \in Listed'
      BY <1>5, <1>7, <1>11, <2>1, <3>1 DEF NoGap
    <3>2. CASE k \in Waiting /\ n # 0
      <4>1. 1 \in 1 .. n /\ 1 \in DOMAIN rows /\ rows[1] \in 1 .. hist.top
        BY <1>3, <1>5, <3>2
      <4>2. m \in Nat /\ k \in Nat /\ k > hist.top
        BY <1>7, <1>w, <2>1, <3>2 DEF Live
      <4>3. m >= rows[1]
        BY <1>3, <2>1, <4>1, <4>2
      <4> QED BY <1>5, <1>7, <1>11, <4>1, <4>3 DEF NoGap
    <3>3. CASE n = 0
      <4>1. Len(rows) < Page
        BY <3>3 DEF n, ConversationAssumption
      <4> QED BY <1>5, <1>7, <1>11, <4>1 DEF NoGap
    <3> QED BY <1>11, <2>1, <3>1, <3>2, <3>3
  <2>2. more'.pc = "idle" /\ hasMore'
    BY <1>1
  <2> QED BY <2>1, <2>2 DEF Gapless
<1> QED BY <1>14, <1>i, <1>15, <1>16, <1>17 DEF Steady

\* A deletion, told by an event or by an answer, of a message nothing brings back.
LEMMA DeletionDelivered ==
  ASSUME ConversationAssumption, Calm, Deliver, Head(queue).kind # "message",
         cause = "none", cause' = "none"
  PROVE  Steady'
<1> DEFINE e == Head(queue)
<1>1. /\ queue # <<>> /\ queue' = Tail(queue) /\ list' = Without(e.m) /\ ~Overtakes(e.m)
      /\ UNCHANGED <<posted, gone, pending, hasMore, hist, more, opening, sent, outbox, deleting>>
  BY DEF Deliver, Because
<1>2. e = queue[1] /\ queue[1] \in Events /\ queue[1].kind = "delete"
  <2>1. e = queue[1] /\ queue[1] \in Event /\ Len(queue) \in Nat \ {0}
    BY <1>1, EventTaken DEF Calm
  <2>2. 1 \in DOMAIN queue
    BY <2>1, Places DEF Calm
  <2>3. queue[1] \in Events /\ queue[1].kind \in {"message", "delete"}
    BY <2>1, <2>2 DEF Events, Event
  <2> QED BY <2>1, <2>3
<1> HIDE DEF e
<1>3. e.m \in gone
  BY <1>2 DEF Calm, Steady, Leaving
<1>4. e.m \notin Awaited /\ e.m \notin Paged
  BY <1>1 DEF Overtakes, Paged
<1> QED BY <1>1, <1>2, <1>3, <1>4, RemovalKeeps

\* The answer to a deletion of one's own.
LEMMA DeleteAnsweredKeeps ==
  ASSUME ConversationAssumption, Calm, NEW m \in deleting, DeleteAnswered(m),
         cause = "none", cause' = "none"
  PROVE  Steady'
<1>1. /\ deleting' = deleting \ {m} /\ list' = Without(m) /\ ~Overtakes(m)
      /\ UNCHANGED <<posted, gone, pending, hasMore, hist, more, queue, opening, sent, outbox>>
  BY DEF DeleteAnswered, Because
<1>2. m \in gone
  BY DEF Calm, TypeOK
<1>3. m \notin Awaited /\ m \notin Paged
  BY <1>1 DEF Overtakes, Paged
<1> QED BY <1>1, <1>2, <1>3, RemovalKeeps

\* Every step, once the answer to openChat was shown.
LEMMA SteadyKeeps ==
  ASSUME ConversationAssumption, Calm, Next, TypeOK', cause = "none", cause' = "none"
  PROVE  Steady'
<1>1. CASE OpenChat \/ History \/ HistoryShown
  BY <1>1 DEF Calm, OpenChat, History, HistoryShown
<1>2. CASE HistoryFails \/ OtherChat
  BY <1>2 DEF HistoryFails, OtherChat, Because
<1>3. CASE Connect
  BY <1>3, RestKeeps DEF Calm, Connect
<1>4. CASE Disconnect
  <2>1. queue' = queue
    BY <1>4 DEF Disconnect, Because
  <2> QED BY <1>4, <2>1, RestKeeps DEF Calm, Disconnect
<1>5. CASE PostByOther
  <2>1. Post(0) /\ outbox' = outbox
    BY <1>5 DEF PostByOther
  <2>2. 0 \in 0 .. MaxSends
    BY DEF ConversationAssumption
  <2> QED BY <2>1, <2>2, PostKeeps
<1>6. CASE Deliver
  <2>1. CASE Head(queue).kind = "message"
    BY <1>6, <2>1, MessageDelivered
  <2>2. CASE Head(queue).kind # "message"
    BY <1>6, <2>2, DeletionDelivered
  <2> QED BY <2>1, <2>2
<1>7. ASSUME NEW m \in 1 .. posted, NEW own \in BOOLEAN, Delete(m, own) PROVE Steady'
  BY <1>7, DeleteKeeps
<1>8. ASSUME NEW m \in deleting, DeleteAnswered(m) PROVE Steady'
  BY <1>8, DeleteAnsweredKeeps
<1>9. ASSUME NEW i \in DOMAIN opening, Opened(i) PROVE Steady'
  BY <1>9, OpenedKeeps
<1>10. CASE Send
  BY <1>10, SendKeeps
<1>11. ASSUME NEW c \in outbox, PostSent(c) PROVE Steady'
  <2>1. Post(c) /\ outbox' = outbox \ {c}
    BY <1>11 DEF PostSent
  <2>2. c \in 0 .. MaxSends
    <3>1. sent \in 0 .. MaxSends /\ outbox \subseteq 1 .. sent /\ MaxSends \in Nat
      BY DEF Calm, TypeOK, ConversationAssumption
    <3> QED BY <3>1
  <2> QED BY <1>11, <2>1, <2>2, PostKeeps
<1>12. ASSUME NEW c \in outbox, SendLost(c) PROVE Steady'
  BY <1>12 DEF SendLost, Because
<1>13. CASE LoadMore
  BY <1>13, LoadMoreKeeps
<1>14. CASE Older
  BY <1>14, OlderKeeps
<1>15. CASE OlderShown
  BY <1>15, OlderShownKeeps
<1>16. CASE OlderFails
  BY <1>16, OlderFailsKeeps
<1>17. ASSUME NEW e \in pending, PublishMessage(e) \/ PublishDeletion(e) PROVE Steady'
  BY <1>17, PublishKeeps
<1>18. ASSUME NEW e \in pending, PublishFails(e) PROVE Steady'
  BY <1>18 DEF Calm, Asked, PublishFails, Because
<1> QED
  BY <1>1, <1>2, <1>3, <1>4, <1>5, <1>6, <1>7, <1>8, <1>9, <1>10, <1>11, <1>12, <1>13, <1>14,
     <1>15, <1>16, <1>17, <1>18 DEF Next

\* TalkInv is inductive.
LEMMA TalkStarts ==
  ASSUME ConversationAssumption, Init
  PROVE  TypeOK /\ TalkInv
<1>1. TypeOK
  <2>1. /\ posted \in Numbers /\ gone \subseteq 1 .. posted /\ deleting \subseteq gone
        /\ pending \subseteq Event
    BY DEF Init, Numbers
  <2>2. list \in Seq(Item) /\ queue \in Seq(Event) /\ opening \in Seq(Event)
    BY DEF Init
  <2>3. hist \in [pc : {"none", "asked", "served", "over"}, rows : Seq(Numbers), top : Numbers]
    BY DEF Init, NoHist, Numbers, ConversationAssumption
  <2>4. more \in [pc : {"idle", "asked", "served"}, before : Numbers, rows : Seq(Numbers)]
    BY DEF Init, NoMore, Numbers, ConversationAssumption
  <2>5. /\ hasMore \in BOOLEAN /\ up \in BOOLEAN
        /\ outbox \subseteq 1 .. sent /\ cause \in Causes
    BY DEF Init, Causes
  <2>6. sent \in 0 .. MaxSends
    <3>1. MaxSends \in Nat /\ sent = 0
      BY DEF Init, ConversationAssumption
    <3> QED BY <3>1
  <2> QED BY <2>1, <2>2, <2>3, <2>4, <2>5, <2>6 DEF TypeOK
<1>2. TalkInv
  BY DEF Init, TalkInv, Loading, Closed, Committed, Served, NoHist, NoMore
<1> QED BY <1>1, <1>2

\* Every step keeps the invariant.
LEMMA TalkKeeps ==
  ASSUME ConversationAssumption, TypeOK, TalkInv, [Next]_vars
  PROVE  TypeOK' /\ TalkInv'
<1>1. TypeOK'
  BY TypeKeeps
<1>2. ASSUME UNCHANGED vars PROVE TalkInv'
  <2>1. UNCHANGED <<posted, gone, pending, list, hasMore, hist, more, up, queue, opening, sent, outbox,
                    deleting, cause>>
    BY <1>2 DEF vars
  <2>2. ASSUME Steady PROVE Steady'
    BY <2>1, <2>2, RestKeeps
  <2>3. Loading => Loading'
    <3>1. Live' = Live /\ Waiting' = Waiting /\ \A m : Unpublished(m)' = Unpublished(m)
      BY <2>1 DEF Live, Waiting, Unpublished
    <3> QED BY <2>1, <3>1 DEF Loading, Closed, Committed, Served, NoGap
  <2> QED BY <2>1, <2>2, <2>3 DEF TalkInv
<1>3. ASSUME Next, cause' = "none" PROVE Loading' /\ (hist'.pc = "over" => Steady')
  <2>1. cause = "none"
    BY <1>3, StaysBlamed
  <2>2. Loading /\ (hist.pc = "over" => Steady)
    BY <2>1 DEF TalkInv
  <2>3. Loading'
    BY <1>3, <2>1, <2>2, LoadingKeeps
  <2>4. CASE hist.pc = "over"
    <3>1. Calm
      BY <2>2, <2>4 DEF Calm
    <3>2. Steady'
      BY <1>1, <1>3, <2>1, <3>1, SteadyKeeps
    <3> QED BY <2>3, <3>2
  <2>5. CASE HistoryShown
    <3>1. Steady'
      BY <1>3, <2>1, <2>2, <2>5, HistoryShownKeeps
    <3> QED BY <2>3, <3>1
  <2>6. CASE hist.pc # "over" /\ ~HistoryShown
    <3>1. hist'.pc # "over"
      <4>1. CASE OpenChat
        BY <4>1 DEF OpenChat, NoHist
      <4>2. CASE History
        BY <4>2 DEF History
      <4>3. CASE HistoryFails
        BY <1>3, <2>1, <4>3 DEF HistoryFails, Because
      <4>4. CASE ~OpenChat /\ ~History /\ ~HistoryFails
        BY <1>3, <2>6, <4>4 DEF Next, Connect, Disconnect, PostByOther, Deliver, Delete, DeleteAnswered,
           Opened, Send, PostSent, Post, SendLost, LoadMore, Older, OlderShown, OlderFails, OtherChat,
           PublishMessage, PublishDeletion, PublishFails, Publish
      <4> QED BY <4>1, <4>2, <4>3, <4>4
    <3> QED BY <2>3, <3>1
  <2> QED BY <2>3, <2>4, <2>5, <2>6
<1> QED BY <1>1, <1>2, <1>3 DEF TalkInv

\* The types of Conversation hold throughout.
THEOREM TypeCorrect ==
  ASSUME ConversationAssumption
  PROVE  Spec => []TypeOK
<1>1. Init => TypeOK
  BY TalkStarts
<1>2. TypeOK /\ [Next]_vars => TypeOK'
  BY TypeKeeps
<1> QED BY <1>1, <1>2, PTL DEF Spec

\* A list without repetition has as many messages as entries.
LEMMA AsManyAsEntries ==
  ASSUME ConversationAssumption, TypeOK, \A i, j \in DOMAIN list : list[i].m = list[j].m => i = j
  PROVE  Cardinality(Listed) = Len(list)
<1> DEFINE n == Len(list)
           f == [i \in 1 .. n |-> list[i].m]
<1>1. n \in Nat /\ DOMAIN list = 1 .. n
  BY Places
<1>2. Listed = {list[i].m : i \in 1 .. n}
  BY <1>1 DEF Listed
<1>3. f \in Bijection(1 .. n, Listed)
  <2>1. f \in [1 .. n -> Listed]
    BY <1>2
  <2>2. \A i, j \in 1 .. n : f[i] = f[j] => i = j
    BY <1>1
  <2>3. \A m \in Listed : \E i \in 1 .. n : f[i] = m
    BY <1>2
  <2> HIDE DEF f, n
  <2> QED BY <2>1, <2>2, <2>3, Fun_IsBij
<1>4. ExistsBijection(1 .. n, Listed)
  BY <1>3 DEF ExistsBijection
<1> HIDE DEF f
<1> QED BY <1>1, <1>4, FS_CountingElements

\* The invariant says what was promised, when nothing is on its way.
LEMMA TalkIsWhole ==
  ASSUME ConversationAssumption, TypeOK, TalkInv
  PROVE  NoneTwiceNoneMissing
<1> SUFFICES ASSUME cause = "none", Settled
             PROVE  /\ Cardinality(Listed) = Len(list)
                    /\ Listed = {m \in 1 .. posted \ gone : \E i \in Listed : m >= i}
                    /\ ~hasMore => Listed = 1 .. posted \ gone
  BY DEF NoneTwiceNoneMissing
<1>1. Calm /\ queue = <<>> /\ opening = <<>> /\ more.pc = "idle" /\ deleting = {} /\ outbox = {}
      /\ pending = {}
  BY DEF TalkInv, Calm, Settled
<1>2. Awaited = {} /\ Events = {}
  <2>1. DOMAIN opening = {} /\ DOMAIN queue = {}
    BY <1>1
  <2> QED BY <1>1, <2>1 DEF Awaited, Events
<1>3. Queued = {} /\ Owed = {} /\ Waiting = {}
  <2>1. DOMAIN opening = {}
    BY <1>1
  <2> QED BY <1>1, <1>2, <2>1 DEF Queued, Owed, Waiting
<1>4. 0 \notin Listed
  BY <1>1, <1>3 DEF Calm, Steady, Echoed, Listed
<1>5. Known = Listed
  BY <1>2, <1>3, <1>4 DEF Known
<1>6. \A m \in Listed : m \in Live
  <2>1. Listed \cap gone = {}
    BY <1>1, <1>2, <1>3, <1>5 DEF Calm, Steady, Leaving
  <2>2. \A m \in Listed : m \in 1 .. posted
    BY <1>1, <1>5, Numbered
  <2> QED BY <2>1, <2>2 DEF Live
<1>7. \A i, j \in DOMAIN list : list[i].m = list[j].m => i = j
  <2>1. \A i \in DOMAIN list : list[i].m # 0
    BY <1>4 DEF Listed
  <2> QED BY <1>1, <2>1 DEF Calm, Steady, Once
<1>8. Cardinality(Listed) = Len(list)
  BY <1>7, AsManyAsEntries
<1>9. \A k \in Listed, m \in Live : m >= k => m \in Listed
  BY <1>1, <1>5 DEF Calm, Steady, Gapless
<1>10. ~hasMore => Live \subseteq Listed
  BY <1>1, <1>5 DEF Calm, Steady, Gapless
<1>11. Listed = {m \in Live : \E i \in Listed : m >= i}
  <2>1. \A m \in Listed : m >= m
    BY <1>6 DEF Live
  <2> QED BY <1>6, <1>9, <2>1
<1>12. ~hasMore => Listed = Live
  BY <1>6, <1>10
<1> QED BY <1>8, <1>11, <1>12, Zenon DEF Live

\* App.tsx and ChatView.tsx: for any page, messages, sends and order of the events,
\* the list ends with each of the newest messages once, without a deleted one and
\* without a gap, as long as nothing has happened that Conversation names.
THEOREM NoneTwiceNoneMissingHolds ==
  ASSUME ConversationAssumption
  PROVE  Spec => []NoneTwiceNoneMissing
<1>1. Init => TypeOK /\ TalkInv
  BY TalkStarts
<1>2. TypeOK /\ TalkInv /\ [Next]_vars => (TypeOK /\ TalkInv)'
  BY TalkKeeps
<1>3. TypeOK /\ TalkInv => NoneTwiceNoneMissing
  BY TalkIsWhole
<1> QED BY <1>1, <1>2, <1>3, PTL DEF Spec
==============================================================================
