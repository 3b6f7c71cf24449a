---------------------------- MODULE SpiderProofs ----------------------------
(***************************************************************************)
(* Proofs about the spider skill: what a crawl reports, for any site,      *)
(* limits and number of crawls, and the cache of pages that all calls      *)
(* share, for any size.                                                    *)
(***************************************************************************)
EXTENDS SpiderCrawl,
        FiniteSetTheorems, SequenceTheorems, WellFoundedInduction, TLAPS

-----------------------------------------------------------------------------
(* Counting up: a set of numbers that holds 0 and what follows each of its *)
(* members holds them all, and a function can be defined step by step.     *)

LEMMA CountingUp ==
    ASSUME NEW T, 0 \in T, \A n \in Nat : n \in T => n + 1 \in T
    PROVE  \A n \in Nat : n \in T
<1> DEFINE Out == {n \in Nat : n \notin T}
<1>1. SUFFICES ASSUME Out # {} PROVE FALSE
  OBVIOUS
<1>2. PICK n \in Out : \A m \in Out : ~(<<m, n>> \in OpToRel(<, Nat))
  <2>1. Out \subseteq Nat
    OBVIOUS
  <2> HIDE DEF Out
  <2>2. QED
    BY <1>1, <2>1, NatLessThanWellFounded, WFMin
<1>3. n \in Nat /\ n # 0 /\ n - 1 \in Nat /\ n - 1 < n
  OBVIOUS
<1>4. n - 1 \notin Out
  BY <1>2, <1>3 DEF OpToRel
<1>5. QED
  BY <1>3, <1>4

\* What leads from each value to the next, at each number.
StepsIn(S) == [Nat -> [S -> S]]

LEMMA StepByStep ==
    ASSUME NEW S, NEW first \in S, NEW next \in StepsIn(S)
    PROVE  \E f \in [Nat -> S] : f[0] = first /\ \A n \in Nat : f[n + 1] = next[n][f[n]]
<1> DEFINE UpTo(n) == {f \in [Nat -> S] : f[0] = first /\ \A m \in Nat : m < n => f[m + 1] = next[m][f[m]]}
           Reached == {n \in Nat : UpTo(n) # {}}
           far == [n \in Nat |-> CHOOSE f \in UpTo(n) : TRUE]
           whole == [n \in Nat |-> far[n][n]]
<1> USE DEF StepsIn
<1>1. \A n \in Nat : n \in Reached
  <2>1. 0 \in Reached
    <3>1. [m \in Nat |-> first] \in UpTo(0)
      OBVIOUS
    <3>2. QED
      BY <3>1
  <2>2. ASSUME NEW n \in Nat, n \in Reached PROVE n + 1 \in Reached
    <3>1. PICK f \in UpTo(n) : TRUE
      BY <2>2
    <3> DEFINE g == [m \in Nat |-> IF m = n + 1 THEN next[n][f[n]] ELSE f[m]]
    <3>2. f \in [Nat -> S] /\ next[n][f[n]] \in S
      BY <3>1
    <3>3. g \in [Nat -> S] /\ g[0] = first
      BY <3>1, <3>2
    <3>4. ASSUME NEW m \in Nat, m < n + 1 PROVE g[m + 1] = next[m][g[m]]
      <4>1. m # n + 1 /\ (m < n \/ m = n)
        BY <3>4
      <4>2. CASE m = n
        BY <4>1, <4>2
      <4>3. CASE m < n
        BY <3>1, <4>1, <4>3
      <4>4. QED
        BY <4>1, <4>2, <4>3
    <3> HIDE DEF g
    <3>5. g \in UpTo(n + 1)
      BY <3>3, <3>4
    <3>6. QED
      BY <3>5
  <2> HIDE DEF Reached
  <2>3. QED
    BY <2>1, <2>2, CountingUp
<1>2. \A n \in Nat : far[n] \in UpTo(n)
  BY <1>1
<1> HIDE DEF far
<1>3. ASSUME NEW n \in Nat, NEW k \in Nat, n <= k PROVE \A m \in Nat : m <= n => far[n][m] = far[k][m]
  <2> DEFINE Same == {m \in Nat : m <= n => far[n][m] = far[k][m]}
  <2>1. 0 \in Same
    BY <1>2
  <2>2. ASSUME NEW m \in Nat, m \in Same PROVE m + 1 \in Same
    <3>1. SUFFICES ASSUME m + 1 <= n PROVE far[n][m + 1] = far[k][m + 1]
      OBVIOUS
    <3>2. m < n /\ m < k /\ far[n][m] = far[k][m]
      BY <1>3, <2>2, <3>1
    <3>3. far[n][m + 1] = next[m][far[n][m]] /\ far[k][m + 1] = next[m][far[k][m]]
      BY <1>2, <3>2
    <3>4. QED
      BY <3>2, <3>3
  <2> HIDE DEF Same
  <2>3. \A m \in Nat : m \in Same
    BY <2>1, <2>2, CountingUp
  <2>4. QED
    BY <2>3 DEF Same
<1>4. whole \in [Nat -> S] /\ whole[0] = first
  BY <1>2
<1>5. ASSUME NEW n \in Nat PROVE whole[n + 1] = next[n][whole[n]]
  <2>1. far[n + 1][n + 1] = next[n][far[n + 1][n]]
    BY <1>2
  <2>2. far[n][n] = far[n + 1][n]
    BY <1>3
  <2>3. QED
    BY <2>1, <2>2
<1>6. QED
  BY <1>4, <1>5

-----------------------------------------------------------------------------
(* SpiderCrawl: the page cache                                             *)

\* What the order holds does not matter, but that it is a finite sequence.
OrderIsList == \E S : cacheOrder \in Seq(S)

CacheInv == OrderIsList /\ CachedIsEvictable

-----------------------------------------------------------------------------
\* Whoever is first in the order, if it is not empty, everything else that was in
\* the order is still in its tail.
LEMMA TailKeepsTheRest ==
    ASSUME NEW S, NEW q \in Seq(S), q # <<>>, NEW i \in DOMAIN q, q[i] # Head(q)
    PROVE  \E j \in DOMAIN Tail(q) : Tail(q)[j] = q[i]
<1>1. i \in 1..Len(q) /\ i # 1
  OBVIOUS
<1>2. i - 1 \in DOMAIN Tail(q) /\ Tail(q)[i - 1] = q[i]
  BY <1>1
<1>3. QED
  BY <1>2

\* Appending to an order keeps what is in it and adds the page.
LEMMA AppendKeeps ==
    ASSUME NEW S, NEW q \in Seq(S), NEW x
    PROVE  /\ q \o <<x>> \in Seq(S \cup {x})
           /\ \A i \in DOMAIN q : \E j \in DOMAIN (q \o <<x>>) : (q \o <<x>>)[j] = q[i]
           /\ \E j \in DOMAIN (q \o <<x>>) : (q \o <<x>>)[j] = x
<1>1. q \in Seq(S \cup {x}) /\ <<x>> \in Seq(S \cup {x})
  OBVIOUS
<1>2. /\ Len(q \o <<x>>) = Len(q) + 1 /\ (q \o <<x>>)[Len(q) + 1] = x
      /\ \A i \in 1..Len(q) : (q \o <<x>>)[i] = q[i]
      /\ q \o <<x>> \in Seq(S \cup {x})
  BY <1>1
<1>3. DOMAIN q = 1..Len(q) /\ DOMAIN (q \o <<x>>) = 1..(Len(q) + 1) /\ Len(q) \in Nat
  BY <1>2
<1>4. QED
  BY <1>2, <1>3

\* Storing a page, with or without an eviction, leaves every cached page in the
\* order: also a page that was stored twice or is evicted and stored at once.
LEMMA StoringKeeps ==
    ASSUME CacheInv, NEW w \in SpiderCalls, CacheStores(w)
    PROVE  CacheInv'
<1> DEFINE u == item[w].url
           full == Cardinality(cache) >= CacheMaxSize /\ cacheOrder # <<>>
           kept == IF full THEN cache \ {Head(cacheOrder)} ELSE cache
           rest == IF full THEN Tail(cacheOrder) ELSE cacheOrder
<1>1. cache' = kept \cup {u} /\ cacheOrder' = rest \o <<u>>
  BY DEF CacheStores
<1>2. PICK S : cacheOrder \in Seq(S)
  BY DEF CacheInv, OrderIsList
<1>3. rest \in Seq(S)
  BY <1>2
<1>4. ASSUME NEW v \in kept PROVE \E i \in DOMAIN rest : rest[i] = v
  <2>1. PICK i \in DOMAIN cacheOrder : cacheOrder[i] = v
    BY <1>4 DEF CacheInv, CachedIsEvictable
  <2>2. CASE full
    BY <1>2, <1>4, <2>1, <2>2, TailKeepsTheRest
  <2>3. CASE ~full
    BY <2>1, <2>3
  <2>4. QED
    BY <2>2, <2>3
<1> HIDE DEF u, kept, rest
<1>5. /\ cacheOrder' \in Seq(S \cup {u})
      /\ \A i \in DOMAIN rest : \E j \in DOMAIN cacheOrder' : cacheOrder'[j] = rest[i]
      /\ \E j \in DOMAIN cacheOrder' : cacheOrder'[j] = u
  BY <1>1, <1>3, AppendKeeps
<1>6. ASSUME NEW v \in cache' PROVE \E j \in DOMAIN cacheOrder' : cacheOrder'[j] = v
  <2>1. CASE v \in kept
    BY <1>4, <1>5, <2>1
  <2>2. CASE v = u
    BY <1>5, <2>2
  <2>3. QED
    BY <1>1, <1>6, <2>1, <2>2
<1>7. QED
  BY <1>5, <1>6 DEF CacheInv, OrderIsList, CachedIsEvictable

\* Every page in the cache can still be evicted, whichever calls missed it at the
\* same time and in whatever order they stored it.
THEOREM CachedStaysEvictable == SpiderSpec => []CachedIsEvictable
<1>1. SpiderInit => CacheInv
  <2> SUFFICES ASSUME SpiderInit PROVE CacheInv
    OBVIOUS
  <2>1. cacheOrder \in Seq({}) /\ cache = {}
    BY DEF SpiderInit
  <2>2. QED
    BY <2>1 DEF CacheInv, OrderIsList, CachedIsEvictable
<1>2. CacheInv /\ [SpiderNext]_spiderVars => CacheInv'
  <2> SUFFICES ASSUME CacheInv, [SpiderNext]_spiderVars PROVE CacheInv'
    OBVIOUS
  <2>1. ASSUME UNCHANGED cacheVars PROVE CacheInv'
    BY <2>1 DEF CacheInv, OrderIsList, CachedIsEvictable, cacheVars
  <2>2. ASSUME NEW w \in SpiderCalls, ScrapeStarts(w) \/ CrawlStarts(w) PROVE CacheInv'
    BY <2>1, <2>2 DEF ScrapeStarts, CrawlStarts, cacheVars
  <2>3. ASSUME NEW w \in SpiderCalls, SpiderStep(w) PROVE CacheInv'
    <3>1. CASE CacheStores(w)
      BY <3>1, StoringKeeps
    <3>2. CASE LoopEnds(w) \/ TakeItem(w)
      BY <2>1, <3>2 DEF LoopEnds, TakeItem, cacheVars
    <3>3. CASE CacheHits(w) \/ CacheMisses(w) \/ FetchFails(w) \/ FetchSucceeds(w)
      BY <2>1, <3>3 DEF CacheHits, CacheMisses, FetchFails, FetchSucceeds, cacheVars
    <3>4. QED
      BY <2>3, <3>1, <3>2, <3>3 DEF SpiderStep
  <2>4. CASE UNCHANGED spiderVars
    BY <2>1, <2>4 DEF spiderVars, cacheVars
  <2>5. QED
    BY <2>2, <2>3, <2>4 DEF SpiderNext
<1>3. CacheInv => CachedIsEvictable
  BY DEF CacheInv
<1>4. QED
  BY <1>1, <1>2, <1>3, PTL DEF SpiderSpec

-----------------------------------------------------------------------------
(* A crawl: breadth first                                                  *)

Entries(q) == {q[i] : i \in DOMAIN q}

\* At a page: between taking it from the queue and noting it, or failing to get it.
AtPage(w) == at[w] \in {"lookup", "fetch", "store"}

\* What a crawl still has to look at.
Pending(w) == Entries(queue[w]) \cup (IF AtPage(w) THEN {item[w]} ELSE {})

Around(w, n) == Near[n][StartUrl[w]]

\* A link is accounted for when it was visited or waits at a depth that small.
Covered(w, u, n) == u \in visited[w] \/ \E e \in Pending(w) : e.url = u /\ e.depth <= n

\* A visited page with text is reported once, and the page a crawl is at is new and
\* still fits in.
CountsOK(w) ==
    /\ IsFiniteSet(visited[w]) /\ Cardinality(visited[w]) <= MaxPages
    /\ Reported(w) = visited[w] \cap WithText
    /\ \A i, j \in DOMAIN results[w] : results[w][i] = results[w][j] => i = j
    /\ AtPage(w) => Cardinality(visited[w]) < MaxPages /\ item[w].url \notin visited[w]

\* Nothing is looked at that the start does not lead to in that many links.
WithinReach(w) ==
    /\ \A e \in Pending(w) : e.url \in Around(w, e.depth)
    /\ visited[w] \subseteq Around(w, MaxDepth)

\* The queue is in order of depth and spans two depths at most.
ByDepth(w) ==
    /\ \A i, j \in DOMAIN queue[w] : i <= j => queue[w][i].depth <= queue[w][j].depth
    /\ \A d, e \in Pending(w) : d.depth <= e.depth + 1
    /\ AtPage(w) => \A e \in Pending(w) : item[w].depth <= e.depth

\* As long as no fetch failed, nothing that can be reached was forgotten: the start,
\* and the links of a visited page, as far out as the page is near.
NothingForgotten(w) ==
    failed[w] = {} /\ at[w] # "idle" =>
        /\ Covered(w, StartUrl[w], 0)
        /\ \A n \in Nat : n < MaxDepth =>
             \A u \in visited[w] \cap Around(w, n) : \A v \in LinkedFrom(u) : Covered(w, v, n + 1)

CrawlInv(w) ==
    /\ CountsOK(w) /\ WithinReach(w) /\ ByDepth(w) /\ NothingForgotten(w)
    /\ at[w] = "idle" => visited[w] = {}
    /\ at[w] = "done" => ~LoopGoesOn(w)

-----------------------------------------------------------------------------
(* What the operators of a crawl return                                    *)

LEMMA EntriesOfParts ==
    ASSUME NEW S, NEW q \in Seq(S)
    PROVE  /\ Entries(q) \subseteq S
           /\ q # <<>> => Entries(q) = {Head(q)} \cup Entries(Tail(q))
           /\ \A r \in Seq(S) : Entries(q \o r) = Entries(q) \cup Entries(r)
           /\ \A x \in S : Entries(Append(q, x)) = Entries(q) \cup {x}
<1>1. Entries(q) \subseteq S
  BY DEF Entries
<1>2. ASSUME q # <<>> PROVE Entries(q) = {Head(q)} \cup Entries(Tail(q))
  <2>1. Len(q) \in Nat /\ Len(q) >= 1 /\ Head(q) = q[1] /\ DOMAIN q = 1..Len(q)
    BY <1>2
  <2>2. DOMAIN Tail(q) = 1..(Len(q) - 1) /\ \A i \in 1..(Len(q) - 1) : Tail(q)[i] = q[i + 1]
    BY <1>2
  <2>3. Entries(q) \subseteq {Head(q)} \cup Entries(Tail(q))
    <3> SUFFICES ASSUME NEW i \in DOMAIN q, q[i] # Head(q) PROVE q[i] \in Entries(Tail(q))
      BY DEF Entries
    <3>1. i - 1 \in 1..(Len(q) - 1) /\ (i - 1) + 1 = i
      BY <2>1
    <3>2. QED
      BY <2>2, <3>1 DEF Entries
  <2>4. Head(q) \in Entries(q)
    BY <2>1 DEF Entries
  <2>5. Entries(Tail(q)) \subseteq Entries(q)
    <3> SUFFICES ASSUME NEW i \in DOMAIN Tail(q) PROVE Tail(q)[i] \in Entries(q)
      BY DEF Entries
    <3>1. Tail(q)[i] = q[i + 1] /\ i + 1 \in DOMAIN q
      BY <2>1, <2>2
    <3>2. QED
      BY <3>1 DEF Entries
  <2>6. QED
    BY <2>3, <2>4, <2>5
<1>3. ASSUME NEW r \in Seq(S) PROVE Entries(q \o r) = Entries(q) \cup Entries(r)
  <2>1. /\ DOMAIN q = 1..Len(q) /\ DOMAIN r = 1..Len(r) /\ Len(q) \in Nat /\ Len(r) \in Nat
        /\ DOMAIN (q \o r) = 1..(Len(q) + Len(r))
        /\ \A i \in 1..(Len(q) + Len(r)) : (q \o r)[i] = IF i <= Len(q) THEN q[i] ELSE r[i - Len(q)]
    OBVIOUS
  <2>2. ASSUME NEW i \in DOMAIN (q \o r) PROVE (q \o r)[i] \in Entries(q) \cup Entries(r)
    <3>1. CASE i <= Len(q)
      BY <2>1, <3>1 DEF Entries
    <3>2. CASE ~(i <= Len(q))
      <4>1. i - Len(q) \in DOMAIN r
        BY <2>1, <3>2
      <4>2. QED
        BY <2>1, <3>2, <4>1 DEF Entries
    <3>3. QED
      BY <3>1, <3>2
  <2>3. ASSUME NEW i \in DOMAIN q PROVE q[i] \in Entries(q \o r)
    <3>1. i \in DOMAIN (q \o r) /\ (q \o r)[i] = q[i]
      BY <2>1
    <3>2. QED
      BY <3>1 DEF Entries
  <2>4. ASSUME NEW i \in DOMAIN r PROVE r[i] \in Entries(q \o r)
    <3>1. i + Len(q) \in DOMAIN (q \o r) /\ (q \o r)[i + Len(q)] = r[i]
      BY <2>1
    <3>2. QED
      BY <3>1 DEF Entries
  <2>5. Entries(q) \subseteq Entries(q \o r) /\ Entries(r) \subseteq Entries(q \o r)
    BY <2>3, <2>4 DEF Entries
  <2>6. Entries(q \o r) \subseteq Entries(q) \cup Entries(r)
    BY <2>2 DEF Entries
  <2>7. QED
    BY <2>5, <2>6
<1>4. ASSUME NEW x \in S PROVE Entries(Append(q, x)) = Entries(q) \cup {x}
  <2>1. Append(q, x) = q \o <<x>> /\ <<x>> \in Seq(S)
    OBVIOUS
  <2>2. Entries(<<x>>) = {x}
    BY DEF Entries
  <2>3. QED
    BY <1>3, <2>1, <2>2
<1>5. QED
  BY <1>1, <1>2, <1>3, <1>4

LEMMA LinksArePages == \A u \in Urls : LinkedFrom(u) \subseteq Urls
BY SpiderAssumption DEF LinkedFrom

\* The reference definition counts links one by one.
LEMMA NearIsStepwise ==
    /\ Near \in [Nat -> [Urls -> SUBSET Urls]]
    /\ \A u \in Urls : Near[0][u] = {u}
    /\ \A n \in Nat : \A u \in Urls :
         Near[n + 1][u] = Near[n][u] \cup UNION {LinkedFrom(v) : v \in Near[n][u]}
<1> DEFINE S == [Urls -> SUBSET Urls]
           first == [u \in Urls |-> {u}]
           further(near) == [u \in Urls |-> near[u] \cup UNION {LinkedFrom(v) : v \in near[u]}]
           next == [n \in Nat |-> [near \in S |-> further(near)]]
           Is(f) == f = [n \in Nat |-> IF n = 0 THEN first ELSE further(f[n - 1])]
<1>1. first \in S
  OBVIOUS
<1>2. ASSUME NEW near \in S PROVE further(near) \in S
  BY LinksArePages
<1>3. next \in [Nat -> [S -> S]] /\ \A n \in Nat : \A near \in S : next[n][near] = further(near)
  <2> HIDE DEF further, S
  <2>1. QED
    BY <1>2
<1> HIDE DEF first, further, next, S
<1>4. PICK f \in [Nat -> S] : f[0] = first /\ \A n \in Nat : f[n + 1] = next[n][f[n]]
  <2>1. next \in StepsIn(S)
    BY <1>3 DEF StepsIn
  <2>2. QED
    BY <1>1, <2>1, StepByStep
<1>5. Is(f)
  <2> SUFFICES ASSUME NEW n \in Nat PROVE f[n] = IF n = 0 THEN first ELSE further(f[n - 1])
    BY <1>4
  <2>1. CASE n = 0
    BY <1>4, <2>1
  <2>2. CASE n # 0
    <3>1. n - 1 \in Nat /\ (n - 1) + 1 = n
      BY <2>2
    <3>2. f[(n - 1) + 1] = next[n - 1][f[n - 1]]
      BY <1>4, <3>1
    <3>3. QED
      BY <1>3, <1>4, <2>2, <3>1, <3>2
  <2>3. QED
    BY <2>1, <2>2
<1>6. Near = CHOOSE g : Is(g)
  BY DEF Near, first, further
<1>7. Is(Near)
  <2> HIDE DEF Is
  <2>1. QED
    BY <1>5, <1>6
<1>8. Near[0] = first /\ \A n \in Nat : Near[n + 1] = further(Near[n])
  <2>1. ASSUME NEW n \in Nat PROVE Near[n + 1] = further(Near[n])
    <3>1. n + 1 \in Nat /\ n + 1 # 0 /\ (n + 1) - 1 = n
      OBVIOUS
    <3>2. Near[n + 1] = IF n + 1 = 0 THEN first ELSE further(Near[(n + 1) - 1])
      BY <1>7, <3>1
    <3>3. QED
      BY <3>1, <3>2
  <2>2. Near[0] = first
    BY <1>7
  <2>3. QED
    BY <2>1, <2>2
<1>9. \A n \in Nat : Near[n] \in S
  <2> DEFINE Typed == {n \in Nat : Near[n] \in S}
  <2>1. 0 \in Typed /\ \A n \in Nat : n \in Typed => n + 1 \in Typed
    BY <1>1, <1>2, <1>8
  <2> HIDE DEF Typed
  <2>2. \A n \in Nat : n \in Typed
    BY <2>1, CountingUp
  <2>3. QED
    BY <2>2 DEF Typed
<1>10. Near \in [Nat -> S]
  BY <1>7, <1>9
<1>11. ASSUME NEW u \in Urls
       PROVE  /\ first[u] = {u}
              /\ \A near : further(near)[u] = near[u] \cup UNION {LinkedFrom(v) : v \in near[u]}
  BY DEF first, further
<1>12. QED
  <2>1. Near \in [Nat -> [Urls -> SUBSET Urls]]
    BY <1>10 DEF S
  <2>2. QED
    BY <1>8, <1>11, <2>1

\* The links a page adds: each page it links to, once more for each time it does,
\* unless it was visited, one level further out.
LEMMA NewLinksAreTheRest ==
    ASSUME NEW w, item[w] \in PageItems
    PROVE  /\ NewLinks(w) \in Seq(PageItems)
           /\ \A e \in Entries(NewLinks(w)) : /\ item[w].depth < MaxDepth
                                              /\ e.depth = item[w].depth + 1
                                              /\ e.url \in LinkedFrom(item[w].url)
           /\ item[w].depth < MaxDepth =>
                \A v \in LinkedFrom(item[w].url) :
                  \/ v \in visited[w] \cup {item[w].url}
                  \/ \E e \in Entries(NewLinks(w)) : e.url = v /\ e.depth = item[w].depth + 1
<1> DEFINE here == item[w]
           links == LinksOf[here.url]
           more(i, q) == IF links[i] \in visited[w] \cup {here.url} THEN q
                         ELSE Append(q, Page(links[i], here.depth + 1))
           fresh[i \in 0..Len(links)] == IF i = 0 THEN <<>> ELSE more(i, fresh[i - 1])
           Is(f) == f = [i \in 0..Len(links) |-> IF i = 0 THEN <<>> ELSE more(i, f[i - 1])]
<1>1. NewLinks(w) = IF here.depth >= MaxDepth THEN <<>> ELSE fresh[Len(links)]
  BY Zenon DEF NewLinks
<1>2. fresh = CHOOSE f : Is(f)
  BY Zenon
<1> HIDE DEF fresh
<1>3. /\ here.url \in Urls /\ here.depth \in Nat /\ here.depth <= MaxDepth /\ MaxDepth \in Nat
      /\ links \in Seq(Urls) /\ Len(links) \in Nat /\ DOMAIN links = 1..Len(links)
      /\ LinkedFrom(here.url) = {links[i] : i \in DOMAIN links}
  BY SpiderAssumption DEF PageItems, LinkedFrom
<1>4. CASE here.depth >= MaxDepth
  <2>1. NewLinks(w) = <<>> /\ Entries(<<>>) = {} /\ <<>> \in Seq(PageItems)
    BY <1>1, <1>4 DEF Entries
  <2>2. QED
    BY <1>3, <1>4, <2>1
<1>5. CASE ~(here.depth >= MaxDepth)
  <2> DEFINE S == Seq(PageItems)
             next == [n \in Nat |-> [q \in S |-> IF n + 1 \in DOMAIN links THEN more(n + 1, q) ELSE q]]
  <2>1. ASSUME NEW i \in DOMAIN links
        PROVE  LET e == Page(links[i], here.depth + 1)
               IN e \in PageItems /\ e.url = links[i] /\ e.depth = here.depth + 1
    BY <1>3, <1>5 DEF Page, PageItems
  <2>2. ASSUME NEW i \in DOMAIN links, NEW q \in S PROVE more(i, q) \in S
    BY <2>1
  <2>3. next \in StepsIn(S) /\ <<>> \in S
    <3> HIDE DEF more, S, links, here
    <3>1. next \in StepsIn(S)
      BY <2>2 DEF StepsIn
    <3>2. QED
      BY <3>1 DEF S
  <2> HIDE DEF S, next
  <2>4. PICK f \in [Nat -> S] : f[0] = <<>> /\ \A n \in Nat : f[n + 1] = next[n][f[n]]
    BY ONLY <2>3, StepByStep
  <2> HIDE DEF more, links, here
  <2>5. ASSUME NEW i \in 1..Len(links) PROVE f[i] = more(i, f[i - 1])
    <3>1. i - 1 \in Nat /\ (i - 1) + 1 = i /\ i \in DOMAIN links /\ f[i - 1] \in S
      BY <1>3, <2>4
    <3>2. f[(i - 1) + 1] = next[i - 1][f[i - 1]]
      BY <2>4, <3>1
    <3>3. QED
      BY <3>1, <3>2 DEF next
  <2>6. Is([i \in 0..Len(links) |-> f[i]])
    <3> DEFINE cut == [i \in 0..Len(links) |-> f[i]]
    <3>1. ASSUME NEW i \in 0..Len(links) PROVE cut[i] = IF i = 0 THEN <<>> ELSE more(i, cut[i - 1])
      <4>1. CASE i = 0
        BY <2>4, <4>1
      <4>2. CASE i # 0
        <5>1. i \in 1..Len(links) /\ i - 1 \in 0..Len(links)
          BY <1>3, <4>2
        <5>2. QED
          BY <2>5, <4>2, <5>1
      <4>3. QED
        BY <4>1, <4>2
    <3>2. QED
      BY <3>1
  <2>7. Is(fresh)
    <3> HIDE DEF Is
    <3>1. QED
      BY <1>2, <2>6
  <2>8. fresh[0] = <<>> /\ \A i \in 1..Len(links) : fresh[i] = more(i, fresh[i - 1])
    BY <1>3, <2>7
  <2> DEFINE Seen == visited[w] \cup {here.url}
             New(e) == e.depth = here.depth + 1 /\ e.url \in LinkedFrom(here.url)
             Kept(i, v) == v \in Seen \/ \E e \in Entries(fresh[i]) : e.url = v /\ e.depth = here.depth + 1
             Good(i) == /\ fresh[i] \in S /\ \A e \in Entries(fresh[i]) : New(e)
                        /\ \A k \in 1..i : Kept(i, links[k])
  <2>9. \A i \in Nat : i <= Len(links) => Good(i)
    <3> DEFINE Goods == {i \in Nat : i <= Len(links) => Good(i)}
    <3>1. 0 \in Goods
      <4>1. Entries(<<>>) = {} /\ 1..0 = {}
        BY DEF Entries
      <4>2. QED
        BY <2>3, <2>8, <4>1
    <3>2. ASSUME NEW i \in Nat, i \in Goods PROVE i + 1 \in Goods
      <4>1. SUFFICES ASSUME i + 1 <= Len(links) PROVE Good(i + 1)
        OBVIOUS
      <4> DEFINE v == links[i + 1]
                 e == Page(v, here.depth + 1)
      <4>2. Good(i) /\ i + 1 \in DOMAIN links /\ fresh[i + 1] = more(i + 1, fresh[i])
        BY <1>3, <2>8, <3>2, <4>1
      <4>3. CASE v \in Seen
        <5>1. fresh[i + 1] = fresh[i]
          BY <4>2, <4>3 DEF more
        <5>2. \A k \in 1..(i + 1) : k \in 1..i \/ k = i + 1
          BY <3>2
        <5>3. \A k \in 1..(i + 1) : Kept(i, links[k])
          BY <4>2, <4>3, <5>2
        <5> HIDE DEF Seen, New
        <5>4. QED
          BY <4>2, <5>1, <5>3
      <4>4. CASE v \notin Seen
        <5>1. fresh[i + 1] = Append(fresh[i], e)
          BY <4>2, <4>4 DEF more
        <5>2. e \in PageItems /\ e.url = v /\ e.depth = here.depth + 1 /\ v \in LinkedFrom(here.url)
          BY <1>3, <2>1, <4>2
        <5> HIDE DEF e, Seen
        <5>3. fresh[i + 1] \in S /\ Entries(fresh[i + 1]) = Entries(fresh[i]) \cup {e}
          <6>1. fresh[i] \in Seq(PageItems)
            BY <4>2 DEF S
          <6>2. Append(fresh[i], e) \in Seq(PageItems)
            BY <5>2, <6>1
          <6>3. Entries(Append(fresh[i], e)) = Entries(fresh[i]) \cup {e}
            BY <5>2, <6>1, EntriesOfParts
          <6>4. QED
            BY <5>1, <6>2, <6>3 DEF S
        <5>4. \A d \in Entries(fresh[i + 1]) : New(d)
          BY <4>2, <5>2, <5>3
        <5>5. ASSUME NEW k \in 1..(i + 1) PROVE Kept(i + 1, links[k])
          <6>1. CASE k = i + 1
            BY <5>2, <5>3, <6>1
          <6>2. CASE k # i + 1
            <7>1. k \in 1..i
              BY <3>2, <6>2
            <7>2. QED
              BY <4>2, <5>3, <7>1
          <6>3. QED
            BY <6>1, <6>2
        <5>6. QED
          BY <5>3, <5>4, <5>5
      <4>5. QED
        BY <4>3, <4>4
    <3> HIDE DEF Goods
    <3>3. \A i \in Nat : i \in Goods
      BY <3>1, <3>2, CountingUp
    <3>4. QED
      BY <3>3 DEF Goods
  <2>10. Good(Len(links))
    BY <1>3, <2>9
  <2>11. LinkedFrom(here.url) = {links[k] : k \in 1..Len(links)}
    BY <1>3
  <2> HIDE DEF Seen, New
  <2>12. \A v \in LinkedFrom(here.url) : Kept(Len(links), v)
    BY <2>10, <2>11
  <2>13. NewLinks(w) = fresh[Len(links)] /\ here.depth < MaxDepth
    BY <1>1, <1>3, <1>5
  <2>14. QED
    BY <2>10, <2>12, <2>13 DEF S, here, Seen, New
<1>6. QED
  BY <1>4, <1>5

-----------------------------------------------------------------------------
(* Types                                                                   *)

LEMMA NotingKeepsTypes ==
    ASSUME SpiderTypeOK, NEW w \in SpiderCalls, PageIsHere(w)
    PROVE  /\ at' \in [SpiderCalls -> {"idle", "loop", "lookup", "fetch", "store", "done"}]
           /\ queue' \in [SpiderCalls -> Seq(PageItems)]
           /\ visited' \in [SpiderCalls -> SUBSET Urls] /\ results' \in [SpiderCalls -> Seq(Urls)]
<1>1. item[w] \in PageItems /\ item[w].url \in Urls
  <2>1. item[w] \in PageItems
    BY DEF SpiderTypeOK
  <2>2. QED
    BY <2>1 DEF PageItems
<1>2. NewLinks(w) \in Seq(PageItems)
  BY <1>1, NewLinksAreTheRest
<1>3. queue[w] \in Seq(PageItems) /\ results[w] \in Seq(Urls)
  BY DEF SpiderTypeOK
<1>4. queue[w] \o NewLinks(w) \in Seq(PageItems) /\ Append(results[w], item[w].url) \in Seq(Urls)
  BY <1>1, <1>2, <1>3
<1>5. CASE w \in Scrapes
  BY <1>5 DEF SpiderTypeOK, PageIsHere, crawlVars
<1>6. CASE w \notin Scrapes
  <2>1. /\ at' = [at EXCEPT ![w] = "loop"]
        /\ visited' = [visited EXCEPT ![w] = visited[w] \cup {item[w].url}]
        /\ results' = [results EXCEPT ![w] = Append(results[w], item[w].url)] \/ results' = results
        /\ queue' = [queue EXCEPT ![w] = queue[w] \o NewLinks(w)]
    BY <1>6 DEF PageIsHere, Noted, SpiderTypeOK
  <2>2. QED
    BY <1>1, <1>4, <2>1 DEF SpiderTypeOK
<1>7. QED
  BY <1>5, <1>6

LEMMA SpiderTypeIsKept ==
    SpiderTypeOK /\ [SpiderNext]_spiderVars => SpiderTypeOK'
<1> SUFFICES ASSUME SpiderTypeOK, [SpiderNext]_spiderVars PROVE SpiderTypeOK'
  OBVIOUS
<1>1. ASSUME NEW w \in SpiderCalls, ScrapeStarts(w) PROVE SpiderTypeOK'
  BY <1>1 DEF ScrapeStarts, SpiderGoto, SpiderTypeOK, crawlVars, cacheVars
<1>2. ASSUME NEW w \in SpiderCalls, CrawlStarts(w) PROVE SpiderTypeOK'
  <2>1. Page(StartUrl[w], 0) \in PageItems
    BY SpiderAssumption DEF Page, PageItems, SpiderCalls
  <2>2. <<Page(StartUrl[w], 0)>> \in Seq(PageItems)
    BY <2>1
  <2>3. QED
    BY <1>2, <2>2 DEF CrawlStarts, SpiderGoto, SpiderTypeOK, cacheVars
<1>3. ASSUME NEW w \in SpiderCalls, LoopEnds(w) PROVE SpiderTypeOK'
  BY <1>3 DEF LoopEnds, SpiderGoto, SpiderTypeOK, crawlVars, cacheVars
<1>4. ASSUME NEW w \in SpiderCalls, TakeItem(w) PROVE SpiderTypeOK'
  <2>1. queue[w] \in Seq(PageItems) /\ queue[w] # <<>>
    BY <1>4 DEF TakeItem, LoopGoesOn, SpiderTypeOK
  <2>2. Head(queue[w]) \in PageItems /\ Tail(queue[w]) \in Seq(PageItems)
    BY <2>1
  <2>3. /\ at' \in [SpiderCalls -> {"idle", "loop", "lookup", "fetch", "store", "done"}]
        /\ item' \in [SpiderCalls -> PageItems] /\ queue' \in [SpiderCalls -> Seq(PageItems)]
    BY <1>4, <2>2 DEF TakeItem, SpiderTypeOK
  <2>4. QED
    BY <1>4, <2>3 DEF TakeItem, SpiderTypeOK, cacheVars
<1>5. ASSUME NEW w \in SpiderCalls, CacheHits(w) PROVE SpiderTypeOK'
  BY <1>5, NotingKeepsTypes DEF CacheHits, SpiderTypeOK, cacheVars
<1>6. ASSUME NEW w \in SpiderCalls, CacheMisses(w) PROVE SpiderTypeOK'
  BY <1>6 DEF CacheMisses, SpiderGoto, SpiderTypeOK, crawlVars, cacheVars
<1>7. ASSUME NEW w \in SpiderCalls, FetchFails(w) PROVE SpiderTypeOK'
  <2>1. failed' = [failed EXCEPT ![w] = failed[w] \cup {item[w].url}] /\ item[w].url \in Urls
    BY <1>7 DEF FetchFails, SpiderTypeOK, PageItems
  <2>2. at' = [at EXCEPT ![w] = IF w \in Crawls THEN "loop" ELSE "done"]
    BY <1>7 DEF FetchFails, SpiderGoto
  <2>3. QED
    BY <1>7, <2>1, <2>2 DEF FetchFails, SpiderTypeOK, crawlVars, cacheVars
<1>8. ASSUME NEW w \in SpiderCalls, FetchSucceeds(w) PROVE SpiderTypeOK'
  BY <1>8 DEF FetchSucceeds, SpiderGoto, SpiderTypeOK, crawlVars, cacheVars
<1>9. ASSUME NEW w \in SpiderCalls, CacheStores(w) PROVE SpiderTypeOK'
  <2> DEFINE full == Cardinality(cache) >= CacheMaxSize /\ cacheOrder # <<>>
             kept == IF full THEN cache \ {Head(cacheOrder)} ELSE cache
             rest == IF full THEN Tail(cacheOrder) ELSE cacheOrder
  <2>1. item[w].url \in Urls /\ cacheOrder \in Seq(Urls) /\ cache \subseteq Urls
    BY DEF SpiderTypeOK, PageItems
  <2>2. cache' = kept \cup {item[w].url} /\ cacheOrder' = rest \o <<item[w].url>>
    BY <1>9 DEF CacheStores
  <2>3. rest \in Seq(Urls) /\ kept \subseteq Urls
    BY <2>1
  <2> HIDE DEF rest, kept
  <2>4. cache' \subseteq Urls /\ cacheOrder' \in Seq(Urls)
    BY <2>1, <2>2, <2>3
  <2>5. UNCHANGED <<item, failed>> /\ PageIsHere(w)
    BY <1>9 DEF CacheStores
  <2>6. QED
    BY <2>4, <2>5, NotingKeepsTypes DEF SpiderTypeOK
<1>10. CASE UNCHANGED spiderVars
  BY <1>10 DEF spiderVars, SpiderTypeOK
<1>11. QED
  BY <1>1, <1>2, <1>3, <1>4, <1>5, <1>6, <1>7, <1>8, <1>9, <1>10 DEF SpiderNext, SpiderStep

LEMMA SpiderTypesAtFirst == SpiderInit => SpiderTypeOK
BY SpiderAssumption DEF SpiderInit, SpiderTypeOK, Page, PageItems, SpiderCalls

-----------------------------------------------------------------------------
(* What the invariant of a crawl says together                             *)

LEMMA NearGrows ==
    ASSUME NEW u \in Urls, NEW n \in Nat, NEW m \in Nat, n <= m
    PROVE  Near[n][u] \subseteq Near[m][u]
<1> DEFINE Far == {k \in Nat : Near[n][u] \subseteq Near[n + k][u]}
<1>1. 0 \in Far
  OBVIOUS
<1>2. ASSUME NEW k \in Nat, k \in Far PROVE k + 1 \in Far
  <2>1. n + k \in Nat /\ n + (k + 1) = (n + k) + 1
    OBVIOUS
  <2>2. Near[n + k][u] \subseteq Near[(n + k) + 1][u]
    BY <2>1, NearIsStepwise
  <2>3. QED
    BY <1>2, <2>1, <2>2
<1> HIDE DEF Far
<1>3. \A k \in Nat : k \in Far
  BY <1>1, <1>2, CountingUp
<1>4. m - n \in Nat /\ n + (m - n) = m
  OBVIOUS
<1>5. QED
  BY <1>3, <1>4 DEF Far

LEMMA PendingIsTyped ==
    ASSUME SpiderTypeOK, NEW w \in Crawls
    PROVE  /\ w \in SpiderCalls /\ w \notin Scrapes /\ StartUrl[w] \in Urls
           /\ queue[w] \in Seq(PageItems) /\ item[w] \in PageItems
           /\ results[w] \in Seq(Urls) /\ visited[w] \subseteq Urls
           /\ Pending(w) \subseteq PageItems
<1>1. w \in SpiderCalls /\ w \notin Scrapes /\ StartUrl[w] \in Urls
  BY SpiderAssumption DEF SpiderCalls
<1>2. /\ queue[w] \in Seq(PageItems) /\ item[w] \in PageItems
      /\ results[w] \in Seq(Urls) /\ visited[w] \subseteq Urls
  BY <1>1 DEF SpiderTypeOK
<1>3. Entries(queue[w]) \subseteq PageItems
  BY <1>2, EntriesOfParts
<1>4. QED
  BY <1>1, <1>2, <1>3 DEF Pending

\* When nothing within n links waits to be looked at, all of it was visited: this is
\* where going breadth first matters.
LEMMA NothingNearIsLeft ==
    ASSUME SpiderTypeOK, NEW w \in Crawls, NothingForgotten(w), failed[w] = {}, at[w] # "idle",
           NEW n \in Nat, n <= MaxDepth, \A e \in Pending(w) : ~(e.depth <= n)
    PROVE  Around(w, n) \subseteq visited[w]
<1> DEFINE Done == {m \in Nat : m <= n => Around(w, m) \subseteq visited[w]}
<1>1. StartUrl[w] \in Urls /\ \A e \in Pending(w) : e.depth \in Nat
  BY PendingIsTyped DEF PageItems
<1>2. ASSUME NEW u, NEW m \in Nat, m <= n, Covered(w, u, m) PROVE u \in visited[w]
  BY <1>1, <1>2 DEF Covered
<1>3. 0 \in Done
  <2>1. Covered(w, StartUrl[w], 0) /\ Around(w, 0) = {StartUrl[w]}
    BY <1>1, NearIsStepwise DEF NothingForgotten, Around
  <2>2. QED
    BY <1>2, <2>1
<1>4. ASSUME NEW m \in Nat, m \in Done PROVE m + 1 \in Done
  <2>1. SUFFICES ASSUME m + 1 <= n PROVE Around(w, m + 1) \subseteq visited[w]
    OBVIOUS
  <2>2. m < MaxDepth /\ Around(w, m) \subseteq visited[w]
    BY <1>4, <2>1, SpiderAssumption
  <2>3. Around(w, m + 1) = Around(w, m) \cup UNION {LinkedFrom(u) : u \in Around(w, m)}
    BY <1>1, NearIsStepwise DEF Around
  <2>4. ASSUME NEW u \in Around(w, m), NEW v \in LinkedFrom(u) PROVE v \in visited[w]
    <3>1. Covered(w, v, m + 1)
      BY <2>2, <2>4 DEF NothingForgotten
    <3>2. QED
      BY <1>2, <2>1, <3>1
  <2>5. QED
    BY <2>2, <2>3, <2>4
<1> HIDE DEF Done
<1>5. \A m \in Nat : m \in Done
  BY <1>3, <1>4, CountingUp
<1>6. QED
  BY <1>5 DEF Done

\* What a crawl reports follows from its invariant.
LEMMA InvIsExact ==
    ASSUME SpiderTypeOK, \A w \in Crawls : CrawlInv(w)
    PROVE  CrawlIsExact
<1> SUFFICES ASSUME NEW w \in Crawls
             PROVE  /\ Reported(w) = visited[w] \cap WithText
                    /\ \A i, j \in DOMAIN results[w] : results[w][i] = results[w][j] => i = j
                    /\ Cardinality(visited[w]) <= MaxPages
                    /\ visited[w] \subseteq Near[MaxDepth][StartUrl[w]]
                    /\ at[w] = "done" /\ failed[w] = {} /\ Cardinality(visited[w]) < MaxPages
                         => visited[w] = Near[MaxDepth][StartUrl[w]]
  BY DEF CrawlIsExact
<1>1. CountsOK(w) /\ WithinReach(w) /\ NothingForgotten(w)
  BY DEF CrawlInv
<1>2. ASSUME at[w] = "done", failed[w] = {}, Cardinality(visited[w]) < MaxPages
      PROVE  Near[MaxDepth][StartUrl[w]] \subseteq visited[w]
  <2>1. queue[w] = <<>>
    BY <1>2 DEF CrawlInv, LoopGoesOn
  <2>2. Pending(w) = {}
    BY <1>2, <2>1 DEF Pending, AtPage, Entries
  <2>3. Around(w, MaxDepth) \subseteq visited[w]
    <3>1. MaxDepth \in Nat /\ MaxDepth <= MaxDepth /\ at[w] # "idle"
      BY <1>2, SpiderAssumption
    <3>2. \A e \in Pending(w) : ~(e.depth <= MaxDepth)
      BY <2>2
    <3>3. QED
      BY <1>1, <1>2, <3>1, <3>2, NothingNearIsLeft
  <2>4. QED
    BY <2>3 DEF Around
<1>3. QED
  BY <1>1, <1>2 DEF CountsOK, WithinReach, Around

-----------------------------------------------------------------------------
(* The steps of a crawl                                                    *)

LEMMA RestingKeeps ==
    ASSUME NEW w, CrawlInv(w),
           UNCHANGED <<at[w], item[w], queue[w], visited[w], results[w], failed[w]>>
    PROVE  CrawlInv(w)'
<1>1. /\ AtPage(w)' = AtPage(w) /\ LoopGoesOn(w)' = LoopGoesOn(w) /\ Pending(w)' = Pending(w)
  BY DEF AtPage, LoopGoesOn, Pending, Entries
<1>2. \A u, n : Covered(w, u, n)' = Covered(w, u, n)
  BY <1>1 DEF Covered
<1>3. CountsOK(w)' /\ WithinReach(w)' /\ ByDepth(w)'
  BY <1>1 DEF CrawlInv, CountsOK, Reported, WithinReach, ByDepth, Around
<1>4. NothingForgotten(w)'
  BY <1>2 DEF CrawlInv, NothingForgotten, Around
<1>5. QED
  BY <1>1, <1>3, <1>4 DEF CrawlInv

LEMMA StartingKeeps ==
    ASSUME SpiderTypeOK, NEW w \in Crawls, CrawlInv(w), CrawlStarts(w)
    PROVE  CrawlInv(w)'
<1> DEFINE first == Page(StartUrl[w], 0)
<1>1. w \in SpiderCalls /\ StartUrl[w] \in Urls
  BY PendingIsTyped
<1>2. /\ at[w] = "idle" /\ at'[w] = "loop" /\ queue'[w] = <<first>> /\ visited[w] = {}
      /\ UNCHANGED <<visited, results, failed>>
  BY <1>1 DEF CrawlStarts, SpiderGoto, SpiderTypeOK, CrawlInv
<1>3. ~AtPage(w)' /\ Pending(w)' = {first} /\ first.url = StartUrl[w] /\ first.depth = 0
  BY <1>2 DEF AtPage, Pending, Entries, Page
<1>4. CountsOK(w)'
  BY <1>2, <1>3 DEF CrawlInv, CountsOK, Reported
<1>5. WithinReach(w)'
  BY <1>1, <1>2, <1>3, NearIsStepwise DEF WithinReach, Around
<1>6. ByDepth(w)'
  BY <1>2, <1>3 DEF ByDepth
<1>7. NothingForgotten(w)'
  <2>1. Covered(w, StartUrl[w], 0)'
    BY <1>3 DEF Covered
  <2>2. QED
    BY <1>2, <2>1 DEF NothingForgotten
<1>8. QED
  BY <1>2, <1>4, <1>5, <1>6, <1>7 DEF CrawlInv

LEMMA EndingKeeps ==
    ASSUME SpiderTypeOK, NEW w \in Crawls, CrawlInv(w), LoopEnds(w)
    PROVE  CrawlInv(w)'
<1>1. /\ at[w] = "loop" /\ at'[w] = "done" /\ ~LoopGoesOn(w)
      /\ UNCHANGED <<item, queue, visited, results, failed>>
  BY PendingIsTyped DEF LoopEnds, SpiderGoto, SpiderTypeOK, crawlVars
<1>2. ~AtPage(w) /\ ~AtPage(w)' /\ Pending(w)' = Pending(w) /\ ~LoopGoesOn(w)'
  BY <1>1 DEF AtPage, Pending, Entries, LoopGoesOn
<1>3. \A u, n : Covered(w, u, n)' = Covered(w, u, n)
  BY <1>1, <1>2 DEF Covered
<1>4. CountsOK(w)' /\ WithinReach(w)' /\ ByDepth(w)'
  BY <1>1, <1>2 DEF CrawlInv, CountsOK, Reported, WithinReach, ByDepth, Around
<1>5. NothingForgotten(w)'
  BY <1>1, <1>3 DEF CrawlInv, NothingForgotten, Around
<1>6. QED
  BY <1>1, <1>2, <1>4, <1>5 DEF CrawlInv

\* A page missed in the cache, and one that arrived: the crawl stays at it.
LEMMA FetchingKeeps ==
    ASSUME SpiderTypeOK, NEW w \in Crawls, CrawlInv(w), CacheMisses(w) \/ FetchSucceeds(w)
    PROVE  CrawlInv(w)'
<1>1. /\ at[w] \in {"lookup", "fetch"} /\ at'[w] \in {"fetch", "store"}
      /\ UNCHANGED <<item, queue, visited, results, failed>>
  BY PendingIsTyped DEF CacheMisses, FetchSucceeds, SpiderGoto, SpiderTypeOK, crawlVars
<1>2. AtPage(w) /\ AtPage(w)' /\ Pending(w)' = Pending(w)
  BY <1>1 DEF AtPage, Pending, Entries
<1>3. \A u, n : Covered(w, u, n)' = Covered(w, u, n)
  BY <1>1, <1>2 DEF Covered
<1>4. CountsOK(w)' /\ WithinReach(w)' /\ ByDepth(w)'
  BY <1>1, <1>2 DEF CrawlInv, CountsOK, Reported, WithinReach, ByDepth, Around
<1>5. NothingForgotten(w)'
  BY <1>1, <1>3 DEF CrawlInv, NothingForgotten, Around
<1>6. QED
  BY <1>1, <1>4, <1>5 DEF CrawlInv

LEMMA FailingKeeps ==
    ASSUME SpiderTypeOK, NEW w \in Crawls, CrawlInv(w), FetchFails(w)
    PROVE  CrawlInv(w)'
<1>1. /\ at[w] = "fetch" /\ at'[w] = "loop" /\ failed'[w] # {}
      /\ UNCHANGED <<item, queue, visited, results>>
  BY PendingIsTyped DEF FetchFails, SpiderGoto, SpiderTypeOK, crawlVars
<1>2. ~AtPage(w)' /\ Pending(w)' \subseteq Pending(w)
  BY <1>1 DEF AtPage, Pending, Entries
<1>3. CountsOK(w)' /\ WithinReach(w)' /\ ByDepth(w)'
  BY <1>1, <1>2 DEF CrawlInv, CountsOK, Reported, WithinReach, ByDepth, Around
<1>4. NothingForgotten(w)'
  BY <1>1 DEF NothingForgotten
<1>5. QED
  BY <1>1, <1>3, <1>4 DEF CrawlInv

\* Taking the next page, or passing over one that was visited since it was queued.
LEMMA TakingKeeps ==
    ASSUME SpiderTypeOK, NEW w \in Crawls, CrawlInv(w), TakeItem(w)
    PROVE  CrawlInv(w)'
<1> DEFINE q == queue[w]
           next == Head(q)
<1>1. /\ w \in SpiderCalls /\ q \in Seq(PageItems) /\ q # <<>> /\ at[w] = "loop"
      /\ Cardinality(visited[w]) < MaxPages
  BY PendingIsTyped DEF TakeItem, LoopGoesOn
<1>2. /\ queue'[w] = Tail(q) /\ UNCHANGED <<visited, results, failed>>
  BY <1>1 DEF TakeItem, SpiderTypeOK
<1>3. next \in PageItems /\ next.depth \in Nat /\ next.depth <= MaxDepth
  <2>1. next \in PageItems
    BY <1>1
  <2> HIDE DEF next
  <2>2. QED
    BY <2>1, SpiderAssumption DEF PageItems
<1>4. /\ Pending(w) = {next} \cup Entries(Tail(q))
      /\ \/ at'[w] = "lookup" /\ item'[w] = next /\ next.url \notin visited[w]
         \/ at'[w] = "loop" /\ next.url \in visited[w]
  <2>1. Pending(w) = {next} \cup Entries(Tail(q))
    BY <1>1, EntriesOfParts DEF Pending, AtPage
  <2>2. CASE next.url \in visited[w] \/ next.depth > MaxDepth
    <3>1. next.url \in visited[w]
      <4> HIDE DEF next
      <4>1. QED
        BY <1>3, <2>2, SpiderAssumption
    <3>2. UNCHANGED at
      BY <2>2 DEF TakeItem
    <3>3. QED
      BY <1>1, <2>1, <3>1, <3>2
  <2>3. CASE ~(next.url \in visited[w] \/ next.depth > MaxDepth)
    BY <1>1, <2>1, <2>3 DEF TakeItem, SpiderTypeOK
  <2>4. QED
    BY <2>2, <2>3
<1>5. /\ Pending(w)' \subseteq Pending(w)
      /\ \A e \in Pending(w) : e \in Pending(w)' \/ e.url \in visited'[w]
      /\ AtPage(w)' => item'[w] = next /\ next.url \notin visited[w]
  <2>1. Entries(queue[w])' = Entries(Tail(q))
    BY <1>2 DEF Entries
  <2>2. QED
    BY <1>2, <1>4, <2>1 DEF Pending, AtPage
<1> HIDE DEF next
<1>6. CountsOK(w)'
  <2>1. CountsOK(w) /\ Cardinality(visited[w]) < MaxPages
    BY <1>1 DEF CrawlInv
  <2>2. AtPage(w)' => item'[w].url \notin visited[w]
    BY <1>5
  <2>3. visited'[w] = visited[w] /\ results'[w] = results[w]
    BY <1>2
  <2>4. QED
    BY <2>1, <2>2, <2>3 DEF CountsOK, Reported
<1>7. WithinReach(w)'
  BY <1>2, <1>5 DEF CrawlInv, WithinReach, Around
<1>8. ByDepth(w)'
  <2>1. /\ DOMAIN q = 1..Len(q) /\ Len(q) \in Nat /\ q[1] = next /\ 1 \in DOMAIN q
        /\ DOMAIN Tail(q) = 1..(Len(q) - 1) /\ \A i \in 1..(Len(q) - 1) : Tail(q)[i] = q[i + 1]
    BY <1>1 DEF next
  <2>2. \A i, j \in DOMAIN q : i <= j => q[i].depth <= q[j].depth
    BY DEF CrawlInv, ByDepth
  <2>3. \A i, j \in DOMAIN queue'[w] : i <= j => queue'[w][i].depth <= queue'[w][j].depth
    <3> SUFFICES ASSUME NEW i \in DOMAIN queue'[w], NEW j \in DOMAIN queue'[w], i <= j
                 PROVE  queue'[w][i].depth <= queue'[w][j].depth
      OBVIOUS
    <3>1. /\ i + 1 \in DOMAIN q /\ j + 1 \in DOMAIN q /\ i + 1 <= j + 1
          /\ queue'[w][i] = q[i + 1] /\ queue'[w][j] = q[j + 1]
      BY <1>2, <2>1
    <3>2. QED
      BY <2>2, <3>1
  <2>4. \A e \in Entries(q) : next.depth <= e.depth
    BY <2>1, <2>2 DEF Entries
  <2>5. Pending(w) = Entries(q)
    BY <1>1 DEF Pending, AtPage
  <2>6. QED
    BY <1>5, <2>3, <2>4, <2>5 DEF CrawlInv, ByDepth
<1>9. NothingForgotten(w)'
  <2>1. \A u, n : Covered(w, u, n) => Covered(w, u, n)'
    BY <1>2, <1>5 DEF Covered
  <2>2. QED
    BY <1>1, <1>2, <2>1 DEF CrawlInv, NothingForgotten, Around
<1>10. QED
  BY <1>4, <1>6, <1>7, <1>8, <1>9 DEF CrawlInv

\* Noting a page: its links wait one level further out. It is new, so that no page
\* nearer than it waits (ByDepth) and whatever is nearer was visited: its links are
\* due by the next level and not before.
LEMMA NotingKeeps ==
    ASSUME SpiderTypeOK, NEW w \in Crawls, CrawlInv(w), at[w] \in {"lookup", "store"},
           PageIsHere(w), UNCHANGED <<item, failed>>
    PROVE  CrawlInv(w)'
<1> DEFINE u == item[w].url
           d == item[w].depth
           q == queue[w]
           new == NewLinks(w)
<1>1. /\ w \in SpiderCalls /\ w \notin Scrapes /\ StartUrl[w] \in Urls
      /\ q \in Seq(PageItems) /\ item[w] \in PageItems
      /\ results[w] \in Seq(Urls) /\ visited[w] \subseteq Urls
      /\ Pending(w) \subseteq PageItems
  BY PendingIsTyped
<1>2. /\ at'[w] = "loop" /\ visited'[w] = visited[w] \cup {u}
      /\ results'[w] = IF u \in WithText THEN Append(results[w], u) ELSE results[w]
      /\ queue'[w] = q \o new
      /\ item'[w] = item[w] /\ failed'[w] = failed[w]
  BY <1>1 DEF PageIsHere, Noted, SpiderTypeOK
<1>3. u \in Urls /\ d \in Nat /\ d <= MaxDepth /\ MaxDepth \in Nat
  BY <1>1, SpiderAssumption DEF PageItems
<1>4. /\ new \in Seq(PageItems)
      /\ \A e \in Entries(new) : d < MaxDepth /\ e.depth = d + 1 /\ e.url \in LinkedFrom(u)
      /\ d < MaxDepth => \A v \in LinkedFrom(u) :
                           \/ v \in visited'[w]
                           \/ \E e \in Entries(new) : e.url = v /\ e.depth = d + 1
  BY <1>1, <1>2, NewLinksAreTheRest
<1> HIDE DEF new
<1>5. /\ AtPage(w) /\ ~AtPage(w)' /\ Pending(w) = Entries(q) \cup {item[w]}
      /\ Pending(w)' = Entries(q) \cup Entries(new)
  <2>1. AtPage(w) /\ ~AtPage(w)'
    BY <1>2 DEF AtPage
  <2>2. Entries(q \o new) = Entries(q) \cup Entries(new)
    BY <1>1, <1>4, EntriesOfParts
  <2>3. Pending(w)' = Entries(q \o new)
    BY <1>2, <2>1 DEF Pending, Entries
  <2>4. QED
    BY <2>1, <2>2, <2>3 DEF Pending
<1>6. /\ CountsOK(w) /\ WithinReach(w) /\ ByDepth(w) /\ NothingForgotten(w)
      /\ u \notin visited[w] /\ Cardinality(visited[w]) < MaxPages
  BY <1>5 DEF CrawlInv, CountsOK
<1>7. \A e \in Entries(q) : e.depth \in Nat /\ d <= e.depth /\ e.depth <= d + 1
  <2>1. \A e \in Entries(q) : e.depth \in Nat
    BY <1>1, <1>5 DEF PageItems
  <2>2. QED
    BY <1>5, <1>6, <2>1 DEF ByDepth
<1>8. CountsOK(w)'
  <2>1. IsFiniteSet(visited'[w]) /\ Cardinality(visited'[w]) = Cardinality(visited[w]) + 1
    <3> HIDE DEF u
    <3>1. IsFiniteSet(visited[w]) /\ u \notin visited[w]
      BY <1>6 DEF CountsOK
    <3>2. QED
      BY <1>2, <3>1, FS_AddElement
  <2>2. Cardinality(visited'[w]) <= MaxPages
    <3>1. Cardinality(visited[w]) \in Nat /\ MaxPages \in Nat
      BY <1>6, FS_CardinalityType, SpiderAssumption DEF CountsOK
    <3>2. QED
      BY <1>6, <2>1, <3>1
  <2>3. /\ Reported(w) = visited[w] \cap WithText
        /\ \A i, j \in DOMAIN results[w] : results[w][i] = results[w][j] => i = j
    BY <1>6 DEF CountsOK
  <2>4. /\ Reported(w)' = visited'[w] \cap WithText
        /\ \A i, j \in DOMAIN results'[w] : results'[w][i] = results'[w][j] => i = j
    <3>1. CASE u \notin WithText
      BY <1>2, <2>3, <3>1 DEF Reported
    <3>2. CASE u \in WithText
      <4>1. /\ DOMAIN results[w] = 1..Len(results[w]) /\ Len(results[w]) \in Nat
            /\ DOMAIN results'[w] = 1..(Len(results[w]) + 1)
            /\ results'[w][Len(results[w]) + 1] = u
            /\ \A i \in 1..Len(results[w]) : results'[w][i] = results[w][i]
        BY <1>1, <1>2, <1>3, <3>2
      <4>2. \A i \in 1..Len(results[w]) : results[w][i] # u
        BY <1>6, <2>3, <4>1 DEF Reported
      <4>3. Reported(w)' = Reported(w) \cup {u}
        <5>1. DOMAIN results'[w] = DOMAIN results[w] \cup {Len(results[w]) + 1}
          BY <4>1
        <5>2. \A i \in DOMAIN results[w] : results'[w][i] = results[w][i]
          BY <4>1
        <5> HIDE DEF u
        <5>3. QED
          BY <4>1, <5>1, <5>2 DEF Reported
      <4>4. \A i, j \in DOMAIN results'[w] : results'[w][i] = results'[w][j] => i = j
        <5> HIDE DEF u
        <5>1. \A i \in DOMAIN results'[w] : i \in 1..Len(results[w]) \/ i = Len(results[w]) + 1
          BY <4>1
        <5>2. \A i \in 1..Len(results[w]) : results'[w][i] = results[w][i] /\ results'[w][i] # u
          BY <4>1, <4>2
        <5>3. QED
          BY <2>3, <4>1, <5>1, <5>2
      <4>5. QED
        BY <1>2, <2>3, <3>2, <4>3, <4>4
    <3>3. QED
      BY <3>1, <3>2
  <2>5. QED
    BY <1>5, <2>1, <2>2, <2>4 DEF CountsOK
<1>9. u \in Around(w, d) /\ Around(w, d) \subseteq Around(w, MaxDepth)
  BY <1>1, <1>3, <1>5, <1>6, NearGrows DEF WithinReach, Around
<1>10. WithinReach(w)'
  <2>1. Around(w, d + 1) = Around(w, d) \cup UNION {LinkedFrom(v) : v \in Around(w, d)}
    BY <1>1, <1>3, NearIsStepwise DEF Around
  <2>2. \A e \in Entries(new) : e.url \in Around(w, e.depth)
    BY <1>4, <1>9, <2>1
  <2>3. \A e \in Entries(q) : e.url \in Around(w, e.depth)
    BY <1>5, <1>6 DEF WithinReach
  <2>4. \A e \in Pending(w)' : e.url \in Around(w, e.depth)
    BY <1>5, <2>2, <2>3
  <2>5. visited'[w] \subseteq Around(w, MaxDepth)
    BY <1>2, <1>6, <1>9 DEF WithinReach
  <2>6. QED
    BY <2>4, <2>5 DEF WithinReach, Around
<1>11. ByDepth(w)'
  <2> DEFINE both == q \o new
  <2>1. /\ DOMAIN q = 1..Len(q) /\ DOMAIN new = 1..Len(new) /\ Len(q) \in Nat /\ Len(new) \in Nat
        /\ DOMAIN both = 1..(Len(q) + Len(new))
        /\ \A i \in 1..(Len(q) + Len(new)) : both[i] = IF i <= Len(q) THEN q[i] ELSE new[i - Len(q)]
    BY <1>1, <1>4
  <2>2. \A i \in DOMAIN new : new[i].depth = d + 1
    BY <1>4 DEF Entries
  <2>3. \A i \in DOMAIN q : q[i].depth \in Nat /\ q[i].depth <= d + 1
    BY <1>7 DEF Entries
  <2>4. \A i, j \in DOMAIN q : i <= j => q[i].depth <= q[j].depth
    BY <1>6 DEF ByDepth
  <2> HIDE DEF q, d, both
  <2>5. \A i, j \in DOMAIN both : i <= j => both[i].depth <= both[j].depth
    <3> SUFFICES ASSUME NEW i \in DOMAIN both, NEW j \in DOMAIN both, i <= j
                 PROVE  both[i].depth <= both[j].depth
      OBVIOUS
    <3>1. CASE j <= Len(q)
      <4>1. i \in DOMAIN q /\ j \in DOMAIN q /\ both[i] = q[i] /\ both[j] = q[j]
        BY <2>1, <3>1
      <4>2. QED
        BY <2>4, <4>1
    <3>2. CASE ~(j <= Len(q))
      <4>1. both[j].depth = d + 1
        <5>1. j - Len(q) \in DOMAIN new /\ both[j] = new[j - Len(q)]
          BY <2>1, <3>2
        <5>2. QED
          BY <2>2, <5>1
      <4>2. CASE i <= Len(q)
        <5>1. i \in DOMAIN q /\ both[i] = q[i]
          BY <2>1, <4>2
        <5>2. QED
          BY <2>3, <4>1, <5>1
      <4>3. CASE ~(i <= Len(q))
        <5>1. i - Len(q) \in DOMAIN new /\ both[i] = new[i - Len(q)]
          BY <2>1, <4>3
        <5>2. both[i].depth = d + 1
          BY <2>2, <5>1
        <5>3. QED
          BY <1>3, <4>1, <5>2 DEF d
      <4>4. QED
        BY <4>2, <4>3
    <3>3. QED
      BY <3>1, <3>2
  <2>6. \A e \in Pending(w)' : e.depth \in Nat /\ d <= e.depth /\ e.depth <= d + 1
    BY <1>3, <1>4, <1>5, <1>7 DEF q, d
  <2>7. \A e, f \in Pending(w)' : e.depth <= f.depth + 1
    <3> SUFFICES ASSUME NEW e \in Pending(w)', NEW f \in Pending(w)' PROVE e.depth <= f.depth + 1
      OBVIOUS
    <3>1. /\ e.depth \in Nat /\ e.depth <= d + 1 /\ f.depth \in Nat /\ d <= f.depth /\ d \in Nat
      BY <1>3, <2>6 DEF d
    <3>2. QED
      BY <3>1
  <2>8. QED
    BY <1>2, <1>5, <2>5, <2>7 DEF ByDepth, both, q
<1>12. NothingForgotten(w)'
  <2> SUFFICES ASSUME failed[w] = {}
               PROVE  /\ Covered(w, StartUrl[w], 0)'
                      /\ \A n \in Nat : n < MaxDepth =>
                           \A x \in visited'[w] \cap Around(w, n) : \A v \in LinkedFrom(x) :
                             Covered(w, v, n + 1)'
    BY <1>2 DEF NothingForgotten, Around
  <2>1. at[w] # "idle"
    BY <1>6
  <2>2. ASSUME NEW v, NEW n, Covered(w, v, n) PROVE Covered(w, v, n)'
    <3>1. CASE v \in visited[w]
      BY <1>2, <3>1 DEF Covered
    <3>2. CASE \E e \in Pending(w) : e.url = v /\ e.depth <= n
      BY <1>2, <1>5, <3>2 DEF Covered
    <3>3. QED
      BY <2>2, <3>1, <3>2 DEF Covered
  <2>3. Covered(w, StartUrl[w], 0)'
    BY <1>6, <2>1, <2>2 DEF NothingForgotten
  <2>4. ASSUME NEW n \in Nat, n < MaxDepth, NEW x \in visited'[w] \cap Around(w, n), NEW v \in LinkedFrom(x)
        PROVE  Covered(w, v, n + 1)'
    <3>1. CASE x \in visited[w]
      BY <1>6, <2>1, <2>2, <2>4, <3>1 DEF NothingForgotten
    <3>2. CASE x = u
      <4>1. d <= n
        <5>1. SUFFICES ASSUME ~(d <= n) PROVE FALSE
          OBVIOUS
        <5>2. \A e \in Pending(w) : ~(e.depth <= n)
          BY <1>3, <1>5, <1>7, <2>4, <5>1
        <5>3. n <= MaxDepth
          BY <1>3, <2>4
        <5>4. Around(w, n) \subseteq visited[w]
          BY <1>6, <2>1, <5>2, <5>3, NothingNearIsLeft
        <5>5. QED
          BY <1>6, <2>4, <3>2, <5>4
      <4>2. d < MaxDepth
        BY <1>3, <2>4, <4>1
      <4>3. CASE v \in visited'[w]
        BY <4>3 DEF Covered
      <4>4. CASE v \notin visited'[w]
        <5>1. PICK e \in Entries(new) : e.url = v /\ e.depth = d + 1
          BY <1>4, <2>4, <3>2, <4>2, <4>4
        <5>2. e.depth <= n + 1
          BY <1>3, <4>1, <5>1
        <5>3. QED
          BY <1>5, <5>1, <5>2 DEF Covered
      <4>5. QED
        BY <4>3, <4>4
    <3>3. QED
      BY <1>2, <3>1, <3>2
  <2>5. QED
    BY <2>3, <2>4
<1>13. QED
  BY <1>2, <1>8, <1>10, <1>11, <1>12 DEF CrawlInv

\* Calls run side by side: a step of one leaves all that another goes by alone.
LEMMA OthersRest ==
    ASSUME SpiderTypeOK, NEW w \in SpiderCalls, NEW v \in SpiderCalls, v # w,
           ScrapeStarts(w) \/ CrawlStarts(w) \/ SpiderStep(w)
    PROVE  UNCHANGED <<at[v], item[v], queue[v], visited[v], results[v], failed[v]>>
<1> USE DEF SpiderTypeOK, SpiderGoto, crawlVars, cacheVars
<1>1. CASE ScrapeStarts(w)
  BY <1>1 DEF ScrapeStarts
<1>2. CASE CrawlStarts(w)
  BY <1>2 DEF CrawlStarts
<1>3. CASE LoopEnds(w)
  BY <1>3 DEF LoopEnds
<1>4. CASE TakeItem(w)
  BY <1>4 DEF TakeItem
<1>5. ASSUME PageIsHere(w)
      PROVE  UNCHANGED <<at[v], queue[v], visited[v], results[v]>>
  <2>1. CASE w \in Scrapes
    BY <1>5, <2>1 DEF PageIsHere
  <2>2. CASE w \notin Scrapes
    BY <1>5, <2>2 DEF PageIsHere, Noted
  <2>3. QED
    BY <2>1, <2>2
<1>6. CASE CacheHits(w)
  BY <1>5, <1>6 DEF CacheHits
<1>7. CASE CacheMisses(w)
  BY <1>7 DEF CacheMisses
<1>8. CASE FetchFails(w)
  BY <1>8 DEF FetchFails
<1>9. CASE FetchSucceeds(w)
  BY <1>9 DEF FetchSucceeds
<1>10. CASE CacheStores(w)
  BY <1>5, <1>10 DEF CacheStores
<1>11. QED
  BY <1>1, <1>2, <1>3, <1>4, <1>6, <1>7, <1>8, <1>9, <1>10 DEF SpiderStep

-----------------------------------------------------------------------------
SpiderInv == SpiderTypeOK /\ \A w \in Crawls : CrawlInv(w)

LEMMA SpiderInvAtFirst == SpiderInit => SpiderInv
<1> SUFFICES ASSUME SpiderInit PROVE SpiderInv
  OBVIOUS
<1>1. SpiderTypeOK
  BY SpiderTypesAtFirst
<1>2. ASSUME NEW w \in Crawls PROVE CrawlInv(w)
  <2>1. /\ at[w] = "idle" /\ queue[w] = <<>> /\ visited[w] = {} /\ results[w] = <<>>
    BY <1>1, PendingIsTyped DEF SpiderInit
  <2>2. ~AtPage(w) /\ Pending(w) = {}
    BY <2>1 DEF AtPage, Pending, Entries
  <2>3. CountsOK(w)
    BY <2>1, <2>2, FS_EmptySet, SpiderAssumption DEF CountsOK, Reported
  <2>4. WithinReach(w) /\ ByDepth(w) /\ NothingForgotten(w)
    BY <2>1, <2>2 DEF WithinReach, ByDepth, NothingForgotten
  <2>5. QED
    BY <2>1, <2>3, <2>4 DEF CrawlInv
<1>3. QED
  BY <1>1, <1>2 DEF SpiderInv

LEMMA SpiderInvIsKept == SpiderInv /\ [SpiderNext]_spiderVars => SpiderInv'
<1> SUFFICES ASSUME SpiderInv, [SpiderNext]_spiderVars PROVE SpiderInv'
  OBVIOUS
<1>1. SpiderTypeOK /\ SpiderTypeOK'
  BY SpiderTypeIsKept DEF SpiderInv
<1>2. ASSUME NEW v \in Crawls PROVE CrawlInv(v)'
  <2>1. CrawlInv(v) /\ v \in SpiderCalls
    BY <1>2 DEF SpiderInv, SpiderCalls
  <2>2. ASSUME NEW w \in SpiderCalls, ScrapeStarts(w) \/ CrawlStarts(w) \/ SpiderStep(w)
        PROVE  CrawlInv(v)'
    <3>1. CASE w # v
      BY <1>1, <2>1, <2>2, <3>1, OthersRest, RestingKeeps
    <3>2. CASE w = v
      <4>1. ~ScrapeStarts(v)
        BY <1>1, PendingIsTyped DEF ScrapeStarts
      <4>2. CASE CrawlStarts(v)
        BY <1>1, <2>1, <4>2, StartingKeeps
      <4>3. CASE LoopEnds(v)
        BY <1>1, <2>1, <4>3, EndingKeeps
      <4>4. CASE TakeItem(v)
        BY <1>1, <2>1, <4>4, TakingKeeps
      <4>5. CASE CacheMisses(v) \/ FetchSucceeds(v)
        BY <1>1, <2>1, <4>5, FetchingKeeps
      <4>6. CASE FetchFails(v)
        BY <1>1, <2>1, <4>6, FailingKeeps
      <4>7. CASE CacheHits(v) \/ CacheStores(v)
        <5>1. at[v] \in {"lookup", "store"} /\ PageIsHere(v) /\ UNCHANGED <<item, failed>>
          BY <4>7 DEF CacheHits, CacheStores
        <5>2. QED
          BY <1>1, <2>1, <5>1, NotingKeeps
      <4>8. QED
        BY <2>2, <3>2, <4>1, <4>2, <4>3, <4>4, <4>5, <4>6, <4>7 DEF SpiderStep
    <3>3. QED
      BY <3>1, <3>2
  <2>3. CASE UNCHANGED spiderVars
    BY <2>1, <2>3, RestingKeeps DEF spiderVars
  <2>4. QED
    BY <2>2, <2>3 DEF SpiderNext
<1>3. QED
  BY <1>1, <1>2 DEF SpiderInv

\* The queues, pages and results of all calls and the cache hold what they are
\* declared to hold; no page is ever queued beyond the maximal depth.
THEOREM SpiderTypesHold == SpiderSpec => []SpiderTypeOK
<1>1. SpiderInv => SpiderTypeOK
  BY DEF SpiderInv
<1>2. QED
  BY <1>1, SpiderInvAtFirst, SpiderInvIsKept, PTL DEF SpiderSpec

\* A crawl reports each visited page that has text once and no other; it visits none
\* further than its depth and no more than its fill; and when no fetch failed and it
\* did not have its fill, every page that can be reached in that many links, however
\* the site is linked, shortcuts and cycles included, and whatever the other calls do
\* to the cache meanwhile.
THEOREM CrawlsAreExact == SpiderSpec => []CrawlIsExact
<1>1. SpiderInv => CrawlIsExact
  BY InvIsExact DEF SpiderInv
<1>2. QED
  BY <1>1, SpiderInvAtFirst, SpiderInvIsKept, PTL DEF SpiderSpec

=============================================================================
