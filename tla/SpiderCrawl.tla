---------------------------- MODULE SpiderCrawl -----------------------------
(***************************************************************************)
(* The spider skill (pkg/skills/builtin/spider): tool calls served by      *)
(* goroutines of their own scrape one page or crawl a site breadth first,  *)
(* and share the cache of fetched pages. fetchURL looks a page up, fetches *)
(* it without the lock and stores it under the lock, so that two calls may *)
(* miss the same page and store it one after the other.                    *)
(***************************************************************************)
EXTENDS Naturals, Sequences, FiniteSets

CONSTANTS Crawls,      \* calls of crawl_site
          Scrapes,     \* calls of scrape_url and extract_structured_data
          Urls,        \* pages of the site
          WithText,    \* those of which extractText leaves something
          StartUrl,    \* the page each call asks for
          LinksOf,     \* the links of a page that the crawl may follow, in order
          MaxPages,    \* max_pages
          MaxDepth,    \* max_depth
          CacheMaxSize \* cacheMaxSize

ASSUME SpiderAssumption ==
    /\ IsFiniteSet(Urls) /\ WithText \subseteq Urls /\ Crawls \cap Scrapes = {}
    /\ StartUrl \in [Crawls \cup Scrapes -> Urls] /\ LinksOf \in [Urls -> Seq(Urls)]
    /\ MaxPages \in Nat \ {0} /\ MaxDepth \in Nat /\ CacheMaxSize \in Nat \ {0}

VARIABLES
    at,         \* where each call is
    item,       \* the page it is at, with its depth
    queue,      \* pages to come, in order
    visited,    \* pages fetched by the call
    results,    \* what it will report, in order: those with text
    failed,     \* history: pages whose fetch failed
    cache,      \* pages cached
    cacheOrder  \* their urls, oldest first

spiderVars == <<at, item, queue, visited, results, failed, cache, cacheOrder>>
cacheVars == <<cache, cacheOrder>>
crawlVars == <<queue, visited, results>>

SpiderCalls == Crawls \cup Scrapes
Page(u, d) == [url |-> u, depth |-> d]

SpiderInit ==
    /\ at = [w \in SpiderCalls |-> "idle"]
    /\ item = [w \in SpiderCalls |-> Page(StartUrl[w], 0)]
    /\ queue = [w \in SpiderCalls |-> <<>>]
    /\ visited = [w \in SpiderCalls |-> {}] /\ results = [w \in SpiderCalls |-> <<>>]
    /\ failed = [w \in SpiderCalls |-> {}]
    /\ cache = {} /\ cacheOrder = <<>>

SpiderGoto(w, from, to) == at[w] = from /\ at' = [at EXCEPT ![w] = to]

-----------------------------------------------------------------------------
(* handleScrapeURL, handleCrawlSite.                                       *)

ScrapeStarts(w) ==
    /\ w \in Scrapes /\ SpiderGoto(w, "idle", "lookup")
    /\ UNCHANGED <<item, crawlVars, failed, cacheVars>>

CrawlStarts(w) ==
    /\ w \in Crawls /\ SpiderGoto(w, "idle", "loop")
    /\ queue' = [queue EXCEPT ![w] = <<Page(StartUrl[w], 0)>>]
    /\ UNCHANGED <<item, visited, results, failed, cacheVars>>

LoopGoesOn(w) == queue[w] # <<>> /\ Cardinality(visited[w]) < MaxPages

LoopEnds(w) ==
    /\ SpiderGoto(w, "loop", "done") /\ ~LoopGoesOn(w)
    /\ UNCHANGED <<item, crawlVars, failed, cacheVars>>

\* The next page, skipped when it was visited since it was queued.
TakeItem(w) ==
    /\ at[w] = "loop" /\ LoopGoesOn(w)
    /\ queue' = [queue EXCEPT ![w] = Tail(@)]
    /\ IF Head(queue[w]).url \in visited[w] \/ Head(queue[w]).depth > MaxDepth
       THEN UNCHANGED <<at, item>>
       ELSE at' = [at EXCEPT ![w] = "lookup"] /\ item' = [item EXCEPT ![w] = Head(queue[w])]
    /\ UNCHANGED <<visited, results, failed, cacheVars>>

\* Links not visited yet, in order, unless the page is at the maximal depth.
NewLinks(w) ==
    LET here == item[w]
        links == LinksOf[here.url]
        fresh[i \in 0..Len(links)] ==
            IF i = 0 THEN <<>>
            ELSE IF links[i] \in visited[w] \cup {here.url} THEN fresh[i - 1]
            ELSE Append(fresh[i - 1], Page(links[i], here.depth + 1))
    IN IF here.depth >= MaxDepth THEN <<>> ELSE fresh[Len(links)]

\* A page without text counts as visited and is not reported.
Noted(w) ==
    /\ visited' = [visited EXCEPT ![w] = @ \cup {item[w].url}]
    /\ results' = IF item[w].url \in WithText
                  THEN [results EXCEPT ![w] = Append(@, item[w].url)] ELSE results

\* The page is there. A scrape is over; a crawl notes it and queues its links.
\* A plausible slip: the links go to the front.
PageIsHere_DepthFirst(w) ==
    IF w \in Scrapes
    THEN at' = [at EXCEPT ![w] = "done"] /\ UNCHANGED crawlVars
    ELSE /\ at' = [at EXCEPT ![w] = "loop"]
         /\ Noted(w)
         /\ queue' = [queue EXCEPT ![w] = NewLinks(w) \o @]

PageIsHere(w) ==
    IF w \in Scrapes
    THEN at' = [at EXCEPT ![w] = "done"] /\ UNCHANGED crawlVars
    ELSE /\ at' = [at EXCEPT ![w] = "loop"]
         /\ Noted(w)
         /\ queue' = [queue EXCEPT ![w] = @ \o NewLinks(w)]

-----------------------------------------------------------------------------
(* fetchURL.                                                               *)

CacheHits(w) ==
    /\ at[w] = "lookup" /\ item[w].url \in cache
    /\ PageIsHere(w)
    /\ UNCHANGED <<item, failed, cacheVars>>

CacheMisses(w) ==
    /\ SpiderGoto(w, "lookup", "fetch") /\ item[w].url \notin cache
    /\ UNCHANGED <<item, crawlVars, failed, cacheVars>>

\* A transport error or a status other than 200: a crawl leaves the page unvisited.
FetchFails(w) ==
    /\ SpiderGoto(w, "fetch", IF w \in Crawls THEN "loop" ELSE "done")
    /\ failed' = [failed EXCEPT ![w] = @ \cup {item[w].url}]
    /\ UNCHANGED <<item, crawlVars, cacheVars>>

FetchSucceeds(w) ==
    /\ SpiderGoto(w, "fetch", "store")
    /\ UNCHANGED <<item, crawlVars, failed, cacheVars>>

\* Under the lock: the oldest page makes room, whatever page it is. A plausible
\* slip: it leaves the order and stays in the cache.
CacheStores_EvictsInOrderOnly(w) ==
    /\ at[w] = "store"
    /\ LET full == Cardinality(cache) >= CacheMaxSize /\ cacheOrder # <<>>
       IN /\ cache' = cache \cup {item[w].url}
          /\ cacheOrder' = (IF full THEN Tail(cacheOrder) ELSE cacheOrder) \o <<item[w].url>>
    /\ PageIsHere(w)
    /\ UNCHANGED <<item, failed>>

CacheStores(w) ==
    /\ at[w] = "store"
    /\ LET full == Cardinality(cache) >= CacheMaxSize /\ cacheOrder # <<>>
           kept == IF full THEN cache \ {Head(cacheOrder)} ELSE cache
       IN /\ cache' = kept \cup {item[w].url}
          /\ cacheOrder' = (IF full THEN Tail(cacheOrder) ELSE cacheOrder) \o <<item[w].url>>
    /\ PageIsHere(w)
    /\ UNCHANGED <<item, failed>>

SpiderStep(w) ==
    \/ LoopEnds(w) \/ TakeItem(w)
    \/ CacheHits(w) \/ CacheMisses(w) \/ FetchFails(w) \/ FetchSucceeds(w) \/ CacheStores(w)

SpiderNext == \E w \in SpiderCalls : ScrapeStarts(w) \/ CrawlStarts(w) \/ SpiderStep(w)

SpiderSpec == SpiderInit /\ [][SpiderNext]_spiderVars

-----------------------------------------------------------------------------
PageItems == [url : Urls, depth : 0..MaxDepth]

SpiderTypeOK ==
    /\ at \in [SpiderCalls -> {"idle", "loop", "lookup", "fetch", "store", "done"}]
    /\ item \in [SpiderCalls -> PageItems]
    /\ queue \in [SpiderCalls -> Seq(PageItems)]
    /\ visited \in [SpiderCalls -> SUBSET Urls] /\ failed \in [SpiderCalls -> SUBSET Urls]
    /\ results \in [SpiderCalls -> Seq(Urls)]
    /\ cache \subseteq Urls /\ cacheOrder \in Seq(Urls)

\* Whatever two calls store in which order, a cached page is in the order, so that
\* it can still be evicted.
CachedIsEvictable == \A u \in cache : \E i \in DOMAIN cacheOrder : cacheOrder[i] = u

LinkedFrom(u) == {LinksOf[u][i] : i \in DOMAIN LinksOf[u]}

\* The pages within reach of each page in at most n links (a reference definition).
Near[n \in Nat] ==
    IF n = 0 THEN [u \in Urls |-> {u}]
    ELSE [u \in Urls |-> Near[n - 1][u] \cup UNION {LinkedFrom(v) : v \in Near[n - 1][u]}]

Reported(w) == {results[w][i] : i \in DOMAIN results[w]}

\* A crawl reports exactly the pages it visited that have text, each once; it visits
\* none beyond its limits and, unless a fetch failed or it had its fill of pages,
\* with or without text, every page within its depth.
CrawlIsExact ==
    \A w \in Crawls :
        /\ Reported(w) = visited[w] \cap WithText
        /\ \A i, j \in DOMAIN results[w] : results[w][i] = results[w][j] => i = j
        /\ Cardinality(visited[w]) <= MaxPages
        /\ visited[w] \subseteq Near[MaxDepth][StartUrl[w]]
        /\ at[w] = "done" /\ failed[w] = {} /\ Cardinality(visited[w]) < MaxPages
              => visited[w] = Near[MaxDepth][StartUrl[w]]
=============================================================================
