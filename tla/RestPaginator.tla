--------------------------- MODULE RestPaginator ----------------------------
(***************************************************************************)
(* Paginator of pkg/rest/namespaces: Next follows links.next from page to  *)
(* page, ForEach hands the items to a callback. The server's pages, which  *)
(* of them are empty and the links between them are arbitrary: chains,     *)
(* cycles, links that do not parse. A caller whose ForEach ended with an   *)
(* error may call it again.                                                *)
(***************************************************************************)
EXTENDS FiniteSets, Sequences, Naturals

CONSTANTS Pages,     \* pages of the server, each named by the cursor that asks for it
          First,     \* the page the initial params ask for
          End,       \* no links.next, or an empty one
          Malformed  \* a links.next that url.Parse refuses

ASSUME PagesAssumption ==
    IsFiniteSet(Pages) /\ First \in Pages /\ {End, Malformed} \cap Pages = {} /\ End # Malformed

VARIABLES
    links,      \* links.next of each page
    empty,      \* pages with no items
    page,       \* the page p.params ask for; the last one, once done
    done,       \* p.done
    seenNext,   \* p.seenNext
    walking,         \* ForEach: about to call "next", with the "items" of a page, "stopped"
    items,      \* the page Next returned last
    delivered,  \* history: pages the callback got all items of, in order
    refused     \* history: pages on which the callback returned an error

walkVars == <<links, empty, page, done, seenNext, walking, items, delivered, refused>>
pageVars == <<links, empty>>
walkHistory == <<delivered, refused>>

WalkInit ==
    /\ links \in [Pages -> Pages \cup {End, Malformed}] /\ empty \in SUBSET Pages
    /\ page = First /\ done = FALSE /\ seenNext = {}
    /\ walking = "next" /\ items = First
    /\ delivered = <<>> /\ refused = {}

\* An exhausted paginator answers "no more" without a fetch.
NextExhausted ==
    /\ walking = "next" /\ done
    /\ walking' = "stopped"
    /\ UNCHANGED <<pageVars, page, done, seenNext, items, walkHistory>>

\* The fetch fails and ForEach returns its error; the paginator is as it was.
NextFails ==
    /\ walking = "next" /\ ~done
    /\ walking' = "stopped"
    /\ UNCHANGED <<pageVars, page, done, seenNext, items, walkHistory>>

\* The page is fetched; its link decides what the next call asks for.
Follows(more) ==
    /\ walking = "next" /\ ~done
    /\ walking' = "items" /\ items' = page
    /\ done' = ~more
    /\ page' = IF more THEN links[page] ELSE page
    /\ seenNext' = IF links[page] = End THEN seenNext ELSE seenNext \cup {links[page]}
    /\ UNCHANGED <<pageVars, walkHistory>>

\* A plausible slip: no guard against a cursor that repeats.
NextFetches_NoGuard == Follows(links[page] \notin {End, Malformed})

NextFetches == Follows(links[page] \notin {End, Malformed} \cup seenNext)

\* The callback gets the page's items, and ForEach goes on while there is more.
ItemsDelivered ==
    /\ walking = "items"
    /\ delivered' = Append(delivered, items)
    /\ walking' = IF done THEN "stopped" ELSE "next"
    /\ UNCHANGED <<pageVars, page, done, seenNext, items, refused>>

\* The callback returns an error on one of them and ForEach returns it; the rest
\* of the page is gone.
CallbackFails ==
    /\ walking = "items" /\ items \notin empty
    /\ refused' = refused \cup {items}
    /\ walking' = "stopped"
    /\ UNCHANGED <<pageVars, page, done, seenNext, items, delivered>>

\* The caller calls ForEach once more on the same paginator.
ForEachAgain ==
    /\ walking = "stopped"
    /\ walking' = "next"
    /\ UNCHANGED <<pageVars, page, done, seenNext, items, walkHistory>>

ForEachStep == NextExhausted \/ NextFails \/ NextFetches \/ ItemsDelivered \/ CallbackFails

WalkNext == ForEachStep \/ ForEachAgain

WalkSpec == WalkInit /\ [][WalkNext]_walkVars

-----------------------------------------------------------------------------
WalkTypeOK ==
    /\ links \in [Pages -> Pages \cup {End, Malformed}] /\ empty \subseteq Pages
    /\ page \in Pages /\ items \in Pages
    /\ done \in BOOLEAN
    /\ seenNext \subseteq Pages \cup {Malformed}
    /\ walking \in {"next", "items", "stopped"}
    /\ delivered \in Seq(Pages) /\ refused \subseteq Pages

Times(p) == Cardinality({i \in DOMAIN delivered : delivered[i] = p})
Handed == {delivered[i] : i \in DOMAIN delivered} \cup refused

\* However the links run, and although fetches fail and callers come back, no
\* page is handed over twice, but for the first: its own cursor is not known to
\* the guard, so a cycle back to it shows it once more.
NoPageTwice == \A p \in Pages : Times(p) <= IF p = First THEN 2 ELSE 1

\* An exhausted paginator has handed over every page that links lead to from the
\* first, an empty page and a page after a failed fetch included.
NoPageDropped ==
    done /\ walking # "items" =>
        /\ First \in Handed
        /\ \A p \in Handed : links[p] \in Pages => links[p] \in Handed

\* The walk drops no page, and repeats none but the first, at most once.
WalkIsSound == NoPageTwice /\ NoPageDropped
=============================================================================
