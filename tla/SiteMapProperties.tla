-------------------------- MODULE SiteMapProperties --------------------------
(***************************************************************************)
(* What a site map promises: bounded work, and a list that depends only on *)
(* which documents arrived.                                                *)
(***************************************************************************)
EXTENDS SiteMap

MapTypeOK ==
  /\ phase \in {"idle", "robots", "fill", "batch", "full", "home", "done", "late"}
  /\ toParse \in Seq(Url) /\ seen \subseteq Url /\ batch \in Seq(Url)
  /\ found \in Seq(Url) /\ fetched \in Nat /\ remaining \in 0 .. MaxBytes /\ crowded \in BOOLEAN
  /\ gets \in Seq([url : Url, stage : {"loading", "kept", "failed"}, got : Nat])

Held == SumFunctionOnSet([i \in DOMAIN gets |-> gets[i].got], DOMAIN gets)

\* Everything a call holds in memory at any time, what documents were unpacked
\* to included, fits in the budget of bytes, also when several documents that
\* load at once exhaust it (tests/unit/test_site_map.py:107 tests it for one).
HeldWithinBudget ==
  /\ MapTypeOK
  /\ Held + remaining <= MaxBytes

\* The sitemaps are all that is fetched but robots.txt and the home page: none of
\* them twice, whatever cycle they form, none off the site, no more than allowed
\* in all, and no more at once.
SitemapsBounded ==
  LET maps == {i \in DOMAIN gets : gets[i].url \notin {Robots, Home}}
  IN /\ Cardinality(maps) <= MaxSitemaps
     /\ \A i, j \in maps : gets[i].url = gets[j].url => i = j
     /\ \A i \in maps : gets[i].url \in OnSite
     /\ Cardinality(Loading) <= Concurrency

\* The work and the memory of a call are bounded, whatever a site answers.
MapBounded == HeldWithinBudget /\ SitemapsBounded

(* The list, from the documents that arrived *******************************)

\* The sitemaps are fetched between robots.txt and the home page.
Arriving == {gets[i].url : i \in {j \in 2 .. fetched + 1 : gets[j].stage = "kept"}}

RobotsArrived == gets[1].stage = "kept"
HomeArrived == fetched + 2 \in DOMAIN gets /\ gets[fetched + 2].stage = "kept"

Start == IF RobotsArrived /\ Site[Robots].locs # << >> THEN Site[Robots].locs ELSE <<Default>>

\* A list goes on with those members of a set that are mentioned, each the first
\* time it is.
Noted(list, u, members) == IF u \in members \ Range(list) THEN Append(list, u) ELSE list
Extended(list, mentions, members) ==
  FoldLeft(LAMBDA l, u : Noted(l, u, members), list, mentions)

\* What the locations of a document are.
MapsIn(u) == IF Site[u].index THEN OnSite ELSE OnSite \cap XmlPath
PagesIn(u) == IF Site[u].index THEN {} ELSE (OnSite \cap Wanted) \ XmlPath

\* One sitemap at a time, first come, first served: the sitemaps and the pages
\* known after n of them, if those in arrived arrive.
Traversal(start, arrived) ==
  LET known[n \in 0 .. MaxSitemaps] ==
        IF n = 0
        THEN [maps |-> Extended(<< >>, start, OnSite), found |-> << >>]
        ELSE LET before == known[n - 1]
                 u == before.maps[n]
             IN IF n \in DOMAIN before.maps /\ u \in arrived
                THEN [maps |-> Extended(before.maps, Site[u].locs, MapsIn(u)),
                      found |-> Extended(before.found, Site[u].locs, PagesIn(u))]
                ELSE before
  IN known

HomeLinks == IF HomeArrived THEN Site[Home].locs ELSE << >>
Limited(list) == IF Len(list) > PageLimit THEN SubSeq(list, 1, PageLimit) ELSE list

\* The list that is returned is the one that a traversal without any concurrency
\* makes of the documents that arrived: neither the order in which they load nor
\* the batches they load in show, unless the queue overflowed.  And no sitemap
\* that this traversal comes to is left out while the list is not full and a call
\* may fetch more.
OrderIndependent ==
  phase = "done" /\ gets # << >> /\ ~crowded =>
    LET whole == Traversal(Start, Arriving)[MaxSitemaps]
    IN /\ found = Limited(Extended(whole.found, HomeLinks, OnSite \cap Wanted))
       /\ Len(found) < PageLimit => fetched = MaxSitemaps \/ fetched = Len(whole.maps)

\* A call ends by its deadline, whatever arrives: no loop goes on without an
\* await in it.
MapEnds == phase = "robots" ~> phase \in {"done", "late"}
=============================================================================
