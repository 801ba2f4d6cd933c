-------------------------- MODULE FetcherProperties --------------------------
(***************************************************************************)
(* What fetching owes the sites, the browser and its callers.              *)
(***************************************************************************)
EXTENDS Fetcher

TypeOK ==
  /\ limiters \in Seq(Domain)
  /\ level \in [Domain -> 0 .. Burst] /\ shared \in 0 .. Burst
  /\ idle \in [Domain -> 0 .. Refill] /\ inUse \in [Domain -> Nat]
  /\ tickets \in [Caller -> Domain \cup {"none", "shared"}]
  /\ pages \in 0 .. MaxPages /\ browser \in {"none", "connected", "dead"}
  /\ launcher \in Crawl \cup {0} /\ renders \in [Crawl -> Renders]
  /\ fetches \in [Crawl -> Fetch]

\* The registry is bounded, and a bucket that is awaited is in it and counts
\* exactly those who await it.
RegistryExact ==
  /\ Len(limiters) <= MaxDomains /\ IsInjective(limiters)
  /\ \A d \in Domain : /\ inUse[d] = Cardinality({k \in Caller : tickets[k] = d})
                       /\ inUse[d] > 0 => d \in Range(limiters)

\* A render that has a permit gives it back, and one launches at a time.
PagesExact ==
  /\ pages + Cardinality({c \in Crawl : renders[c] \notin {"none", "queued"}}) = MaxPages
  /\ \A c \in Crawl : launcher = c <=> renders[c] = "launching"
  /\ \A c \in Crawl : renders[c] # "none" <=> fetches[c].at = "render"

\* From its first attempt on, the URL that a fetch requests passed
\* validate_public_url and the policy as the hop it is now, not as an earlier one.
Cleared(f) == f.validated = <<f.url, f.hop>> /\ f.allowed = <<f.url, f.hop>>

\* No request is made for a hop that was not validated and allowed as it is, and
\* no pause outlasts the deadline.
HopsCleared ==
  \A c \in Crawl : /\ fetches[c].at \in {"token", "stream", "sleep"} => Cleared(fetches[c])
                   /\ fetches[c].pause <= fetches[c].budget
                   /\ fetches[c].at = "token" <=> tickets[c] # "none"

FetchInv == TypeOK /\ RegistryExact /\ PagesExact /\ HopsCleared

\* The comment of acquire: "LRU churn could grant a fresh burst to a recently
\* limited domain".  It never does: a bucket is as full as if none had ever been
\* discarded, so a domain never gets more than its burst out of its own buckets.
BurstsKept ==
  \A d \in Domain : spent[d] = IF d \in Range(limiters) THEN level[d] ELSE 0

\* A browser that is connected is not closed by a launch, while it may be in use.
BrowserKept == [][browser = "connected" => browser' \in {"connected", "dead"}]_vars

\* Every fetch ends, however long tokens, pages and answers let it wait.
EveryFetchEnds == \A c \in Crawl : fetches[c].at # "idle" ~> fetches[c].at = "idle"
=============================================================================
