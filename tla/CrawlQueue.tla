----------------------------- MODULE CrawlQueue -----------------------------
(***************************************************************************)
(* What a crawl frontier promises, without heaps, generations or counters: *)
(* a set of pages with a record each.  Whatever it does is decided by the  *)
(* records and by two clocks per host; a lease goes to the host whose turn *)
(* it is, and there to the most urgent page that is due.                   *)
(***************************************************************************)
EXTENDS Integers, FiniteSets, Functions

CONSTANTS
  Url, Host, HostOf,   \* HostOf is a function
  InScope,             \* the URLs that may be admitted
  MaxPages, MaxPagesPerHost, MaxLeases, MaxLeasesPerHost, MaxAttempts, MaxDepth,
  HostDelay,           \* between two leases of a host
  LeastDelay,          \* per attempt: how long the next one waits at least
  Outcomes,            \* reasons a holder of a lease may settle it for
  None

VARIABLES
  pages,    \* the admitted URLs and their records
  served,   \* per host: the number of its last lease, or -1
  allowed,  \* per host: the time before which it is left alone
  now

queueVars == <<pages, served, allowed, now>>

In(state) == {u \in DOMAIN pages : pages[u].state = state}
Among(S, h) == {u \in S : HostOf[u] = h}
Leases(S) == SumFunctionOnSet([u \in DOMAIN pages |-> pages[u].attempts], S)

Spent == Leases(DOMAIN pages) >= MaxLeases
SpentOn(h) == Leases(Among(DOMAIN pages, h)) >= MaxLeasesPerHost

DueOn(h) == {u \in Among(In("pending"), h) : pages[u].readyAt <= now}
Servable(h) == DueOn(h) # {} /\ ~SpentOn(h) /\ allowed[h] <= now

\* u goes before v, a page of the same host.
Before(u, v) ==
  \/ pages[u].priority > pages[v].priority
  \/ pages[u].priority = pages[v].priority /\ pages[u].order < pages[v].order

\* The pending pages of S are settled for a reason.
SettledIn(S, reason) ==
  [u \in DOMAIN pages |-> IF u \in S \cap In("pending")
                          THEN [pages[u] EXCEPT !.state = "settled", !.reason = reason]
                          ELSE pages[u]]

OnSpentHosts == {u \in DOMAIN pages : SpentOn(HostOf[u])}
-----------------------------------------------------------------------------
\* The seeds are pending, at depth 0 and due.
QueueInit ==
  /\ DOMAIN pages \subseteq Url
  /\ \A u \in DOMAIN pages :
       /\ pages[u].state = "pending" /\ pages[u].attempts = 0
       /\ pages[u].depth = 0 /\ pages[u].parent = None /\ pages[u].readyAt = 0
  /\ served = [h \in Host |-> -1] /\ allowed = [h \in Host |-> 0] /\ now = 0

\* A new URL of the site, while there is room for it and on its host.
AdmitPage ==
  \E u \in InScope \ DOMAIN pages :
    /\ Cardinality(DOMAIN pages) < MaxPages
    /\ Cardinality(Among(DOMAIN pages, HostOf[u])) < MaxPagesPerHost
    /\ DOMAIN pages' = DOMAIN pages \cup {u}
    /\ \A v \in DOMAIN pages : pages'[v] = pages[v]
    /\ pages'[u].state = "pending" /\ pages'[u].attempts = 0 /\ pages'[u].readyAt >= now
    /\ pages'[u].depth <= MaxDepth /\ pages'[u].order = Cardinality(DOMAIN pages) + 1
    /\ UNCHANGED <<served, allowed, now>>

\* A pending page is found again: nearer, more urgent or sooner, never the reverse.
Improve ==
  \E u \in In("pending") :
    /\ DOMAIN pages' = DOMAIN pages
    /\ \A v \in DOMAIN pages \ {u} : pages'[v] = pages[v]
    /\ pages'[u].depth <= pages[u].depth /\ pages'[u].priority >= pages[u].priority
    /\ pages'[u].readyAt <= pages[u].readyAt
    /\ pages'[u].parent = pages[u].parent \/ pages'[u].depth < pages[u].depth
    /\ pages'[u].state = "pending"
    /\ pages'[u].attempts = pages[u].attempts /\ pages'[u].order = pages[u].order
    /\ UNCHANGED <<served, allowed, now>>

\* A lease: the host that was served least recently among those that can be, and
\* its first page that is due.  Hosts that have spent their leases are drained.
Lease ==
  \E h \in Host : \E u \in DueOn(h) :
    /\ ~Spent /\ Servable(h)
    /\ \A g \in Host : Servable(g) => served[h] <= served[g]
    /\ \A v \in DueOn(h) \ {u} : Before(u, v)
    /\ pages' = [SettledIn(OnSpentHosts, "HOST_FETCH_BUDGET") EXCEPT
                   ![u].state = "leased", ![u].attempts = @ + 1]
    /\ served' = [served EXCEPT ![h] = Leases(DOMAIN pages)]
    /\ allowed' = [allowed EXCEPT ![h] = now + HostDelay]
    /\ UNCHANGED now

\* There is nothing to lease now, or nothing may be leased any more.
NoLease ==
  /\ \/ /\ ~Spent /\ \A h \in Host : ~Servable(h)
        /\ pages' = SettledIn(OnSpentHosts, "HOST_FETCH_BUDGET")
     \/ /\ Spent
        /\ pages' = SettledIn(DOMAIN pages, "GLOBAL_FETCH_BUDGET")
  /\ UNCHANGED <<served, allowed, now>>

\* The outcome of a lease is final, or the page is tried again after its backoff.
Settle ==
  \E u \in In("leased"), reason \in Outcomes \cup {"SUCCEEDED", "RETRY_EXHAUSTED"} :
    /\ reason = "RETRY_EXHAUSTED" => pages[u].attempts >= MaxAttempts
    /\ pages' = [pages EXCEPT ![u].state = "settled", ![u].reason = reason]
    /\ UNCHANGED <<served, allowed, now>>

TryAgain ==
  \E u \in In("leased") :
    /\ pages[u].attempts < MaxAttempts
    /\ pages'[u].readyAt >= now + LeastDelay[pages[u].attempts]
    /\ pages' = [pages EXCEPT ![u].state = "pending", ![u].readyAt = pages'[u].readyAt]
    /\ allowed'[HostOf[u]] >= allowed[HostOf[u]]
    /\ allowed' = [allowed EXCEPT ![HostOf[u]] = allowed'[HostOf[u]]]
    /\ UNCHANGED <<served, now>>

CancelPages ==
  /\ pages' = SettledIn(DOMAIN pages, "CANCELLED")
  /\ UNCHANGED <<served, allowed, now>>

Later == now' = now + 1 /\ UNCHANGED <<pages, served, allowed>>

QueueNext ==
  \/ AdmitPage \/ Improve \/ Lease \/ NoLease \/ Settle \/ TryAgain \/ CancelPages \/ Later

QueueSpec == QueueInit /\ [][QueueNext]_queueVars
=============================================================================
