------------------------- MODULE FrontierProperties -------------------------
(***************************************************************************)
(* What the frontier promises its caller, over the records of the URLs:    *)
(* none of these formulas looks at how a claim finds its URL.              *)
(***************************************************************************)
EXTENDS Frontier, Functions, FiniteSetsExt

\* Every variable has its type (the dataclasses of frontier.py).
TypeOK ==
  /\ DOMAIN entries \subseteq Url
  /\ \A u \in DOMAIN entries : entries[u] \in Entry
  /\ hosts \in [Host -> HostState]
  /\ admitted \in Nat
  /\ claimed \in Nat
  /\ now \in Nat

\* However admissions, claims and retries interleave, no budget of the
\* configuration is ever exceeded: pages, pages per host, attempts, attempts
\* per host, attempts per URL, and depth.
WithinBudgets ==
  /\ admitted <= Config.maxUrls
  /\ claimed <= GlobalFetchLimit
  /\ \A h \in Host : /\ hosts[h].admitted <= Config.maxUrlsPerHost
                     /\ hosts[h].fetches <= HostFetchLimit
  /\ \A u \in DOMAIN entries :
       /\ entries[u].depth <= Config.maxDepth
       /\ entries[u].attempts <= Config.maxAttemptsPerUrl
       /\ u \in Pending => entries[u].attempts < Config.maxAttemptsPerUrl

\* The attempts of the URLs of S, added up from their records.
Attempts == [u \in DOMAIN entries |-> entries[u].attempts]
AttemptsOf(S) == SumFunctionOnSet(Attempts, S)

\* The counters the budgets are tested against are those of the records: no
\* path through claim, fail and cancel loses or double-counts an attempt.
CountersExact ==
  /\ admitted = Cardinality(DOMAIN entries)
  /\ claimed = AttemptsOf(DOMAIN entries)
  /\ \A h \in Host :
       LET S == OnHost(DOMAIN entries, h)
       IN /\ hosts[h].admitted = Cardinality(S)
          /\ hosts[h].fetches = AttemptsOf(S)

\* The live items of the two heaps of u's host.
LiveWaiting(u) == {i \in hosts[Info[u].host].waiting : i.url = u /\ Live(i)}
LiveReady(u) == {i \in hosts[Info[u].host].ready : i.url = u /\ Live(i)}

\* Lazy deletion never loses or duplicates work: a pending URL has exactly one
\* live item, in one of its host's heaps and with the key of its record, and
\* any other URL has none.  (_enqueue, _promote_ready, _peek_ready)
HeapsIndexPending ==
  \A u \in DOMAIN entries :
    LET w == LiveWaiting(u)
        r == LiveReady(u)
    IN IF u \in Pending
       THEN /\ Cardinality(w) + Cardinality(r) = 1
            /\ \A i \in w : i.at = entries[u].readyAt
            /\ \A i \in r : i.priority = entries[u].priority
       ELSE w = {} /\ r = {}

\* What is claimable at time t, read off the records.
Due(h, t) == {u \in Pending : Info[u].host = h /\ entries[u].readyAt <= t}

Claimable(h, t) == /\ Due(h, t) # {}
                   /\ hosts[h].fetches < HostFetchLimit
                   /\ hosts[h].nextAllowed <= t

\* A claim that leases u takes it from the least recently served host with
\* claimable work, and u is the most urgent due URL of that host, the first
\* admitted among equals.  (class docstring: stable least-recently-served turns)
ClaimIsFair ==
  [][claimed' > claimed =>
       \E u \in InFlight' \ InFlight :
         LET g == Info[u].host
         IN /\ Claimable(g, now)
            /\ \A h \in Host : Claimable(h, now) =>
                 hosts[g].lastServed <= hosts[h].lastServed
            /\ \A v \in Due(g, now) \ {u} :
                 \/ entries[u].priority > entries[v].priority
                 \/ /\ entries[u].priority = entries[v].priority
                    /\ entries[u].order < entries[v].order]_clockedVars

\* Sleeping until next_wake_at neither oversleeps nor spins: before that time
\* nothing is claimable, and at that time either something is or a claim
\* drains a host that is out of budget.  Without a wake time nothing is pending.
WakeTimeExact ==
  /\ AllWakeTimes = {} <=> Pending = {}
  /\ AllWakeTimes # {} =>
       LET wake == Min(AllWakeTimes)
       IN /\ wake >= now
          /\ \A t \in now .. wake - 1 : \A h \in Host : ~Claimable(h, t)
          /\ \E h \in Host : \/ Claimable(h, wake)
                             \/ Exhausted(h) /\ OnHost(Pending, h) # {}

\* The outcome of the lease that u is in flight under is taken: that lease, no
\* earlier one, is the one answered, and for the first time; what it was given
\* stays, and no budget is the reason.
OutcomeTaken(u) ==
  /\ u \in InFlight
  /\ entries[u].answered < entries[u].attempts
  /\ entries'[u].answered = entries[u].attempts
  /\ entries'[u].attempts = entries[u].attempts
  /\ entries'[u].depth = entries[u].depth
  /\ entries'[u].priority = entries[u].priority
  /\ entries'[u].parent = entries[u].parent
  /\ entries'[u].order = entries[u].order
  /\ \/ entries'[u].state \in PendingStates
     \/ entries'[u].reason \notin {"GLOBAL_FETCH_BUDGET", "HOST_FETCH_BUDGET"}

\* The record of a leased URL does not move under its holder, whatever is
\* admitted, cancelled or out of budget meanwhile: it changes only by the
\* outcome of that very lease, which is still outstanding, and not by that of
\* an earlier lease of the URL.  After the last outcome it never changes.
\* (_resolve_lease, frontier.py:956)
LeaseStable ==
  [][\A u \in DOMAIN entries \ Pending :
       entries'[u] # entries[u] => OutcomeTaken(u)]_clockedVars

\* A URL that reached its final disposition keeps it: no late outcome, no
\* rediscovery and no cancellation reopens or rewrites a terminal record.
TerminalIsFinal ==
  [][\A u \in Terminal : entries'[u] = entries[u]]_clockedVars

-----------------------------------------------------------------------------
(* The abstract frontier                                                   *)

\* A record without its generation; a retry is pending as a first attempt is.
PageOf(e) ==
  [depth |-> e.depth, priority |-> e.priority, parent |-> e.parent, order |-> e.order,
   state |-> CASE e.state \in PendingStates -> "pending"
               [] e.state = "IN_FLIGHT" -> "leased"
               [] e.state = "TERMINAL" -> "settled",
   attempts |-> e.attempts, readyAt |-> e.readyAt, reason |-> e.reason]

Pages == [u \in DOMAIN entries |-> PageOf(entries[u])]
Served == [h \in Host |-> hosts[h].lastServed]
Allowed == [h \in Host |-> hosts[h].nextAllowed]

Queue == INSTANCE CrawlQueue WITH
  HostOf <- [u \in Url |-> Info[u].host],
  InScope <- {u \in Url : SameSite(Info[u].host) /\ ~Info[u].trap},
  MaxPages <- Config.maxUrls, MaxPagesPerHost <- Config.maxUrlsPerHost,
  MaxLeases <- GlobalFetchLimit, MaxLeasesPerHost <- HostFetchLimit,
  MaxAttempts <- Config.maxAttemptsPerUrl, MaxDepth <- Config.maxDepth,
  HostDelay <- Config.hostDelay,
  LeastDelay <- [n \in Nat \ {0} |-> Backoff(n)], Outcomes <- Reasons,
  pages <- Pages, served <- Served, allowed <- Allowed

\* Heaps, lazy deletion and counters are invisible: whatever the caller does, the
\* frontier behaves as a set of records from which each claim takes the first due
\* page of the host whose turn it is, and from which nothing else takes one.
ImplementsQueue == Queue!QueueSpec

-----------------------------------------------------------------------------
(* The inductive invariant behind these properties: what every step of the *)
(* frontier relies on and preserves.                                       *)

\* The heaps of H, a record of host h, are finite and hold items of admitted
\* URLs of h, none of them newer than the URL's record.
HeapsKnown(h, H) ==
  /\ IsFiniteSet(H.waiting) /\ IsFiniteSet(H.ready)
  /\ \A i \in H.waiting \cup H.ready :
       /\ i.url \in DOMAIN entries
       /\ Info[i.url].host = h
       /\ i.generation <= entries[i.url].generation

SameGeneration(i, j) == i.url = j.url /\ i.generation = j.generation

\* A generation of a URL has at most one item in the heaps.
HeapsDistinct(H) ==
  /\ \A i, j \in H.waiting : SameGeneration(i, j) => i = j
  /\ \A i, j \in H.ready : SameGeneration(i, j) => i = j
  /\ \A i \in H.waiting, j \in H.ready : ~SameGeneration(i, j)

HeapsSound ==
  \A h \in Host : HeapsKnown(h, hosts[h]) /\ HeapsDistinct(hosts[h])

\* The heaps of H index the pending URLs of host h: each has a live item, live
\* items carry the keys of their records, and what is ready is due.
HeapsIndex(h, H) ==
  /\ \A u \in Pending : Info[u].host = h =>
       \E i \in H.waiting \cup H.ready : i.url = u /\ Live(i)
  /\ \A i \in H.waiting : Live(i) => i.at = entries[i.url].readyAt
  /\ \A i \in H.ready : Live(i) => /\ i.priority = entries[i.url].priority
                                   /\ entries[i.url].readyAt <= now

HeapsComplete == \A h \in Host : HeapsIndex(h, hosts[h])

\* Admission numbers the URLs.
OrdersDistinct ==
  /\ \A u \in DOMAIN entries : entries[u].order <= admitted
  /\ \A u, v \in DOMAIN entries : entries[u].order = entries[v].order => u = v

\* A URL in flight has been attempted.
InFlightAttempted == \A u \in InFlight : entries[u].attempts >= 1

\* Of the leases of a URL, all but the one it is in flight under are answered.
LeaseAnswered(e) ==
  e.attempts = e.answered + (IF e.state = "IN_FLIGHT" THEN 1 ELSE 0)

LeasesAnswered == \A u \in DOMAIN entries : LeaseAnswered(entries[u])

FrontierInv == /\ TypeOK /\ HeapsSound /\ HeapsComplete /\ OrdersDistinct
               /\ InFlightAttempted /\ LeasesAnswered /\ WithinBudgets /\ CountersExact
-----------------------------------------------------------------------------
\* A caller that keeps claiming and reports every lease.
FairFrontierSpec == /\ FrontierSpec
            /\ WF_clockedVars(Claim /\ UNCHANGED now)
            /\ WF_clockedVars(ResolveSome)
            /\ WF_clockedVars(Tick)

\* Then every admitted URL reaches a final disposition: none is starved by
\* busier hosts, by more urgent URLs or by retries.
EveryUrlSettles ==
  \A u \in Url : (u \in DOMAIN entries) ~> (u \in Terminal)
=============================================================================
