------------------------------ MODULE Frontier ------------------------------
(***************************************************************************)
(* The crawl frontier of one recursive job: class CrawlFrontier of         *)
(* src/app/services/frontier.py.  It admits discovered URLs under scope,   *)
(* depth, trap and size budgets, leases them to fetchers under politeness  *)
(* and fetch budgets, and takes back the outcome of every lease.           *)
(*                                                                         *)
(* The two binary heaps of a host are sets of items: popping until a       *)
(* condition holds is a set difference, and the order in which items leave *)
(* a heap is the order of their keys.  Items are deleted lazily, as in the *)
(* code: a re-queued URL leaves its old item behind with an old generation.*)
(* Counters that only feed metrics() (attempts, duplicates, rejections,    *)
(* retries) are left out; _order and _admitted move together and are one   *)
(* variable, and so are _turn and _claimed.  Time is an integer.           *)
(***************************************************************************)
EXTENDS Integers, Sequences, FiniteSets

CONSTANTS
  Host,         \* canonical host names
  Url,          \* canonical URLs
  Link,         \* URL spellings a caller may pass to the frontier
  Canonical,    \* canonicalize_url: a Url, or Malformed when it raises
  Malformed,
  Info,         \* what the frontier reads off a canonical URL (see UrlInfo)
  Path, Query, Calendar,  \* paths, queries, and calendar signatures
  None,         \* no parent, no query, no calendar signature, no Retry-After
  HostRank,     \* the order of host names, last tie-break of a claim
  SubdomainOf,  \* the pairs <<h, r>> such that h ends with "." + r
  Config,       \* FrontierConfig
  SeedLinks,    \* the seed URLs, in the caller's order
  SeedPriority,
  Depths, Priorities, Parents,  \* what a caller passes to admit
  ReadyDelays,  \* how far ahead of its clock a caller sets ready_at
  Reasons,      \* the terminal reasons a caller passes to fail
  RetryAfters,  \* the Retry-After values it passes, in seconds, or None
  MaxTime       \* bound: time passes freely up to here

UrlInfo == [host : Host,
            path : Path,
            query : Query \cup {None},
            calendar : Calendar \cup {None},
            trap : BOOLEAN]  \* a trap whatever the frontier has seen before

\* FrontierConfig; 0 stands for the None of the two optional fetch budgets.
ConfigType == [maxDepth : Nat,
               maxUrls : Nat \ {0},
               maxUrlsPerHost : Nat \ {0},
               maxFetchAttempts : Nat,
               maxFetchAttemptsPerHost : Nat,
               maxAttemptsPerUrl : Nat \ {0},
               allowSubdomains : BOOLEAN,
               hostDelay : Nat,
               backoffBase : Nat,
               maxRetryDelay : Nat,
               maxQueryVariants : Nat \ {0},
               maxCalendarVariants : Nat \ {0}]

GlobalFetchLimit == IF Config.maxFetchAttempts > 0
                    THEN Config.maxFetchAttempts
                    ELSE Config.maxUrls * Config.maxAttemptsPerUrl

HostFetchLimit == IF Config.maxFetchAttemptsPerHost > 0
                  THEN Config.maxFetchAttemptsPerHost
                  ELSE Config.maxUrlsPerHost * Config.maxAttemptsPerUrl

OnHost(S, h) == {u \in S : Info[u].host = h}

SeedUrls == {Canonical[SeedLinks[i]] : i \in DOMAIN SeedLinks}

Roots == {Info[u].host : u \in SeedUrls}

\* _same_site
SameSite(h) == \/ h \in Roots
               \/ /\ Config.allowSubdomains
                  /\ \E r \in Roots : <<h, r>> \in SubdomainOf

\* The distinct queries admitted for u's path and the distinct URLs admitted
\* for its calendar pattern, among the URLs of S.
QueryVariants(S, u) ==
  {Info[v].query : v \in {w \in S : /\ Info[w].host = Info[u].host
                                    /\ Info[w].path = Info[u].path
                                    /\ Info[w].query # None}}

CalendarVariants(S, u) ==
  {v \in S : /\ Info[v].host = Info[u].host
             /\ Info[v].calendar = Info[u].calendar}

\* _trap_reason, when the URLs of S have been admitted
Trapped(S, u) ==
  \/ Info[u].trap
  \/ /\ Info[u].query # None
     /\ Info[u].query \notin QueryVariants(S, u)
     /\ Cardinality(QueryVariants(S, u)) >= Config.maxQueryVariants
  \/ /\ Info[u].calendar # None
     /\ u \notin CalendarVariants(S, u)
     /\ Cardinality(CalendarVariants(S, u)) >= Config.maxCalendarVariants

FailureReasons == {"PERMANENT_FAILURE", "ROBOTS_DISALLOWED",
                   "CONTENT_REJECTED", "CANCELLED"}

ASSUME DataAssumption ==
  /\ Canonical \in [Link -> Url \cup {Malformed}]
  /\ Malformed \notin Url
  /\ None \notin Url
  /\ Info \in [Url -> UrlInfo]
  /\ IsFiniteSet(Url)
  /\ HostRank \in [Host -> Nat]
  /\ \A g, h \in Host : HostRank[g] = HostRank[h] => g = h
  /\ Config \in ConfigType
  /\ Depths \subseteq Nat
  /\ Priorities \subseteq Int
  /\ Parents \subseteq Url \cup {None}
  /\ ReadyDelays \subseteq Nat
  /\ Reasons \subseteq FailureReasons
  /\ RetryAfters \subseteq Nat \cup {None}
  /\ None \notin Nat
  /\ MaxTime \in Nat

\* The constructor raises ValueError unless the policy accepts every seed.
ASSUME SeedAssumption ==
  /\ SeedLinks \in Seq(Link) /\ SeedLinks # << >>
  /\ SeedPriority \in Int
  /\ SeedUrls \subseteq Url
  /\ Cardinality(SeedUrls) <= Config.maxUrls
  /\ \A h \in Host : Cardinality(OnHost(SeedUrls, h)) <= Config.maxUrlsPerHost
  /\ \A u \in SeedUrls :
       /\ ~Info[u].trap
       /\ Cardinality(QueryVariants(SeedUrls, u)) <= Config.maxQueryVariants
       /\ Info[u].calendar # None =>
            Cardinality(CalendarVariants(SeedUrls, u)) <= Config.maxCalendarVariants
-----------------------------------------------------------------------------
VARIABLES
  entries,   \* _entries: the admitted URLs and their records
  hosts,     \* _hosts: per host, its two heaps, its clock and its counters
  admitted,  \* _admitted and _order
  claimed,   \* _claimed and _turn
  now        \* the clock the caller reads

frontierVars == <<entries, hosts, admitted, claimed>>
clockedVars == <<frontierVars, now>>

PendingStates == {"QUEUED", "RETRY_WAIT"}

TerminalReasons ==
  FailureReasons \cup {"SUCCEEDED", "RETRY_EXHAUSTED",
                       "GLOBAL_FETCH_BUDGET", "HOST_FETCH_BUDGET"}

Entry == [depth : Nat,
          priority : Int,
          parent : Url \cup {None},
          order : Nat,
          state : PendingStates \cup {"IN_FLIGHT", "TERMINAL"},
          attempts : Nat,
          readyAt : Nat,
          generation : Nat,
          reason : TerminalReasons \cup {None},
          answered : Nat]  \* history: the last lease whose outcome was taken

WaitingItem == [url : Url, at : Nat, generation : Nat]
ReadyItem == [url : Url, priority : Int, generation : Nat]

HostState == [waiting : SUBSET WaitingItem,
              ready : SUBSET ReadyItem,
              nextAllowed : Nat,
              lastServed : Nat \cup {-1},
              admitted : Nat,
              fetches : Nat]

Pending == {u \in DOMAIN entries : entries[u].state \in PendingStates}
InFlight == {u \in DOMAIN entries : entries[u].state = "IN_FLIGHT"}
Terminal == {u \in DOMAIN entries : entries[u].state = "TERMINAL"}
-----------------------------------------------------------------------------
EarlierOf(a, b) == IF a <= b THEN a ELSE b
LaterOf(a, b) == IF a >= b THEN a ELSE b
-----------------------------------------------------------------------------
(* Admission *)

\* _enqueue, on the record of a URL
Enqueued(e, at) ==
  [e EXCEPT !.generation = @ + 1,
            !.readyAt = at,
            !.state = IF e.attempts > 0 THEN "RETRY_WAIT" ELSE "QUEUED"]

NewEntry(d, p, par, ord, at) ==
  Enqueued([depth |-> d, priority |-> p, parent |-> par, order |-> ord,
            state |-> "QUEUED", attempts |-> 0, readyAt |-> 0,
            generation |-> 0, reason |-> None, answered |-> 0], at)

\* _enqueue, on the host's heap: the item of u's record e
Push(H, u, e) ==
  [H EXCEPT !.waiting = @ \cup {[url |-> u, at |-> e.readyAt,
                                 generation |-> e.generation]}]

Admissible(u, d) ==
  /\ u # Malformed
  /\ SameSite(Info[u].host)
  /\ u \notin DOMAIN entries
  /\ d <= Config.maxDepth
  /\ ~Trapped(DOMAIN entries, u)
  /\ admitted < Config.maxUrls
  /\ hosts[Info[u].host].admitted < Config.maxUrlsPerHost

AdmitNew(u, d, p, par, at) ==
  LET h == Info[u].host
      H == hosts[h]
      e == NewEntry(d, p, par, admitted + 1, at)
  IN /\ entries' = [v \in DOMAIN entries \cup {u} |->
                      IF v = u THEN e ELSE entries[v]]
     /\ hosts' = [hosts EXCEPT ![h] =
                    [Push(H, u, e) EXCEPT !.admitted = @ + 1]]
     /\ admitted' = admitted + 1
     /\ UNCHANGED claimed

\* A duplicate that is still pending and is now found nearer or more urgent.
Improves(u, d, p) ==
  /\ u # Malformed
  /\ SameSite(Info[u].host)
  /\ u \in Pending
  /\ d < entries[u].depth \/ p > entries[u].priority

\* Mutant: a URL that moves up keeps its old parent.
ReprioritizeOldParent(u, d, p, par, at) ==
  LET old == entries[u]
      e == Enqueued([old EXCEPT !.depth = EarlierOf(d, @), !.priority = LaterOf(p, @)],
                    EarlierOf(old.readyAt, at))
  IN /\ entries' = [entries EXCEPT ![u] = e]
     /\ hosts' = [hosts EXCEPT ![Info[u].host] = Push(@, u, e)]
     /\ UNCHANGED <<admitted, claimed>>

Reprioritize(u, d, p, par, at) ==
  LET old == entries[u]
      e == Enqueued([old EXCEPT
                       !.depth = EarlierOf(d, old.depth),
                       !.parent = IF d < old.depth THEN par ELSE old.parent,
                       !.priority = LaterOf(p, old.priority)],
                    EarlierOf(old.readyAt, at))
  IN /\ entries' = [entries EXCEPT ![u] = e]
     /\ hosts' = [hosts EXCEPT ![Info[u].host] = Push(@, u, e)]
     /\ UNCHANGED <<admitted, claimed>>

\* admit and _admit_canonical.  A rejection only moves metrics.
Admit(link, d, p, par, at) ==
  LET u == Canonical[link]
  IN \/ Admissible(u, d) /\ AdmitNew(u, d, p, par, at)
     \/ Improves(u, d, p) /\ Reprioritize(u, d, p, par, at)
     \/ /\ ~Admissible(u, d) /\ ~Improves(u, d, p)
        /\ UNCHANGED frontierVars
-----------------------------------------------------------------------------
(* Termination of records *)

Terminated(e, reason) == [e EXCEPT !.state = "TERMINAL",
                                   !.reason = reason,
                                   !.generation = @ + 1]

\* Mutant: leases in flight are terminated as well.
PendingTerminatedAll(H, reason) ==
  [u \in DOMAIN entries |->
     IF u \notin Terminal /\ Info[u].host \in H
     THEN Terminated(entries[u], reason)
     ELSE entries[u]]

\* _terminate_pending on the hosts of H
PendingTerminated(H, reason) ==
  [u \in DOMAIN entries |->
     IF u \in Pending /\ Info[u].host \in H
     THEN Terminated(entries[u], reason)
     ELSE entries[u]]

CancelPending ==
  /\ entries' = PendingTerminated(Host, "CANCELLED")
  /\ UNCHANGED <<hosts, admitted, claimed>>
-----------------------------------------------------------------------------
(* Claims *)

\* Mutant: the generation is not compared.
LiveByState(item) == entries[item.url].state \in PendingStates

\* The lazy-deletion test: the item is the last one pushed for a pending URL.
Live(item) == /\ entries[item.url].generation = item.generation
              /\ entries[item.url].state \in PendingStates

\* _promote_ready
Promoted(H, t) ==
  LET due == {i \in H.waiting : i.at <= t}
  IN [H EXCEPT !.waiting = @ \ due,
               !.ready = @ \cup {[url |-> i.url,
                                  priority |-> entries[i.url].priority,
                                  generation |-> i.generation] :
                                   i \in {j \in due : Live(j)}}]

\* The order of the ready heap: (-priority, order, generation, url)
ReadyBefore(i, j) ==
  \/ i.priority > j.priority
  \/ /\ i.priority = j.priority
     /\ \/ entries[i.url].order < entries[j.url].order
        \/ /\ entries[i.url].order = entries[j.url].order
           /\ i.generation < j.generation

\* _peek_ready: pops stale items until a live one is on top.
Peeked(H) ==
  [H EXCEPT !.ready = {i \in @ : \/ Live(i)
                                 \/ \E j \in @ : Live(j) /\ ReadyBefore(j, i)}]

HeapTop(ready) == CHOOSE i \in ready :
                    \A j \in ready \ {i} : ReadyBefore(i, j)

\* Mutant: off by one.
ExhaustedLate(h) == hosts[h].fetches > HostFetchLimit

Exhausted(h) == hosts[h].fetches >= HostFetchLimit

Scanned(h, t) == Peeked(Promoted(hosts[h], t))

Candidates(t) == {h \in Host : /\ ~Exhausted(h)
                               /\ Scanned(h, t).ready # {}
                               /\ hosts[h].nextAllowed <= t}

\* Mutant: priority before turns.
ServedBeforeByPriority(g, h) ==
  LET pg == HeapTop(Scanned(g, now).ready).priority
      ph == HeapTop(Scanned(h, now).ready).priority
  IN pg > ph \/ (pg = ph /\ HostRank[g] < HostRank[h])

\* The order of candidate hosts: (last served turn, -priority, host name)
ServedBefore(g, h) ==
  LET pg == HeapTop(Scanned(g, now).ready).priority
      ph == HeapTop(Scanned(h, now).ready).priority
  IN \/ hosts[g].lastServed < hosts[h].lastServed
     \/ /\ hosts[g].lastServed = hosts[h].lastServed
        /\ pg > ph \/ (pg = ph /\ HostRank[g] < HostRank[h])

\* The global fetch budget is spent: everything pending is given up.
ClaimOverBudget ==
  /\ claimed >= GlobalFetchLimit
  /\ entries' = PendingTerminated(Host, "GLOBAL_FETCH_BUDGET")
  /\ UNCHANGED <<hosts, admitted, claimed>>

\* One pass over the hosts: heaps advance, hosts out of budget are drained.
ScannedHosts == [h \in Host |-> IF Exhausted(h) THEN hosts[h] ELSE Scanned(h, now)]

\* Mutant: hosts out of budget are skipped but not drained.
DrainedEntriesNone == entries

DrainedEntries ==
  PendingTerminated({h \in Host : Exhausted(h)}, "HOST_FETCH_BUDGET")

ClaimNothing ==
  /\ claimed < GlobalFetchLimit
  /\ Candidates(now) = {}
  /\ hosts' = ScannedHosts
  /\ entries' = DrainedEntries
  /\ UNCHANGED <<admitted, claimed>>

SelectedHost == CHOOSE h \in Candidates(now) :
                  \A g \in Candidates(now) \ {h} : ServedBefore(h, g)

\* The record of the host whose ready item top is leased.
LeasedHost(H, top) ==
  [H EXCEPT !.ready = @ \ {top},
            !.fetches = @ + 1,
            !.lastServed = claimed,
            !.nextAllowed = LaterOf(@, now + Config.hostDelay)]

ClaimLease ==
  /\ claimed < GlobalFetchLimit
  /\ Candidates(now) # {}
  /\ LET h == SelectedHost
         top == HeapTop(Scanned(h, now).ready)
     IN /\ entries' = [DrainedEntries EXCEPT
                         ![top.url].state = "IN_FLIGHT",
                         ![top.url].attempts = @ + 1]
        /\ hosts' = [ScannedHosts EXCEPT ![h] = LeasedHost(@, top)]
  /\ claimed' = claimed + 1
  /\ UNCHANGED admitted

Claim == ClaimOverBudget \/ ClaimNothing \/ ClaimLease
-----------------------------------------------------------------------------
(* Outcomes of leases *)

\* Mutant: only the attempt is compared.
HoldsByAttempt(u, attempt) == entries[u].attempts = attempt

\* _resolve_lease: the attempt-th lease of u is the one in flight.  Any other
\* lease is stale: StaleLeaseError, and nothing changes.
Holds(u, attempt) == /\ u \in InFlight
                     /\ entries[u].attempts = attempt

\* What the caller reports is the outcome of the attempt-th lease of e.
Answered(e, attempt) == [e EXCEPT !.answered = attempt]

Settled(e, attempt, reason) == Terminated(Answered(e, attempt), reason)

Finish(u, attempt, reason) ==
  /\ entries' = [entries EXCEPT ![u] = Settled(@, attempt, reason)]
  /\ UNCHANGED <<hosts, admitted, claimed>>

Succeed(u, attempt) == Holds(u, attempt) /\ Finish(u, attempt, "SUCCEEDED")

FailPermanently(u, attempt, reason) ==
  Holds(u, attempt) /\ Finish(u, attempt, reason)

FailExhausted(u, attempt) ==
  /\ Holds(u, attempt)
  /\ entries[u].attempts >= Config.maxAttemptsPerUrl
  /\ Finish(u, attempt, "RETRY_EXHAUSTED")

\* The delay before the next attempt: exponential, and at least Retry-After.
Backoff(attempts) == EarlierOf(Config.maxRetryDelay,
                               Config.backoffBase * 2^EarlierOf(attempts - 1, 62))

RetryAfterSeconds(ra) == IF ra = None THEN 0 ELSE EarlierOf(Config.maxRetryDelay, ra)

RetryDelay(attempts, ra) ==
  EarlierOf(Config.maxRetryDelay, LaterOf(Backoff(attempts), RetryAfterSeconds(ra)))

FailRetry(u, attempt, ra) ==
  /\ Holds(u, attempt)
  /\ entries[u].attempts < Config.maxAttemptsPerUrl
  /\ LET e == Enqueued(Answered(entries[u], attempt), now + RetryDelay(attempt, ra))
         H == hosts[Info[u].host]
         allowed == IF ra = None THEN H.nextAllowed
                    ELSE LaterOf(H.nextAllowed, now + RetryAfterSeconds(ra))
     IN /\ entries' = [entries EXCEPT ![u] = e]
        /\ hosts' = [hosts EXCEPT ![Info[u].host] =
                       [Push(H, u, e) EXCEPT !.nextAllowed = allowed]]
  /\ UNCHANGED <<admitted, claimed>>

Resolve(u, attempt) ==
  \/ Succeed(u, attempt)
  \/ \E reason \in Reasons : FailPermanently(u, attempt, reason)
  \/ FailExhausted(u, attempt)
  \/ \E ra \in RetryAfters : FailRetry(u, attempt, ra)
-----------------------------------------------------------------------------
(* next_wake_at: the earliest time at which a claim could find work *)

\* Stale items are popped off the waiting heap up to the first live one.
Pruned(H) ==
  IF H.ready # {} THEN H
  ELSE [H EXCEPT !.waiting =
          {i \in @ : \/ Live(i)
                     \/ \E j \in @ : /\ Live(j)
                                     /\ \/ j.at < i.at
                                        \/ /\ j.at = i.at
                                           /\ \/ entries[j.url].order < entries[i.url].order
                                              \/ /\ j.url = i.url
                                                 /\ j.generation < i.generation}]

\* Mutant: the host's politeness clock is ignored.
WakeTimesImpolite(h) ==
  LET H == Scanned(h, now)
      times == IF H.ready # {} THEN {now}
               ELSE {i.at : i \in {j \in H.waiting : Live(j)}}
  IN {t \in times : \A r \in times : t <= r}

WakeTimes(h) ==
  LET H == Scanned(h, now)
      times == IF H.ready # {} THEN {now}
               ELSE {i.at : i \in {j \in H.waiting : Live(j)}}
  IN {LaterOf(t, hosts[h].nextAllowed) :
        t \in {s \in times : \A r \in times : s <= r}}

AllWakeTimes == UNION {WakeTimes(h) : h \in Host}

NextWakeAt ==
  /\ hosts' = [h \in Host |-> Pruned(Scanned(h, now))]
  /\ UNCHANGED <<entries, admitted, claimed>>
-----------------------------------------------------------------------------
\* CrawlFrontier.__init__: seeds are admitted in order at depth 0.
FirstSeed(u) == CHOOSE i \in DOMAIN SeedLinks :
                  /\ Canonical[SeedLinks[i]] = u
                  /\ \A j \in 1 .. i - 1 : Canonical[SeedLinks[j]] # u

SeedOrder(u) == Cardinality({v \in SeedUrls : FirstSeed(v) <= FirstSeed(u)})

SeedEntries ==
  [u \in SeedUrls |-> NewEntry(0, SeedPriority, None, SeedOrder(u), 0)]

SeedHosts ==
  [h \in Host |->
     [waiting |-> {[url |-> u, at |-> 0, generation |-> 1] :
                     u \in OnHost(SeedUrls, h)},
      ready |-> {},
      nextAllowed |-> 0,
      lastServed |-> -1,
      admitted |-> Cardinality(OnHost(SeedUrls, h)),
      fetches |-> 0]]

FrontierInit ==
  /\ entries = SeedEntries
  /\ hosts = SeedHosts
  /\ admitted = Cardinality(SeedUrls)
  /\ claimed = 0
  /\ now = 0

\* The caller's clock.  It passes freely up to MaxTime, and after that only
\* while some host has work to wake up for.
Tick == /\ now < MaxTime \/ \E t \in AllWakeTimes : t > now
        /\ now' = now + 1
        /\ UNCHANGED frontierVars

AdmitSome ==
  /\ \E link \in Link, d \in Depths, p \in Priorities, par \in Parents,
        delay \in ReadyDelays : Admit(link, d, p, par, now + delay)
  /\ UNCHANGED now

ResolveSome ==
  /\ \E u \in DOMAIN entries : \E attempt \in 1 .. entries[u].attempts :
        Resolve(u, attempt)
  /\ UNCHANGED now

FrontierNext ==
  \/ AdmitSome
  \/ Claim /\ UNCHANGED now
  \/ ResolveSome
  \/ CancelPending /\ UNCHANGED now
  \/ NextWakeAt /\ UNCHANGED now
  \/ Tick

FrontierSpec == FrontierInit /\ [][FrontierNext]_clockedVars
=============================================================================
