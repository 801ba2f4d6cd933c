---------------------------- MODULE RobotsPolicy ----------------------------
(***************************************************************************)
(* The policy service of a recursive crawl: class RobotsPolicyService of   *)
(* src/app/services/robots.py.  Checks for one origin share one fetch of   *)
(* its robots.txt, and what it yields is cached for a time that depends on *)
(* the outcome.                                                            *)
(*                                                                         *)
(* Everything runs on one asyncio loop, and the sections under the lock    *)
(* hold no await: each of them is part of the step that enters it.  The    *)
(* product token is the same for every check, so the origin is the key.    *)
(***************************************************************************)
EXTENDS RobotsRules, FiniteSets

CONSTANTS
  Check,           \* calls of check
  Asks,            \* the URL that each of them asks for
  Origin,
  Path,
  Files,           \* the robots.txt files an origin may serve
  Ttl,             \* lifetime of a policy, by kind
  CacheEntries,    \* cache_max_entries
  MaxConcurrency,
  MaxTime          \* bound of the clock

\* A page URL in canonical form.  (Of other URLs, check denies what cannot be
\* canonicalized and allows a robots.txt, and touches no state.)
Ask == [origin : Origin, path : Path]

\* The outcome of a fetch: a parsed file, no file (404, 410, other 4xx), or an
\* error of any kind, a deadline, a bad redirect and a file too complex among them.
Kinds == {"rules", "missing", "error"}
Policy == [kind : Kinds, file : Files \cup {<< >>}]

ASSUME RobotsAssumption ==
  /\ Asks \in [Check -> Ask]
  /\ Ttl \in [Kinds -> Nat \ {0}]
  /\ CacheEntries \in Nat \ {0}
  /\ MaxConcurrency \in Nat \ {0}
  /\ MaxTime \in Nat

VARIABLES
  clock,
  checks,    \* per check: where it is, its flight and its outcome
  flights,   \* every fetch ever started, in order of creation
  registry,  \* _flights: those that a check can join
  cache,     \* _cache, least recently used first
  closing    \* where close is

vars == <<clock, checks, flights, registry, cache, closing>>

ActiveStates == {"created", "queued", "fetching", "cancelling", "stillborn"}
Flight == [origin : Origin,
           state : ActiveStates \cup {"done", "cancelled"},
           waiters : Nat,
           holds : BOOLEAN,        \* a permit of the semaphore
           policy : Policy,
           ended : Nat]            \* when its policy was obtained (history)
CheckState == [at : {"new", "waiting", "releasing", "done"},
               flight : Nat,
               outcome : {"none", "allowed", "denied", "refused", "cancelled", "aborted"}]
Entry == [origin : Origin, policy : Policy, expires : Nat]

Active == {f \in DOMAIN flights : flights[f].state \in ActiveStates}
Waiting(f) == {c \in Check : checks[c].at = "waiting" /\ checks[c].flight = f}

NoPolicy == [kind |-> "error", file |-> << >>]

Init ==
  /\ clock = 0
  /\ checks = [c \in Check |-> [at |-> "new", flight |-> 0, outcome |-> "none"]]
  /\ flights = << >>
  /\ registry = {}
  /\ cache = << >>
  /\ closing = "no"
-----------------------------------------------------------------------------
(* _Policy.decide *)

Verdict == [file \in Files |-> [path \in Path |-> Allows(ParsedRules(file), path)]]

\* Mutant: what is not known is not denied.
PermitsUnlessRuled(policy, path) == policy.kind # "rules" \/ Verdict[policy.file][path]

Permits(policy, path) ==
  \/ policy.kind = "missing"
  \/ policy.kind = "rules" /\ Verdict[policy.file][path]

Ends(c, outcome) == checks' = [checks EXCEPT ![c].at = "done", ![c].outcome = outcome]

Decide(c, policy) == Ends(c, IF Permits(policy, Asks[c].path) THEN "allowed" ELSE "denied")
-----------------------------------------------------------------------------
(* check *)

CheckClosed(c) ==
  /\ checks[c].at = "new"
  /\ closing # "no"
  /\ Ends(c, "refused")
  /\ UNCHANGED <<clock, flights, registry, cache, closing>>

Fresh(entry) == entry.expires > clock

\* The origin is the key: an origin has one entry or none.
EntriesOf(origin) == {i \in DOMAIN cache : cache[i].origin = origin}
Without(origin) == IF EntriesOf(origin) = {} THEN cache
                   ELSE RemoveAt(cache, CHOOSE i \in EntriesOf(origin) : TRUE)

CheckCached(c) ==
  /\ checks[c].at = "new"
  /\ closing = "no"
  /\ \E i \in EntriesOf(Asks[c].origin) :
       /\ Fresh(cache[i])
       /\ Decide(c, cache[i].policy)
       /\ cache' = Append(Without(cache[i].origin), cache[i])
  /\ UNCHANGED <<clock, flights, registry, closing>>

\* An expired entry is dropped; the fetch in progress is joined, or one started.
CheckLive(c) ==
  LET origin == Asks[c].origin
      Joins(f) == checks' = [checks EXCEPT ![c].at = "waiting", ![c].flight = f]
  IN /\ checks[c].at = "new"
     /\ closing = "no"
     /\ \A i \in EntriesOf(origin) : ~Fresh(cache[i])
     /\ cache' = Without(origin)
     /\ \/ \E f \in registry :
             /\ flights[f].origin = origin
             /\ flights' = [flights EXCEPT ![f].waiters = @ + 1]
             /\ Joins(f)
             /\ UNCHANGED registry
        \/ /\ \A f \in registry : flights[f].origin # origin
           /\ flights' = Append(flights, [origin |-> origin, state |-> "created", waiters |-> 1,
                                          holds |-> FALSE, policy |-> NoPolicy, ended |-> 0])
           /\ registry' = registry \cup {Len(flights) + 1}
           /\ Joins(Len(flights) + 1)
     /\ UNCHANGED <<clock, closing>>

\* The shielded fetch is done; one that was cancelled raises CancelledError.
\* Releasing a flight that left the registry does nothing.
Deliver(c) ==
  LET f == checks[c].flight
  IN /\ checks[c].at = "waiting"
     /\ f \notin Active
     /\ IF flights[f].state = "done" THEN Decide(c, flights[f].policy) ELSE Ends(c, "aborted")
     /\ flights' = IF f \in registry THEN [flights EXCEPT ![f].waiters = @ - 1] ELSE flights
     /\ UNCHANGED <<clock, registry, cache, closing>>

\* Mutant: the last waiter is missed.
NoWaiterLeft(f) == flights[f].waiters <= 0 /\ f \in Active

LastWaiterLeaves(f) == flights[f].waiters <= 1 /\ f \in Active

\* The caller is cancelled while it waits: _release_waiter.  Its wake-up is
\* served after the first step of the flight that it waits for.
CancelWaiting(c) ==
  LET f == checks[c].flight
  IN /\ checks[c].at = "waiting"
     /\ flights[f].state \notin {"created", "stillborn"}
     /\ \/ f \notin registry /\ Ends(c, "cancelled") /\ UNCHANGED flights
        \/ /\ f \in registry
           /\ ~LastWaiterLeaves(f)
           /\ flights' = [flights EXCEPT ![f].waiters = @ - 1]
           /\ Ends(c, "cancelled")
        \/ /\ f \in registry
           /\ LastWaiterLeaves(f)
           /\ flights' = [flights EXCEPT ![f].waiters = 0, ![f].state = "cancelling"]
           /\ checks' = [checks EXCEPT ![c].at = "releasing"]
     /\ UNCHANGED <<clock, registry, cache, closing>>

\* The cancelled fetch has ended, or the caller is cancelled again meanwhile.
Released(c) ==
  /\ checks[c].at = "releasing"
  /\ checks[c].flight \notin Active
  /\ Ends(c, "cancelled")
  /\ UNCHANGED <<clock, flights, registry, cache, closing>>

CancelReleasing(c) ==
  /\ checks[c].at = "releasing"
  /\ Ends(c, "cancelled")
  /\ UNCHANGED <<clock, flights, registry, cache, closing>>
-----------------------------------------------------------------------------
(* _fetch_and_cache: the task of a flight *)

Holders == {f \in DOMAIN flights : flights[f].holds}
Queued == {f \in DOMAIN flights : flights[f].state = "queued"}

\* The first step gets as far as the semaphore, which serves those that wait
\* for it in their order.
Begin(f) ==
  /\ flights[f].state = "created"
  /\ flights' = [flights EXCEPT ![f].state = "queued"]
  /\ UNCHANGED <<clock, checks, registry, cache, closing>>

Acquire(f) ==
  /\ flights[f].state = "queued"
  /\ \A g \in Queued : f <= g
  /\ Cardinality(Holders) < MaxConcurrency
  /\ flights' = [flights EXCEPT ![f].state = "fetching", ![f].holds = TRUE]
  /\ UNCHANGED <<clock, checks, registry, cache, closing>>

\* Mutant: the permit of a cancelled fetch is not given back.
EndedHolding(f, state) == [flights EXCEPT ![f].state = state, ![f].holds = state = "cancelled"]

Ended(f, state) == [flights EXCEPT ![f].state = state, ![f].holds = FALSE]

\* Beyond cache_max_entries, those that were not used for longest go.
Evicted(entries) ==
  IF Len(entries) > CacheEntries THEN SubSeq(entries, Len(entries) - CacheEntries + 1, Len(entries))
                                 ELSE entries

Cached(origin, policy) ==
  Evicted(Append(Without(origin), [origin |-> origin, policy |-> policy,
                                   expires |-> clock + Ttl[policy.kind]]))

\* What _fetch_policy returns: every exception but a cancellation is an error
\* policy, and so is a file beyond the parser's limits.
Answers == {NoPolicy, [NoPolicy EXCEPT !.kind = "missing"]}
             \cup {[kind |-> "rules", file |-> file] : file \in {g \in Files : ~TooComplex(g)}}

FetchEnds(f) ==
  /\ flights[f].state = "fetching"
  /\ \E policy \in Answers :
       /\ flights' = [Ended(f, "done") EXCEPT ![f].policy = policy, ![f].ended = clock]
       /\ cache' = Cached(flights[f].origin, policy)
  /\ registry' = registry \ {f}
  /\ UNCHANGED <<clock, checks, closing>>

\* A cancelled fetch ends after its cleanup.
CancelEnds(f) ==
  /\ flights[f].state = "cancelling"
  /\ flights' = Ended(f, "cancelled")
  /\ registry' = registry \ {f}
  /\ UNCHANGED <<clock, checks, cache, closing>>

\* A task cancelled before its first step never enters its try block.
EndStillborn(f) ==
  /\ flights[f].state = "stillborn"
  /\ flights' = Ended(f, "cancelled")
  /\ UNCHANGED <<clock, checks, registry, cache, closing>>
-----------------------------------------------------------------------------
(* close *)

StartClose ==
  /\ closing = "no"
  /\ closing' = "draining"
  /\ cache' = << >>
  /\ flights' = [f \in DOMAIN flights |->
                   IF f \notin registry THEN flights[f]
                   ELSE [flights[f] EXCEPT !.state =
                           IF @ = "created" THEN "stillborn" ELSE "cancelling"]]
  /\ UNCHANGED <<clock, checks, registry>>

EndClose ==
  /\ closing = "draining"
  /\ registry \cap Active = {}
  /\ closing' = "done"
  /\ registry' = {}
  /\ UNCHANGED <<clock, checks, flights, cache>>

Tick ==
  /\ clock < MaxTime
  /\ clock' = clock + 1
  /\ UNCHANGED <<checks, flights, registry, cache, closing>>
-----------------------------------------------------------------------------
CheckStep(c) == \/ CheckClosed(c) \/ CheckCached(c) \/ CheckLive(c)
                \/ Deliver(c) \/ Released(c)

FlightStep(f) == Begin(f) \/ Acquire(f) \/ FetchEnds(f) \/ CancelEnds(f) \/ EndStillborn(f)

Next ==
  \/ \E c \in Check : CheckStep(c) \/ CancelWaiting(c) \/ CancelReleasing(c)
  \/ \E f \in DOMAIN flights : FlightStep(f)
  \/ StartClose \/ EndClose \/ Tick

Spec == Init /\ [][Next]_vars

\* The loop resumes what can proceed, and every fetch has a deadline.  Nobody
\* has to cancel a check or close the service.
Fairness ==
  /\ \A c \in Check : WF_vars(CheckStep(c))
  /\ \A f \in 1 .. Cardinality(Check) : WF_vars(f \in DOMAIN flights /\ FlightStep(f))
  /\ WF_vars(EndClose)

FairSpec == Spec /\ Fairness
=============================================================================
