----------------------- MODULE RobotsPolicyProperties -----------------------
(***************************************************************************)
(* What the policy service owes the checks, the origins and the lifespan.  *)
(***************************************************************************)
EXTENDS RobotsPolicy, RobotsRulesProperties

\* The greedy matcher of _glob_matches matches what the pattern covers, and
\* parse_robots_txt and evaluate decide as the file says, longest match first.
\* These facts about operators are the same in every state: they are asked once.
RulesExact == Init => MatcherExact /\ ParserExact

TypeOK ==
  /\ clock \in 0 .. MaxTime
  /\ checks \in [Check -> CheckState]
  /\ flights \in Seq(Flight)
  /\ registry \subseteq DOMAIN flights
  /\ cache \in Seq(Entry)
  /\ closing \in {"no", "draining", "done"}

\* A check waits for a fetch of its own origin.
ChecksKeyed ==
  \A c \in Check : checks[c].flight # 0 =>
    /\ checks[c].flight \in DOMAIN flights
    /\ flights[checks[c].flight].origin = Asks[c].origin

\* At most one fetch per origin is unfinished; it can be joined, its waiters are
\* those that wait, and unless it is being cancelled there is one.
FetchesShared ==
  /\ Active \subseteq registry
  /\ closing = "no" => registry = Active
  /\ closing = "done" => registry = {}
  /\ \A f, g \in Active : flights[f].origin = flights[g].origin => f = g
  /\ \A f \in registry : flights[f].waiters = Cardinality(Waiting(f))
  /\ \A f \in Active : flights[f].state = "cancelling" \/ Waiting(f) # {}

PermitsKept ==
  /\ Cardinality(Holders) <= MaxConcurrency
  /\ \A f \in DOMAIN flights :
       /\ flights[f].state = "fetching" => f \in Holders
       /\ f \in Holders => flights[f].state \in {"fetching", "cancelling"}

\* One entry per origin, for no longer than its kind of policy may be kept, and
\* none once the service closes.
CacheSound ==
  /\ Len(cache) <= CacheEntries
  /\ \A i, j \in DOMAIN cache : cache[i].origin = cache[j].origin => i = j
  /\ \A i \in DOMAIN cache : \E f \in DOMAIN flights :
       /\ flights[f].state = "done"
       /\ flights[f].origin = cache[i].origin
       /\ flights[f].policy = cache[i].policy
       /\ cache[i].expires = flights[f].ended + Ttl[cache[i].policy.kind]
  /\ closing # "no" => cache = << >>

\* Sharing, permits and cache stay exact under every interleaving of checks,
\* their cancellation, the end of fetches and close; and close drains them all.
PolicyInv == TypeOK /\ ChecksKeyed /\ FetchesShared /\ PermitsKept /\ CacheSound

\* A page is only allowed on the strength of an answer of its own origin: one
\* that this check waited for, or one that is younger than its lifetime.
\* Nothing unknown, expired, or said by another origin ever allows it.
Backed(c) ==
  \E f \in DOMAIN flights :
    /\ flights[f].state = "done"
    /\ flights[f].origin = Asks[c].origin
    /\ \/ flights[f].policy.kind = "missing"
       \/ flights[f].policy.kind = "rules" /\ Verdict[flights[f].policy.file][Asks[c].path]
    /\ checks[c].flight = f \/ clock - flights[f].ended < Ttl[flights[f].policy.kind]

AllowedNow(c) == /\ checks[c].outcome # "allowed"
                 /\ checks'[c].outcome = "allowed"

AllowsAreBacked == [][\A c \in Check : AllowedNow(c) => Backed(c)]_vars

\* No check hangs on a fetch or on the semaphore, whatever is cancelled.
EveryCheckEnds == \A c \in Check : <>(checks[c].at = "done")
=============================================================================
