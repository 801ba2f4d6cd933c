----------------------------- MODULE RateLimiter -----------------------------
(***************************************************************************)
(* The per-domain buckets of src/app/services/rate_limiter.py.  At most    *)
(* MaxDomains domains have a bucket of their own, all others share one; a  *)
(* bucket is discarded for a new domain only when it is idle and drained.  *)
(*                                                                         *)
(* Time is counted in the period in which a bucket drains by one token.    *)
(***************************************************************************)
EXTENDS Integers, SequencesExt

CONSTANTS
  Domain,
  Caller,       \* tasks that ask for a token
  Burst,        \* rate_limit_burst, the capacity of a bucket
  MaxDomains    \* rate_limit_max_domains

ASSUME LimiterAssumption ==
  /\ Domain \cap {"none", "shared"} = {}
  /\ IsFiniteSet(Caller)
  /\ Burst \in Nat \ {0} /\ MaxDomains \in Nat \ {0}

VARIABLES
  limiters,     \* the keys of _limiters, the least recently used first
  level,        \* per domain with a bucket: the tokens that have not drained
  idle,         \* per such domain: the time since _last_used, up to Refill
  inUse,        \* _in_use
  shared,       \* the level of _overflow_limiter
  tickets,      \* per caller: the bucket it awaits
  spent         \* history: the level a bucket that is never discarded would have

limiterVars == <<limiters, level, idle, inUse, shared, tickets, spent>>

Refill == Burst   \* refill_period

LimiterInit ==
  /\ limiters = << >>
  /\ level = [d \in Domain |-> 0] /\ idle = [d \in Domain |-> 0] /\ inUse = [d \in Domain |-> 0]
  /\ shared = 0
  /\ tickets = [k \in Caller |-> "none"]
  /\ spent = [d \in Domain |-> 0]

\* Mutant: a bucket that nobody awaits counts as drained.
Unawaited(d) == inUse[d] = 0

Evictable(d) == inUse[d] = 0 /\ idle[d] = Refill

\* _evict_to_limit: the registry is never more than one bucket above the limit.
EvictedTo(limit) ==
  LET i == SelectInSeq(limiters, Evictable)
  IN IF Len(limiters) > limit /\ i > 0 THEN RemoveAt(limiters, i) ELSE limiters

\* The first part of acquire: find, create or share a bucket.  A new bucket is
\* empty, one that is discarded is gone with its level.
Register(k, d) ==
  LET known == d \in Range(limiters)
      kept  == EvictedTo(MaxDomains - 1)
      own   == known \/ Len(kept) < MaxDomains
  IN /\ tickets[k] = "none"
     /\ tickets' = [tickets EXCEPT ![k] = IF own THEN d ELSE "shared"]
     /\ limiters' = CASE known -> Append(RemoveFirst(limiters, d), d)
                      [] own /\ ~known -> Append(kept, d)
                      [] OTHER -> kept
     /\ level' = [e \in Domain |-> IF e \in Range(limiters') THEN level[e] ELSE 0]
     /\ idle' = [e \in Domain |-> IF e \in Range(limiters') \ {d} THEN idle[e] ELSE 0]
     /\ inUse' = IF own THEN [inUse EXCEPT ![d] = @ + 1] ELSE inUse
     /\ UNCHANGED <<shared, spent>>

\* The limiter has capacity; the finally block takes the caller off the bucket.
Granted(k) ==
  LET d == tickets[k]
  IN /\ d # "none"
     /\ tickets' = [tickets EXCEPT ![k] = "none"]
     /\ IF d = "shared"
        THEN /\ shared < Burst
             /\ shared' = shared + 1
             /\ UNCHANGED <<limiters, level, idle, inUse, spent>>
        ELSE /\ level[d] < Burst
             /\ level' = [level EXCEPT ![d] = @ + 1]
             /\ spent' = [spent EXCEPT ![d] = @ + 1]
             /\ idle' = [idle EXCEPT ![d] = 0]
             /\ inUse' = [inUse EXCEPT ![d] = @ - 1]
             /\ limiters' = EvictedTo(MaxDomains)
             /\ UNCHANGED shared

\* The caller is cancelled, or its deadline passes, while it waits.
GivesUp(k) ==
  LET d == tickets[k]
  IN /\ d # "none"
     /\ tickets' = [tickets EXCEPT ![k] = "none"]
     /\ inUse' = IF d = "shared" THEN inUse ELSE [inUse EXCEPT ![d] = @ - 1]
     /\ limiters' = EvictedTo(MaxDomains)
     /\ UNCHANGED <<level, idle, shared, spent>>

Less(n) == IF n = 0 THEN 0 ELSE n - 1

\* Buckets drain as time passes.
Drain ==
  /\ level' = [d \in Domain |-> Less(level[d])]
  /\ spent' = [d \in Domain |-> Less(spent[d])]
  /\ shared' = Less(shared)
  /\ idle' = [d \in Domain |-> IF d \in Range(limiters) /\ idle[d] < Refill THEN idle[d] + 1 ELSE idle[d]]
  /\ UNCHANGED <<limiters, inUse, tickets>>
=============================================================================
