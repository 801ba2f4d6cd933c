---------------------------- MODULE SingleFlight ----------------------------
(***************************************************************************)
(* Duplicate-work suppression of live crawls: _crawl_single_url and the    *)
(* flights it shares, in src/app/services/crawler.py, with the admission   *)
(* flag and the drain of shutdown_crawler.                                 *)
(*                                                                         *)
(* Everything runs on one asyncio loop.  The sections under the registry   *)
(* lock hold no await, so the lock is never contended and each of them is  *)
(* part of the step that enters it.  A request can be cancelled wherever   *)
(* it awaits: in its cache read, on its flight, and while it drains one.   *)
(***************************************************************************)
EXTENDS Integers, Sequences, FiniteSets

CONSTANTS
  Request,   \* requests for one URL with one set of crawl options each
  Page,      \* the URL and options, i.e. what a cache key stands for
  Asks,      \* what each request asks for (see Ask)
  Arrivals   \* the sets of requests that may come: the others never do

Ask == [page : Page,
        policy : BOOLEAN,    \* recursive: carries a document policy
        fresh : BOOLEAN,     \* max_age = 0 or html output: no cache read
        store : BOOLEAN]     \* store_in_cache

ASSUME AskAssumption == /\ Asks \in [Request -> Ask]
                        /\ IsFiniteSet(Request)
                        /\ 0 \notin Request
                        /\ Arrivals \subseteq SUBSET Request

CacheReadPermitted(r) == ~Asks[r].policy /\ ~Asks[r].fresh
CacheWritePermitted(r) == ~Asks[r].policy /\ Asks[r].store

\* Mutants: requests that may write share with those that may not; policies
\* share with one another.
FlightKeyNoWrite(r) == [page |-> Asks[r].page,
                        read |-> CacheReadPermitted(r),
                        write |-> TRUE,
                        policy |-> IF Asks[r].policy THEN r ELSE 0]
FlightKeyAnyPolicy(r) == [page |-> Asks[r].page,
                          read |-> CacheReadPermitted(r),
                          write |-> CacheWritePermitted(r),
                          policy |-> 0]

\* flight_key: a policy partitions flights by the identity of its callback,
\* which is private to the request; 0 is no policy.
FlightKey(r) == [page |-> Asks[r].page,
                 read |-> CacheReadPermitted(r),
                 write |-> CacheWritePermitted(r),
                 policy |-> IF Asks[r].policy THEN r ELSE 0]
-----------------------------------------------------------------------------
VARIABLES
  accepting,  \* _accepting_crawls
  shutdown,   \* where shutdown_crawler is
  draining,   \* the flights it waits for
  requests,   \* per request: where it is, its flight, and how it ended
  flights,    \* every flight ever started, in order of creation
  registry,   \* _singleflight_tasks: the flights a request can join
  cache       \* the entries of the result cache, with the flight that wrote each

vars == <<accepting, shutdown, draining, requests, flights, registry, cache>>

RequestState == [at : {"absent", "new", "reading", "waiting", "releasing", "done"},
                 flight : Nat,
                 outcome : {"none", "refused", "hit", "delivered", "cancelled", "aborted"}]

\* A flight's task is created, running, writing to the cache, being cancelled,
\* or done.  "stillborn": cancelled before its first step.
ActiveStates == {"created", "running", "storing", "cancelling", "stillborn"}
Flight == [key : {FlightKey(r) : r \in Request},
           state : ActiveStates \cup {"ended", "cancelled"},
           waiters : Nat]

Active == {f \in DOMAIN flights : flights[f].state \in ActiveStates}
Waiting(f) == {r \in Request : requests[r].at = "waiting" /\ requests[r].flight = f}

Ends(r, outcome) ==
  requests' = [requests EXCEPT ![r].at = "done", ![r].outcome = outcome]

Init ==
  /\ accepting = TRUE
  /\ shutdown = "no"
  /\ draining = {}
  /\ \E S \in Arrivals :
       requests = [r \in Request |-> [at |-> IF r \in S THEN "new" ELSE "absent",
                                      flight |-> 0, outcome |-> "none"]]
  /\ flights = << >>
  /\ registry = {}
  /\ cache = {}
-----------------------------------------------------------------------------
(* _crawl_single_url *)

WaitOn(r, f) ==
  requests' = [requests EXCEPT ![r].at = "waiting", ![r].flight = f]

\* Under the lock: join the registered flight of this key, or start one.
Join(r) ==
  \/ \E f \in registry :
       /\ flights[f].key = FlightKey(r)
       /\ flights' = [flights EXCEPT ![f].waiters = @ + 1]
       /\ WaitOn(r, f)
       /\ UNCHANGED registry
  \/ /\ \A f \in registry : flights[f].key # FlightKey(r)
     /\ flights' = Append(flights, [key |-> FlightKey(r), state |-> "created", waiters |-> 1])
     /\ registry' = registry \cup {Len(flights) + 1}
     /\ WaitOn(r, Len(flights) + 1)

Refuse(r) ==
  /\ requests[r].at = "new"
  /\ ~accepting
  /\ Ends(r, "refused")
  /\ UNCHANGED <<accepting, shutdown, draining, flights, registry, cache>>

\* accepting is tested here and not again.
StartReading(r) ==
  /\ requests[r].at = "new"
  /\ accepting
  /\ CacheReadPermitted(r)
  /\ requests' = [requests EXCEPT ![r].at = "reading"]
  /\ UNCHANGED <<accepting, shutdown, draining, flights, registry, cache>>

StartLive(r) ==
  /\ requests[r].at = "new"
  /\ accepting
  /\ ~CacheReadPermitted(r)
  /\ Join(r)
  /\ UNCHANGED <<accepting, shutdown, draining, cache>>

ReadHit(r) ==
  /\ requests[r].at = "reading"
  /\ \E e \in cache : e.page = Asks[r].page
  /\ Ends(r, "hit")
  /\ UNCHANGED <<accepting, shutdown, draining, flights, registry, cache>>

\* No entry, or one that is too old, invalid, or cannot be read.
ReadMiss(r) ==
  /\ requests[r].at = "reading"
  /\ Join(r)
  /\ UNCHANGED <<accepting, shutdown, draining, cache>>

\* The awaited flight is done.  A cancelled flight raises CancelledError in
\* the request.  Releasing a finished flight only lowers a count, if even that:
\* its registry entry is gone, except that of a stillborn one.
Deliver(r) ==
  LET f == requests[r].flight
  IN /\ requests[r].at = "waiting"
     /\ f \notin Active
     /\ Ends(r, IF flights[f].state = "cancelled" THEN "aborted" ELSE "delivered")
     /\ IF f \in registry THEN flights' = [flights EXCEPT ![f].waiters = @ - 1]
                          ELSE UNCHANGED flights
     /\ UNCHANGED <<accepting, shutdown, draining, registry, cache>>

\* The client goes away in the cache read, or while it drains a flight.
CancelIdle(r) ==
  /\ requests[r].at \in {"reading", "releasing"}
  /\ Ends(r, "cancelled")
  /\ UNCHANGED <<accepting, shutdown, draining, flights, registry, cache>>

\* Mutants: a waiter that leaves always cancels; the last one is missed.
AnyWaiterLeaves(f) == f \in Active
NoWaiterLeft(f) == flights[f].waiters <= 0 /\ f \in Active

LastWaiterLeaves(f) == flights[f].waiters <= 1 /\ f \in Active

\* The client goes away while it waits: _release_flight_waiter.  The last
\* waiter of a registered flight cancels its task and waits for it to end.
\* The loop serves callbacks first come, first served: a flight's first step is
\* scheduled before any wake-up of a request that waits for it.
CancelWaiting(r) ==
  LET f == requests[r].flight
  IN /\ requests[r].at = "waiting"
     /\ flights[f].state \notin {"created", "stillborn"}
     /\ \/ f \notin registry /\ Ends(r, "cancelled") /\ UNCHANGED flights
        \/ /\ f \in registry
           /\ ~LastWaiterLeaves(f)
           /\ flights' = [flights EXCEPT ![f].waiters = @ - 1]
           /\ Ends(r, "cancelled")
        \/ /\ f \in registry
           /\ LastWaiterLeaves(f)
           /\ flights' = [flights EXCEPT ![f].waiters = 0, ![f].state = "cancelling"]
           /\ requests' = [requests EXCEPT ![r].at = "releasing"]
     /\ UNCHANGED <<accepting, shutdown, draining, registry, cache>>

Released(r) ==
  /\ requests[r].at = "releasing"
  /\ requests[r].flight \notin Active
  /\ Ends(r, "cancelled")
  /\ UNCHANGED <<accepting, shutdown, draining, flights, registry, cache>>
-----------------------------------------------------------------------------
(* _crawl_uncached_and_cache: the task of a flight *)

Begin(f) ==
  /\ flights[f].state = "created"
  /\ flights' = [flights EXCEPT ![f].state = "running"]
  /\ UNCHANGED <<accepting, shutdown, draining, requests, registry, cache>>

\* A task cancelled before its first step never enters its try block: the
\* registry entry stays.
EndStillborn(f) ==
  /\ flights[f].state = "stillborn"
  /\ flights' = [flights EXCEPT ![f].state = "cancelled"]
  /\ UNCHANGED <<accepting, shutdown, draining, requests, registry, cache>>

\* Mutant: the entry is not retired.
RetireNothing(f, state) ==
  /\ flights' = [flights EXCEPT ![f].state = state]
  /\ UNCHANGED registry

\* The finally block retires the registry entry as the task ends.
Retire(f, state) ==
  /\ flights' = [flights EXCEPT ![f].state = state]
  /\ registry' = registry \ {f}

\* The crawl ends without a write: an exception, an error, an unstable result,
\* or a flight that may not write.  Every waiter gets a copy of what it ended with.
CrawlEnds(f) ==
  /\ flights[f].state = "running"
  /\ Retire(f, "ended")
  /\ UNCHANGED <<accepting, shutdown, draining, requests, cache>>

StartStoring(f) ==
  /\ flights[f].state = "running"
  /\ flights[f].key.write
  /\ flights' = [flights EXCEPT ![f].state = "storing"]
  /\ UNCHANGED <<accepting, shutdown, draining, requests, registry, cache>>

\* The write succeeds, or its failure is swallowed.
StoreEnds(f) ==
  /\ flights[f].state = "storing"
  /\ \/ cache' = {e \in cache : e.page # flights[f].key.page}
                   \cup {[page |-> flights[f].key.page, flight |-> f]}
     \/ UNCHANGED cache
  /\ Retire(f, "ended")
  /\ UNCHANGED <<accepting, shutdown, draining, requests>>

\* Mutant: the last waiter drains the flight while it holds the registry lock.
CancelEndsUnlocked(f) ==
  /\ flights[f].state = "cancelling"
  /\ \A r \in Request : requests[r].at # "releasing"
  /\ Retire(f, "cancelled")
  /\ UNCHANGED <<accepting, shutdown, draining, requests, cache>>

\* A cancelled task ends after the cleanup on its way out.
CancelEnds(f) ==
  /\ flights[f].state = "cancelling"
  /\ Retire(f, "cancelled")
  /\ UNCHANGED <<accepting, shutdown, draining, requests, cache>>
-----------------------------------------------------------------------------
(* shutdown_crawler *)

StartShutdown ==
  /\ shutdown = "no"
  /\ shutdown' = "draining"
  /\ accepting' = FALSE
  /\ draining' = registry
  /\ flights' = [f \in DOMAIN flights |->
                   IF f \notin registry THEN flights[f]
                   ELSE [flights[f] EXCEPT !.state =
                           IF @ = "created" THEN "stillborn" ELSE "cancelling"]]
  /\ UNCHANGED <<requests, registry, cache>>

EndShutdown ==
  /\ shutdown = "draining"
  /\ draining \cap Active = {}
  /\ shutdown' = "done"
  /\ UNCHANGED <<accepting, draining, requests, flights, registry, cache>>
-----------------------------------------------------------------------------
RequestStep(r) == \/ StartReading(r) \/ StartLive(r) \/ Refuse(r)
                  \/ ReadHit(r) \/ ReadMiss(r) \/ Deliver(r) \/ Released(r)

FlightStep(f) == Begin(f) \/ EndStillborn(f) \/ CrawlEnds(f) \/ StartStoring(f) \/ StoreEnds(f) \/ CancelEnds(f)

Next ==
  \/ \E r \in Request : RequestStep(r) \/ CancelIdle(r) \/ CancelWaiting(r)
  \/ \E f \in DOMAIN flights : FlightStep(f)
  \/ StartShutdown
  \/ EndShutdown

Spec == Init /\ [][Next]_vars

\* The loop resumes what can proceed, and crawls and cache calls end.  Nobody
\* has to cancel a request or shut the process down.
Fairness ==
  /\ \A r \in Request : WF_vars(RequestStep(r))
  /\ \A f \in 1 .. Cardinality(Request) : WF_vars(f \in DOMAIN flights /\ FlightStep(f))
  /\ WF_vars(EndShutdown)

FairSpec == Spec /\ Fairness
=============================================================================
