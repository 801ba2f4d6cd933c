----------------------- MODULE SingleFlightProperties -----------------------
(***************************************************************************)
(* What the sharing of live crawls owes the requests, the cache and the    *)
(* process.                                                                *)
(***************************************************************************)
EXTENDS SingleFlight

\* Every variable has its type.
TypeOK ==
  /\ accepting \in BOOLEAN
  /\ shutdown \in {"no", "draining", "done"}
  /\ requests \in [Request -> RequestState]
  /\ flights \in Seq(Flight)
  /\ registry \subseteq DOMAIN flights
  /\ draining \subseteq DOMAIN flights
  /\ cache \subseteq [page : Page, flight : DOMAIN flights]

\* Coalescing is exact: the registry holds every unfinished flight and, until
\* shutdown, no other; two unfinished flights never crawl for the same key; and
\* the waiter count of a flight in it is the number of requests that wait.
RegistryExact ==
  /\ Active \subseteq registry
  /\ shutdown = "no" => registry = Active
  /\ \A f, g \in Active : flights[f].key = flights[g].key => f = g
  /\ \A f \in registry : flights[f].waiters = Cardinality(Waiting(f))

\* Work nobody waits for does not go on: an unfinished flight is being
\* cancelled or has a waiter.
NoOrphanWork ==
  \A f \in Active : flights[f].state = "cancelling" \/ Waiting(f) # {}

\* A request that may not write is never served by, nor waits for, a flight
\* that wrote; one that carries a policy hits no cache entry; and requests that
\* one flight serves have the same permissions, those its result states to all
\* of them, and no policy: each policy judges a crawl of its own.
\* (flight_key, crawler.py:435, and _apply_cache_policy_receipt)
CachePolicyKept ==
  \A r \in Request :
    /\ \A e \in cache : requests[r].flight = e.flight => CacheWritePermitted(r)
    /\ Asks[r].policy => requests[r].outcome # "hit"
    /\ \A q \in Request \ {r} :
         requests[q].flight = requests[r].flight /\ requests[r].flight # 0 =>
           /\ CacheReadPermitted(q) = CacheReadPermitted(r)
           /\ CacheWritePermitted(q) = CacheWritePermitted(r)
           /\ ~Asks[q].policy

\* A flight starts to be cancelled when nobody waits for it any longer, or by
\* shutdown.
CancelledUnwaited ==
  \A f \in Active : /\ flights[f].state # "cancelling"
                    /\ flights'[f].state = "cancelling"
                    /\ shutdown' = shutdown
                    => Waiting(f)' = {}

\* A flight that others still wait for is never cancelled by a client going
\* away: only shutdown cancels it.
WaitersProtected == [][CancelledUnwaited]_vars

\* No request hangs on a flight, whatever is cancelled and when.
EveryRequestEnds ==
  \A r \in Request : (requests[r].at # "absent") ~> (requests[r].at = "done")

\* The comment of _release_flight_waiter: when the last waiter leaves, "No
\* client can observe or benefit from the work any longer."  A request that
\* nobody cancelled is thus never aborted, unless by shutdown.
NoForeignCancellation ==
  \A r \in Request : requests[r].outcome = "aborted" => shutdown # "no"

\* The docstring of shutdown_crawler: "Stop admission, cancel active
\* singleflights, and drain their cleanup."
ShutdownDrains == shutdown = "done" => Active = {}
-----------------------------------------------------------------------------
(* The inductive invariant behind these properties.                        *)

\* A request waits for, and was served by, a flight of its own key.
RequestsKeyed ==
  \A r \in Request :
    LET f == requests[r].flight
    IN /\ f # 0 => f \in DOMAIN flights /\ flights[f].key = FlightKey(r)
       /\ requests[r].at \in {"waiting", "releasing"} => f # 0

\* Only requests that may read the cache do.
ReadersPermitted ==
  \A r \in Request : requests[r].at = "reading" \/ requests[r].outcome = "hit"
                       => CacheReadPermitted(r)

\* Only flights that may write the cache do.
WritersPermitted ==
  /\ \A f \in DOMAIN flights : flights[f].state = "storing" => flights[f].key.write
  /\ \A e \in cache : flights[e.flight].key.write

\* Only shutdown cancels a flight before its first step.
StillbornAtShutdown ==
  \A f \in DOMAIN flights : flights[f].state = "stillborn" => shutdown # "no"

FlightInv == /\ TypeOK /\ RequestsKeyed /\ ReadersPermitted /\ WritersPermitted
             /\ StillbornAtShutdown /\ RegistryExact /\ NoOrphanWork
=============================================================================
