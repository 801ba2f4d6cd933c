--------------------------- MODULE MCSingleFlight ---------------------------
(***************************************************************************)
(* Requests for one page that differ in one permission at a time: two that *)
(* read and write the cache, one that reads but must not write, two of     *)
(* recursive jobs, each with a document policy of its own, and one without *)
(* a policy that neither reads nor writes.  Three of them come at a time.  *)
(***************************************************************************)
EXTENDS SingleFlightProperties

Flat == [page |-> "p", policy |-> FALSE, fresh |-> FALSE, store |-> TRUE]

MCAsks ==
  [r \in Request |-> CASE r \in {1, 2} -> Flat
                      [] r = 3 -> [Flat EXCEPT !.store = FALSE]
                      [] r \in {4, 5} -> [Flat EXCEPT !.policy = TRUE]
                      [] r = 6 -> [Flat EXCEPT !.fresh = TRUE, !.store = FALSE]]

MCArrivals == {{1, 2, 3}, {1, 2, 4}, {4, 5, 6}}
=============================================================================
