------------------------- MODULE RecursiveJobReplay -------------------------
(***************************************************************************)
(* The same recursive crawl run twice over the same unchanging site, with  *)
(* nothing but the time each page takes to tell the two runs apart.        *)
(***************************************************************************)
EXTENDS MCRecursiveJob

VARIABLE first  \* the URLs the first run returned, in order

replayVars == <<vars, first>>

Returned == [i \in DOMAIN results |-> results[i].url]

ReplayInit == Init /\ first = << >>

\* The first run has returned: the same request is made again.
RunAgain ==
  /\ pc = "returned" /\ first = << >>
  /\ first' = Returned
  /\ entries' = SeedEntries
  /\ hosts' = SeedHosts
  /\ admitted' = Cardinality(SeedUrls)
  /\ claimed' = 0
  /\ now' = 0
  /\ pc' = "fill"
  /\ live' = << >>
  /\ watched' = {}
  /\ link' = 0
  /\ results' = << >>

\* Nobody cancels either run.
ReplayNext ==
  \/ /\ OwnerStep \/ \E o \in DOMAIN live : TaskEnds(o)
     /\ UNCHANGED first
  \/ RunAgain

ReplaySpec == ReplayInit /\ [][ReplayNext]_replayVars

\* docs/ARCHITECTURE.md: "Completion order cannot reorder the final result
\* list."  The second run returns what the first one did, in the same order.
CompletionOrderIrrelevant ==
  pc = "returned" /\ first # << >> => Returned = first
=============================================================================
