----------------------- MODULE RecursiveJobProperties -----------------------
(***************************************************************************)
(* What one recursive crawl owes its caller and the rest of the process.   *)
(***************************************************************************)
EXTENDS RecursiveJob

\* Every variable of the job has its type.
JobTypeOK ==
  /\ pc \in {"fill", "retire", "admit", "yield", "refill", "wait", "drain",
             "returned", "raised"}
  /\ DOMAIN live \subseteq 0 .. MaxPages - 1
  /\ \A o \in DOMAIN live : live[o] \in Task
  /\ watched \subseteq 0 .. MaxPages - 1
  /\ link \in Nat
  /\ \A i \in DOMAIN results : results[i] \in [url : Url, order : Nat, outcome : Outcome]

\* At no time do more page tasks run than the job's concurrency, even though
\* finished tasks wait for older ones in the reorder buffer; and the buffer
\* itself stays within the page budget.  (_fill_capacity)
TasksBounded == /\ Cardinality(Running) <= Concurrency
                /\ Cardinality(DOMAIN live) + Len(results) <= MaxPages

\* Leases and tasks match one to one: every URL in flight has exactly one task,
\* and every task holds a lease in flight, except the page whose links are
\* being admitted.  A URL is never fetched twice.
LeasesHaveTasks ==
  /\ \A o, q \in DOMAIN live : live[o].url = live[q].url => o = q
  /\ {live[o].url : o \in DOMAIN live} =
       InFlight \cup (IF pc \in {"admit", "yield"} THEN {live[Oldest].url} ELSE {})
       \/ pc = "drain"

JobInv == JobTypeOK /\ LeasesHaveTasks /\ TasksBounded

\* Results are retired in claim order with no gap: what is live is exactly what
\* was claimed and not yet retired, whatever the order of completion.
RetiredInClaimOrder ==
  /\ \A i \in DOMAIN results : results[i].order = i - 1
  /\ pc # "raised" => DOMAIN live = Len(results) .. claimed - 1

\* A job that returns has one result for every URL it ever admitted: no page is
\* left pending, none is dropped by a fetch budget, none is reported twice, and
\* the record of each agrees with its result.
ReturnsEveryPage ==
  pc = "returned" =>
    /\ {results[i].url : i \in DOMAIN results} = DOMAIN entries
    /\ Len(results) = Cardinality(DOMAIN entries)
    /\ \A i \in DOMAIN results :
         entries[results[i].url].reason = ReasonOf[results[i].outcome]

\* Discovery is sound: a page that is not a seed was found on a page that
\* succeeded, one level above it, and claimed before it.
FoundOnParent ==
  \A u \in DOMAIN entries :
    LET par == entries[u].parent
    IN IF par = None
       THEN u \in SeedUrls /\ entries[u].depth = 0
       ELSE /\ par \in Terminal
            /\ entries[par].reason = "SUCCEEDED"
            /\ entries[u].depth = entries[par].depth + 1
            /\ \E i \in DOMAIN PageLinks[par] : Canonical[PageLinks[par][i]] = u

\* After a cancelled job nothing keeps running and no record is left open.
CancelledIsClean ==
  pc = "raised" => live = << >> /\ DOMAIN entries = Terminal

\* Every job ends, whatever its pages do.
JobEnds == <>(pc \in {"returned", "raised"})
=============================================================================
