------------------------ MODULE RequestPathProperties ------------------------
(***************************************************************************)
(* What admission, permits and the quality path owe a request, the         *)
(* process, and each other.                                                *)
(***************************************************************************)
EXTENDS RequestPath

TypeOK ==
  /\ active \in Int /\ permits \in Int /\ qpermits \in Int
  /\ served \in [Request -> Served]
  /\ line \in Seq(Page) /\ threads \in [Page -> Nat]
  /\ extraction \in [Page -> Extraction]
  /\ clock \in 0 .. MaxTime
  /\ breaker \in Breaker
  /\ closed \in {"no", "draining", "closed"}
  /\ taken \in 0 .. MaxConcurrency
  /\ available \in Seq(Runtime)
  /\ runtimes \in [Runtime -> [cancel : BOOLEAN, call : Call \cup {0}]]
  /\ calls \in [Call -> CallState]
  /\ workers \in [Call -> Worker]
  /\ stage \in [Request -> Stages]

\* Slots are counted exactly: each request past admission holds one until it has
\* ended, one that was refused never does, and there are no more than configured.
SlotsExact ==
  /\ active = Cardinality({r \in Request : served[r].admitted})
  /\ \A r \in Request : served[r].admitted <=> served[r].at \in {"body", "app", "sending"}
  /\ active <= MaxActive

\* A request is answered at most once, however its deadline, its cancellation
\* and its own response meet; and only a cancelled one ends without an answer.
AnsweredOnce ==
  \A r \in Request :
    /\ served[r].answers <= 1
    /\ served[r].at = "done" => served[r].answers = 1

\* The comment of _parallel_extract: "cancellation floods cannot exceed the
\* configured CPU concurrency".  Permits and the pages at whose work threads are
\* always make up the whole, so requests that have left count to their last thread.
WorkersBounded == /\ permits + Cardinality(Busy) = MaxExtractions
                  /\ permits >= 0

\* The runtimes that a thread leases.
Leasing == {c \in Call : workers[c].at \in {"starting", "calling", "returned"}}

\* A permit stands for a runtime to lease, no runtime is leased twice, and the
\* half-open flag, which shuts out every other call, is only ever set while a
\* probe is under way to clear it.
QualitySound ==
  /\ qpermits + taken + Cardinality(Leasing) = MaxConcurrency
  /\ Len(available) = qpermits + taken
  /\ \A c \in Leasing : workers[c].runtime \notin {available[i] : i \in DOMAIN available}
  /\ \A c, d \in Leasing : workers[c].runtime = workers[d].runtime => c = d
  /\ breaker.probing => \E c \in Call : calls[c].probe /\ calls[c].at # "none"

\* I/O that no call awaits any longer has been cancelled, also if the call left
\* before it was submitted.
OrphansCancelled ==
  \A c \in Call : workers[c].at = "calling" /\ calls[c].at = "none" => workers[c].cancelled

PathInv == TypeOK /\ SlotsExact /\ AnsweredOnce /\ QualitySound /\ OrphansCancelled

\* Whatever is refused, times out, is cancelled or fails, in the end every slot,
\* permit and runtime is back, or with the closed extractor.
NothingLeaks ==
  <>[](/\ active = 0
       /\ permits = MaxExtractions
       /\ qpermits + taken = MaxConcurrency
       /\ ~breaker.probing)
=============================================================================
