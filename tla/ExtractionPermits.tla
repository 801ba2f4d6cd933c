-------------------------- MODULE ExtractionPermits --------------------------
(***************************************************************************)
(* The permits of page extraction: _await_worker_holding_permit of         *)
(* src/app/services/extractor.py.  A page waits for a permit, hands its    *)
(* work to a thread, or to several at once (_parallel_extract), and awaits *)
(* them shielded.  A thread cannot be stopped: a page that is cancelled    *)
(* leaves at once, and the permit comes back when the last thread ends.    *)
(***************************************************************************)
EXTENDS Integers, SequencesExt

CONSTANTS
  Page,
  MaxExtractions,  \* max_concurrent_extractions
  Threads          \* how many threads may be at work under one permit

ASSUME PermitsAssumption == MaxExtractions \in Nat \ {0} /\ Threads \subseteq Nat \ {0}

VARIABLES
  permits,      \* the value of the semaphore
  line,         \* the pages that wait for it, in their order
  threads,      \* per page: the threads at its work
  extraction    \* per page: what it awaits

permitVars == <<permits, line, threads, extraction>>

Extraction == {"none", "queued", "awaiting", "finished"}

\* The pages at whose work a thread is.
Busy == {p \in Page : threads[p] > 0}

PermitsInit ==
  /\ permits = MaxExtractions
  /\ line = << >>
  /\ threads = [p \in Page |-> 0]
  /\ extraction = [p \in Page |-> "none"]

AskPermit(p) ==
  /\ extraction[p] = "none"
  /\ extraction' = [extraction EXCEPT ![p] = "queued"]
  /\ line' = Append(line, p)
  /\ UNCHANGED <<permits, threads>>

StartThreads(p) ==
  /\ line # << >>
  /\ p = Head(line)
  /\ permits > 0
  /\ permits' = permits - 1
  /\ line' = Tail(line)
  /\ \E n \in Threads : threads' = [threads EXCEPT ![p] = n]
  /\ extraction' = [extraction EXCEPT ![p] = "awaiting"]

ThreadEnds(p) ==
  /\ threads[p] > 1
  /\ threads' = [threads EXCEPT ![p] = @ - 1]
  /\ UNCHANGED <<permits, line, extraction>>

\* release_when_worker_finishes: the task that gathers the threads is done.
LastThreadEnds(p) ==
  /\ threads[p] = 1
  /\ threads' = [threads EXCEPT ![p] = 0]
  /\ permits' = permits + 1
  /\ extraction' = [extraction EXCEPT ![p] = IF @ = "awaiting" THEN "finished" ELSE @]
  /\ UNCHANGED line

TakeResult(p) ==
  /\ extraction[p] = "finished"
  /\ extraction' = [extraction EXCEPT ![p] = "none"]
  /\ UNCHANGED <<permits, line, threads>>

\* Mutant: a page that leaves gives its permit back at once.
LeaveWithPermit(p) ==
  /\ extraction' = [extraction EXCEPT ![p] = "none"]
  /\ line' = RemoveFirst(line, p)
  /\ permits' = IF extraction[p] = "awaiting" THEN permits + 1 ELSE permits
  /\ UNCHANGED threads

\* The page is cancelled wherever it is.
LeaveExtraction(p) ==
  /\ extraction' = [extraction EXCEPT ![p] = "none"]
  /\ line' = RemoveFirst(line, p)
  /\ UNCHANGED <<permits, threads>>
=============================================================================
