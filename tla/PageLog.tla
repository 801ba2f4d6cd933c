------------------------------- MODULE PageLog -------------------------------
(***************************************************************************)
(* What a resumable benchmark run promises about its page artifact: a log  *)
(* of page results that only ever grows at its end, page after page, that  *)
(* no crash shortens, and that is published once it holds every page.      *)
(***************************************************************************)
EXTENDS Integers, Sequences

CONSTANT Pages   \* how many pages the run has selected: a natural number

VARIABLES log, published

InOrder(n) == [i \in 1 .. n |-> i]

LogInit == log = << >> /\ published = FALSE

Commit ==
  /\ ~published
  /\ \E n \in Len(log) + 1 .. Pages : log' = InOrder(n)
  /\ UNCHANGED published

\* Only the whole log is published, if need be with its last commit.
Publish ==
  /\ ~published
  /\ published' = TRUE
  /\ log' = InOrder(Pages)

LogSpec == LogInit /\ [][Commit \/ Publish]_<<log, published>>
=============================================================================
