----------------------- MODULE ResumableRunProperties -----------------------
(***************************************************************************)
(* What checkpoints owe a benchmark run that is interrupted at any point.  *)
(***************************************************************************)
EXTENDS ResumableRun

TypeOK ==
  /\ at \in Running \cup {"down", "done"}
  /\ completed \in Nat /\ written \in Nat /\ synced \in Nat /\ crashes \in Nat
  /\ rows \in Seq(Nat)
  /\ torn \in BOOLEAN
  /\ directory \in Seq(Directory) /\ directory # << >>

\* The comment of _resume_mode_state that rows beyond the checkpoint "were
\* never committed", the other way round: whatever progress.json counts, now or
\* after a power failure, is durably in the artifact, whole and in order.
CommittedIsDurable ==
  \A k \in DOMAIN directory :
    /\ directory[k].progress.pages <= synced
    /\ synced <= Len(rows)
    /\ \A i \in 1 .. directory[k].progress.pages : rows[i] = i

\* No crash leaves artifacts that a resumed run refuses.
AlwaysResumable == at = "down" => Acceptable

\* A finished run has published each page once, durably, and recorded it.
DoneIsPublished ==
  at = "done" => /\ name = "final" /\ rows = InOrder(Pages) /\ ~torn
                 /\ progress = [pages |-> Pages, finalized |-> TRUE]
                 /\ Len(directory) = 1

\* The durable artifact is the log that PageLog promises.
Log == INSTANCE PageLog WITH
         log <- SubSeq(rows, 1, directory[1].progress.pages),
         published <- directory[1].name = "final"

ImplementsPageLog == Log!LogSpec

\* A run that crashes finitely often and is resumed each time finishes.
RunFinishes == <>[](at = "done")
=============================================================================
