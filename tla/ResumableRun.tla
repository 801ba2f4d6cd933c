---------------------------- MODULE ResumableRun ----------------------------
(***************************************************************************)
(* Checkpoint and resume of a benchmark run: _run_mode and                 *)
(* _resume_mode_state of bench/webmainbench_benchmark.py, for one mode.    *)
(*                                                                         *)
(* The rows of the page artifact are appended in batches and flushed with  *)
(* fsync; then progress.json, which counts the committed rows, is replaced *)
(* atomically.  The process can be killed between any two steps, and the   *)
(* machine can lose power: of what was not flushed any part may be left,   *)
(* but renames in one directory become durable in the order they were made *)
(* (journaled metadata; external).  A later run with --resume goes on from *)
(* the checkpoint it finds.  Rows are one unit long, so committed_bytes is *)
(* a number of rows; a partly written row is the flag torn.                *)
(***************************************************************************)
EXTENDS Integers, Sequences

CONSTANTS
  Pages,       \* selected_total
  Batch,       \* checkpoint_every
  MaxCrashes   \* bound: how often the process is killed or the power fails

ASSUME RunAssumption == /\ Pages \in Nat
                        /\ Batch \in Nat \ {0}
                        /\ MaxCrashes \in Nat

VARIABLES
  at,         \* where the process is; "down" when there is none
  completed,  \* its count of committed pages
  written,    \* rows of the current batch that it has handed to the file
  rows,       \* the complete rows in the page artifact
  torn,       \* a part of a further row follows them
  synced,     \* how many of them are durable
  directory,  \* its states since the last fsync of it, oldest first: each
              \* has progress.json and the name of the page artifact
  crashes

process == <<at, completed, written>>
file == <<rows, torn, synced>>
vars == <<at, completed, written, rows, torn, synced, directory, crashes>>

Directory == [progress : [pages : Nat, finalized : BOOLEAN], name : {"partial", "final"}]

Now == directory[Len(directory)]
progress == Now.progress
name == Now.name

Running == {"extract", "write", "publish", "published", "renamed",
            "finalize", "finalized", "summary"}

InOrder(n) == [i \in 1 .. n |-> i]

Init ==
  /\ at = "down" /\ completed = 0 /\ written = 0
  /\ rows = << >> /\ torn = FALSE /\ synced = 0
  /\ directory = << [progress |-> [pages |-> 0, finalized |-> FALSE], name |-> "partial"] >>
  /\ crashes = 0
-----------------------------------------------------------------------------
(* _resume_mode_state *)

\* Mutant: the rows beyond the checkpoint stay in the file.
CommittedAll(n) == rows

\* The committed rows are those that the checkpoint counts.
Committed(n) == SubSeq(rows, 1, n)

\* The checks that raise BenchmarkError: the final artifact must hold exactly
\* the committed rows and be complete, the partial one at least the committed
\* rows, and these must be the first pages of the corpus in order.
Acceptable ==
  /\ progress.pages <= Pages
  /\ IF name = "final" THEN progress.pages = Pages /\ Len(rows) = progress.pages /\ ~torn
                       ELSE Len(rows) >= progress.pages
  /\ Committed(progress.pages) = InOrder(progress.pages)

ResumeFinal ==
  /\ at = "down"
  /\ Acceptable
  /\ name = "final"
  /\ at' = IF progress.finalized THEN "summary" ELSE "finalize"
  /\ completed' = progress.pages
  /\ UNCHANGED <<written, file, directory, crashes>>

\* Rows beyond the checkpoint, and a torn one, are cut off, and the cut is
\* flushed, before anything is appended.
ResumePartial ==
  /\ at = "down"
  /\ Acceptable
  /\ name = "partial"
  /\ at' = "extract"
  /\ completed' = progress.pages
  /\ rows' = Committed(progress.pages)
  /\ synced' = progress.pages
  /\ torn' = FALSE
  /\ UNCHANGED <<written, directory, crashes>>
-----------------------------------------------------------------------------
(* _run_mode *)

BatchSize == IF Pages - completed < Batch THEN Pages - completed ELSE Batch

\* Mutant: only whole batches are processed.
StartWholeBatch ==
  /\ at = "extract"
  /\ completed + Batch <= Pages
  /\ at' = "write"
  /\ written' = 0
  /\ UNCHANGED <<completed, file, directory, crashes>>

StartBatch ==
  /\ at = "extract"
  /\ completed < Pages
  /\ at' = "write"
  /\ written' = 0
  /\ UNCHANGED <<completed, file, directory, crashes>>

\* Buffered output reaches the file at any point, at times half a row.
WriteRow ==
  /\ at = "write"
  /\ written < BatchSize
  /\ rows' = Append(rows, completed + written + 1)
  /\ written' = written + 1
  /\ torn' = FALSE
  /\ UNCHANGED <<at, completed, synced, directory, crashes>>

TearRow ==
  /\ at = "write"
  /\ written < BatchSize
  /\ torn' = TRUE
  /\ UNCHANGED <<process, rows, synced, directory, crashes>>

\* Mutant: the rows are flushed to the operating system only.
SyncRowsNotAtAll ==
  /\ at = "write"
  /\ written = BatchSize
  /\ at' = "publish"
  /\ completed' = completed + written
  /\ UNCHANGED <<written, file, directory, crashes>>

SyncRows ==
  /\ at = "write"
  /\ written = BatchSize
  /\ synced' = Len(rows)
  /\ at' = "publish"
  /\ completed' = completed + written
  /\ UNCHANGED <<written, rows, torn, directory, crashes>>

\* A rename: visible at once, durable by the next fsync of the directory.
Operate(state) == directory' = Append(directory, state)

\* _atomic_write_json: the name changes in one step, and is durable after the
\* fsync of the directory.
ReplaceProgress ==
  /\ \/ at = "publish" /\ at' = "published"
        /\ Operate([Now EXCEPT !.progress.pages = completed])
     \/ at = "finalize" /\ at' = "finalized"
        /\ Operate([Now EXCEPT !.progress.finalized = TRUE])
  /\ UNCHANGED <<completed, written, file, crashes>>

SyncDirectory ==
  /\ \/ at = "published" /\ at' = "extract"
     \/ at = "renamed" /\ at' = "finalize"
     \/ at = "finalized" /\ at' = "summary"
  /\ directory' = <<Now>>
  /\ UNCHANGED <<completed, written, file, crashes>>

\* Mutant: the last, shorter batch is taken for the end.
RenameEarly ==
  /\ at = "extract"
  /\ Pages - completed < Batch
  /\ Operate([Now EXCEPT !.name = "final"])
  /\ at' = "renamed"
  /\ UNCHANGED <<completed, written, file, crashes>>

Rename ==
  /\ at = "extract"
  /\ completed = Pages
  /\ Operate([Now EXCEPT !.name = "final"])
  /\ at' = "renamed"
  /\ UNCHANGED <<completed, written, file, crashes>>

\* summary.json is written to the same directory in the same way.
WriteSummary ==
  /\ at = "summary"
  /\ at' = "done"
  /\ directory' = <<Now>>
  /\ UNCHANGED <<completed, written, file, crashes>>
-----------------------------------------------------------------------------
(* Crashes *)

\* An interrupt, an exception or a signal ends the process.
Kill ==
  /\ crashes < MaxCrashes
  /\ at \in Running
  /\ at' = "down"
  /\ crashes' = crashes + 1
  /\ UNCHANGED <<completed, written, file, directory>>

\* A power failure keeps what is durable and any part of the rest.
PowerFailure ==
  /\ crashes < MaxCrashes
  /\ at' = "down"
  /\ crashes' = crashes + 1
  /\ \E k \in DOMAIN directory : directory' = <<directory[k]>>
  /\ \E n \in synced .. Len(rows) :
       /\ rows' = SubSeq(rows, 1, n)
       /\ synced' = n
       /\ torn' \in IF n < Len(rows) \/ torn THEN BOOLEAN ELSE {FALSE}
  /\ UNCHANGED <<completed, written>>
-----------------------------------------------------------------------------
RunStep ==
  \/ ResumeFinal \/ ResumePartial
  \/ StartBatch \/ WriteRow \/ TearRow \/ SyncRows
  \/ ReplaceProgress \/ SyncDirectory \/ Rename \/ WriteSummary

Next == RunStep \/ Kill \/ PowerFailure

Spec == Init /\ [][Next]_vars

\* The user resumes an interrupted run, and a running one goes on.
FairSpec == Spec /\ WF_vars(RunStep)
=============================================================================
