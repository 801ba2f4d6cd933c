------------------------- MODULE ResumableRunProofs -------------------------
(***************************************************************************)
(* Proofs about checkpoint and resume, for every number of pages, size of  *)
(* a batch and number of crashes: what a checkpoint counts is durable, a   *)
(* crash never leaves artifacts that a resumed run refuses, a finished run *)
(* has published everything, and the artifact implements PageLog.          *)
(***************************************************************************)
EXTENDS ResumableRunProperties, SequenceTheorems, TLAPS

(* The inductive invariant *)

\* The artifact holds the first pages of the corpus, in order.
Ordered == \A i \in 1 .. Len(rows) : rows[i] = i

\* No state of the directory counts a row that could be lost.
Durable ==
  /\ synced <= Len(rows)
  /\ \A k \in DOMAIN directory :
       directory[k].progress.pages <= synced /\ directory[k].progress.pages <= Pages

\* Neither the count nor the final name is ever taken back.
Forward ==
  \A j, k \in DOMAIN directory :
    j <= k => /\ directory[j].progress.pages <= directory[k].progress.pages
              /\ directory[j].name = "final" => directory[k].name = "final"

\* The final name stands for the whole artifact.
FinalIsWhole ==
  \A k \in DOMAIN directory :
    directory[k].name = "final" =>
      directory[k].progress.pages = Pages /\ Len(rows) = Pages /\ synced = Pages /\ ~torn

\* What the process knows at each of its steps.
Place ==
  /\ at \in {"extract", "write", "publish", "published"} =>
       name = "partial" /\ completed <= Pages
  /\ at \in {"extract", "published"} => progress.pages = completed
  /\ at \in {"extract", "publish", "published"} =>
       Len(rows) = completed /\ synced = completed /\ ~torn
  /\ at = "write" => /\ progress.pages = completed /\ synced = completed
                     /\ written <= BatchSize /\ Len(rows) = completed + written
                     /\ written = BatchSize => ~torn
  /\ at \in {"renamed", "finalize", "finalized", "summary", "done"} => name = "final"
  /\ at \in {"finalized", "summary", "done"} => progress.finalized
  /\ at = "done" => Len(directory) = 1

IInv == TypeOK /\ Ordered /\ Durable /\ Forward /\ FinalIsWhole /\ Place
-----------------------------------------------------------------------------
(* Sequences *)

\* The last state of the directory is one of its states.
LEMMA NowType ==
  ASSUME TypeOK
  PROVE  /\ Len(directory) \in Nat \ {0}
         /\ DOMAIN directory = 1 .. Len(directory)
         /\ \A k \in DOMAIN directory :
              /\ directory[k] \in Directory
              /\ directory[k].progress \in [pages : Nat, finalized : BOOLEAN]
              /\ directory[k].progress.pages \in Nat
         /\ Len(directory) \in DOMAIN directory
         /\ Now \in Directory /\ progress.pages \in Nat /\ name \in {"partial", "final"}
         /\ Len(rows) \in Nat /\ Pages \in Nat /\ synced \in Nat /\ completed \in Nat
         /\ written \in Nat /\ Batch \in Nat \ {0}
<1>1. directory \in Seq(Directory) /\ directory # << >>
  BY DEF TypeOK
<1>2. Len(directory) \in Nat \ {0} /\ DOMAIN directory = 1 .. Len(directory)
  BY <1>1, EmptySeq, LenProperties
<1>3. \A k \in DOMAIN directory : directory[k] \in Directory
  BY <1>1, <1>2, ElementOfSeq
<1>4. Len(directory) \in DOMAIN directory
  BY <1>2
<1>5. Len(rows) \in Nat
  BY LenProperties DEF TypeOK
<1> QED
  BY <1>2, <1>3, <1>4, <1>5, RunAssumption DEF TypeOK, Directory, Now, progress, name

\* Whatever is cut to a length it has is the first pages, in order.
LEMMA CutIsInOrder ==
  ASSUME TypeOK, Ordered, NEW n \in Nat, n <= Len(rows)
  PROVE  /\ SubSeq(rows, 1, n) = InOrder(n)
         /\ SubSeq(rows, 1, n) \in Seq(Nat)
         /\ Len(SubSeq(rows, 1, n)) = n
         /\ \A i \in 1 .. n : SubSeq(rows, 1, n)[i] = i
<1>1. rows \in Seq(Nat) /\ Len(rows) \in Nat
  BY LenProperties DEF TypeOK
<1>2. \A i \in 1 .. n : rows[i] \in Nat /\ rows[i] = i
  BY <1>1 DEF Ordered
<1>3. /\ SubSeq(rows, 1, n) \in Seq(Nat)
      /\ Len(SubSeq(rows, 1, n)) = IF 1 <= n THEN n - 1 + 1 ELSE 0
      /\ \A i \in 1 .. n - 1 + 1 : SubSeq(rows, 1, n)[i] = rows[1 + i - 1]
  <2>1. 1 \in Int /\ n \in Int /\ \A i \in 1 .. n : rows[i] \in Nat
    BY <1>2
  <2> QED
    BY <2>1, SubSeqProperties
<1>4. Len(SubSeq(rows, 1, n)) = n
  BY <1>3
<1>5. \A i \in 1 .. n : SubSeq(rows, 1, n)[i] = i
  BY <1>3, <1>2
<1>6. SubSeq(rows, 1, n) = [i \in 1 .. n |-> SubSeq(rows, 1, n)[i]]
  BY <1>3, <1>4, LenProperties
<1> QED
  BY <1>3, <1>4, <1>5, <1>6 DEF InOrder

\* A rename that takes nothing back keeps what holds of the directory.
LEMMA OperateKeeps ==
  ASSUME TypeOK, Durable, Forward, FinalIsWhole, UNCHANGED file,
         NEW s \in Directory, directory' = Append(directory, s),
         progress.pages <= s.progress.pages,
         s.progress.pages <= synced, s.progress.pages <= Pages,
         name = "final" => s.name = "final",
         s.name = "final" =>
           s.progress.pages = Pages /\ Len(rows) = Pages /\ synced = Pages /\ ~torn
  PROVE  /\ directory' \in Seq(Directory) /\ directory' # << >>
         /\ Durable' /\ Forward' /\ FinalIsWhole'
         /\ Now' = s
<1>0. /\ Len(directory) \in Nat \ {0} /\ DOMAIN directory = 1 .. Len(directory)
      /\ \A k \in DOMAIN directory : directory[k].progress.pages \in Nat
      /\ directory \in Seq(Directory)
  BY NowType DEF TypeOK
<1>1. /\ directory' \in Seq(Directory) /\ directory' # << >>
      /\ Len(directory') = Len(directory) + 1
      /\ \A i \in 1 .. Len(directory) : directory'[i] = directory[i]
      /\ directory'[Len(directory) + 1] = s
  BY <1>0, AppendProperties
<1>2. DOMAIN directory' = 1 .. Len(directory) + 1
  BY <1>1, LenProperties
<1>3. \A k \in DOMAIN directory' :
        \/ k \in DOMAIN directory /\ directory'[k] = directory[k]
        \/ k = Len(directory) + 1 /\ directory'[k] = s
  BY <1>0, <1>1, <1>2
<1>4. Now' = s
  BY <1>1 DEF Now
<1>5. Durable'
  BY <1>3 DEF Durable, file
<1>6. FinalIsWhole'
  BY <1>3 DEF FinalIsWhole, file
<1>7. s.progress.pages \in Nat
  BY DEF Directory
<1>8. \A j \in DOMAIN directory :
        /\ directory[j].progress.pages <= progress.pages
        /\ directory[j].name = "final" => name = "final"
  BY <1>0 DEF Forward, progress, name, Now
<1>9. \A j \in DOMAIN directory :
        /\ directory[j].progress.pages <= s.progress.pages
        /\ directory[j].name = "final" => s.name = "final"
  BY <1>8, <1>0, <1>7, NowType
<1>10. ASSUME NEW j \in DOMAIN directory', NEW k \in DOMAIN directory', j <= k
       PROVE  /\ directory'[j].progress.pages <= directory'[k].progress.pages
              /\ directory'[j].name = "final" => directory'[k].name = "final"
  <2>1. CASE k \in DOMAIN directory
    <3>1. j \in DOMAIN directory
      BY <2>1, <1>10, <1>0, <1>2
    <3> QED
      BY <3>1, <2>1, <1>10, <1>0, <1>1 DEF Forward
  <2>2. CASE k \notin DOMAIN directory
    <3>1. directory'[k] = s
      BY <2>2, <1>3
    <3> QED
      BY <3>1, <1>3, <1>9, <1>7
  <2> QED
    BY <2>1, <2>2
<1>11. Forward'
  BY <1>10 DEF Forward
<1> QED
  BY <1>1, <1>4, <1>5, <1>6, <1>11

\* What survives in the directory is one of its states.
LEMMA SettleKeeps ==
  ASSUME TypeOK, NEW k \in DOMAIN directory, directory' = <<directory[k]>>
  PROVE  /\ directory' \in Seq(Directory) /\ directory' # << >>
         /\ Len(directory') = 1 /\ DOMAIN directory' = {1}
         /\ directory'[1] = directory[k] /\ Now' = directory[k]
         /\ Forward'
<1>1. directory[k] \in Directory /\ directory[k].progress.pages \in Nat
  BY NowType
<1>2. /\ directory' \in Seq(Directory) /\ directory' # << >>
      /\ Len(directory') = 1 /\ DOMAIN directory' = {1}
      /\ directory'[1] = directory[k]
  BY <1>1
<1> QED
  BY <1>1, <1>2 DEF Now, Forward
-----------------------------------------------------------------------------
(* The steps *)

\* A run starts with an empty log.
LEMMA InitIInv ==
  ASSUME Init
  PROVE  IInv
<1> DEFINE d == [progress |-> [pages |-> 0, finalized |-> FALSE], name |-> "partial"]
<1>1. d \in Directory /\ d.progress.pages = 0 /\ d.name = "partial" /\ directory = <<d>>
  BY DEF Directory, Init
<1>2. /\ directory \in Seq(Directory) /\ directory # << >>
      /\ Len(directory) = 1 /\ DOMAIN directory = {1} /\ directory[1] = d
  BY <1>1
<1>3. rows = << >> /\ rows \in Seq(Nat) /\ Len(rows) = 0
  BY EmptySeq DEF Init
<1> HIDE DEF d
<1>4. TypeOK
  BY <1>2, <1>3 DEF TypeOK, Init
<1> QED
  BY <1>1, <1>2, <1>3, <1>4, RunAssumption
  DEF IInv, Ordered, Durable, Forward, FinalIsWhole, Place, Init

\* Resuming keeps the invariant: the log is cut to what progress records.
LEMMA ResumeKeeps ==
  ASSUME IInv, ResumeFinal \/ ResumePartial
  PROVE  IInv'
<1>0. TypeOK /\ Ordered /\ Durable /\ Forward /\ FinalIsWhole /\ Place
  BY DEF IInv
<1>1. CASE ResumeFinal
  <2>1. UNCHANGED <<written, rows, torn, synced, directory, crashes>>
    BY <1>1 DEF ResumeFinal, file
  <2>2. /\ at' \in {"summary", "finalize"}
        /\ completed' = progress.pages
        /\ name = "final"
        /\ at' = "summary" => progress.finalized
    BY <1>1 DEF ResumeFinal
  <2>3. TypeOK'
    BY <1>0, <2>1, <2>2, NowType DEF TypeOK, Running
  <2>4. Ordered' /\ Durable' /\ Forward' /\ FinalIsWhole'
    BY <1>0, <2>1 DEF Ordered, Durable, Forward, FinalIsWhole
  <2>5. Place'
    BY <2>1, <2>2 DEF Place, name, progress, Now
  <2> QED
    BY <2>3, <2>4, <2>5 DEF IInv
<1>2. CASE ResumePartial
  <2> DEFINE n == progress.pages
  <2>1. n \in Nat /\ n <= Len(rows) /\ n <= Pages /\ name = "partial"
    BY <1>0, <1>2, NowType DEF ResumePartial, Durable, progress, Now
  <2>2. /\ rows' = SubSeq(rows, 1, n) /\ synced' = n /\ torn' = FALSE
        /\ at' = "extract" /\ completed' = n
        /\ UNCHANGED <<written, directory, crashes>>
    BY <1>2 DEF ResumePartial, Committed
  <2>3. rows' \in Seq(Nat) /\ Len(rows') = n /\ \A i \in 1 .. n : rows'[i] = i
    BY <1>0, <2>1, <2>2, CutIsInOrder
  <2>4. \A k \in DOMAIN directory :
          /\ directory[k].progress.pages <= n /\ directory[k].name = "partial"
          /\ directory[k].progress.pages \in Nat
    BY <1>0, <2>1, NowType DEF Forward, progress, name, Now, Directory
  <2>5. TypeOK'
    BY <1>0, <2>1, <2>2, <2>3 DEF TypeOK, Running
  <2>6. Ordered' /\ Durable' /\ Forward' /\ FinalIsWhole'
    BY <1>0, <2>1, <2>2, <2>3, <2>4 DEF Ordered, Durable, Forward, FinalIsWhole
  <2>7. Place'
    BY <2>1, <2>2, <2>3 DEF Place, name, progress, Now
  <2> QED
    BY <2>5, <2>6, <2>7 DEF IInv
<1> QED
  BY <1>1, <1>2

\* Writing and syncing rows keep the invariant.
LEMMA BatchKeeps ==
  ASSUME IInv, StartBatch \/ WriteRow \/ TearRow \/ SyncRows
  PROVE  IInv'
<1>0. /\ TypeOK /\ Ordered /\ Durable /\ Forward /\ FinalIsWhole /\ Place
      /\ Len(rows) \in Nat /\ Pages \in Nat /\ completed \in Nat /\ written \in Nat
      /\ Batch \in Nat \ {0} /\ synced \in Nat
  BY NowType DEF IInv
<1>1. directory' = directory
  BY DEF StartBatch, WriteRow, TearRow, SyncRows, file
<1>2. at \in {"extract", "write"} /\ name = "partial" /\ completed <= Pages
      /\ progress.pages = completed
  BY <1>0 DEF StartBatch, WriteRow, TearRow, SyncRows, Place
<1>3. \A k \in DOMAIN directory :
        /\ directory[k].progress.pages <= completed /\ directory[k].name = "partial"
        /\ directory[k].progress.pages \in Nat
  BY <1>0, <1>2, NowType DEF Forward, progress, name, Now, Directory
<1>4. Forward' /\ FinalIsWhole'
  BY <1>0, <1>1, <1>3 DEF Forward, FinalIsWhole
<1>5. name' = "partial" /\ progress' = progress
  BY <1>1, <1>2 DEF name, progress, Now
<1>6. CASE StartBatch
  <2>1. /\ at = "extract" /\ completed < Pages /\ at' = "write" /\ written' = 0
        /\ UNCHANGED <<completed, rows, torn, synced, crashes>>
    BY <1>6 DEF StartBatch, file
  <2>2. TypeOK' /\ Ordered' /\ Durable'
    BY <1>0, <1>1, <2>1 DEF TypeOK, Ordered, Durable, Running
  <2>3. Place'
    BY <1>0, <1>2, <1>5, <2>1 DEF Place, BatchSize
  <2> QED
    BY <2>2, <2>3, <1>4 DEF IInv
<1>7. CASE WriteRow
  <2> DEFINE r == completed + written + 1
  <2>1. /\ at = "write" /\ written < BatchSize /\ rows' = Append(rows, r)
        /\ written' = written + 1 /\ torn' = FALSE
        /\ UNCHANGED <<at, completed, synced, crashes>>
    BY <1>7 DEF WriteRow
  <2>2. Len(rows) = completed + written /\ synced = completed
    BY <2>1, <1>0 DEF Place
  <2>3. /\ rows' \in Seq(Nat) /\ Len(rows') = Len(rows) + 1
        /\ \A i \in 1 .. Len(rows) : rows'[i] = rows[i]
        /\ rows'[Len(rows) + 1] = r
    <3>1. r \in Nat /\ rows \in Seq(Nat)
      BY <1>0 DEF TypeOK
    <3> HIDE DEF r
    <3> QED
      BY <3>1, <2>1, AppendProperties
  <2>4. Ordered'
    BY <1>0, <2>2, <2>3 DEF Ordered
  <2>5. Durable'
    BY <1>0, <1>1, <2>1, <2>3 DEF Durable
  <2>10. torn' \in BOOLEAN
    BY <2>1, Zenon
  <2>8. written' \in Nat /\ completed' \in Nat /\ synced' \in Nat
    BY <1>0, <2>1
  <2>9. TypeOK'
    BY <1>0, <1>1, <2>1, <2>3, <2>8, <2>10 DEF TypeOK
  <2>6. written' <= BatchSize' /\ Len(rows') = completed' + written'
    BY <1>0, <2>1, <2>2, <2>3 DEF BatchSize
  <2>7. Place'
    BY <1>2, <1>5, <2>1, <2>2, <2>6 DEF Place
  <2> QED
    BY <2>4, <2>5, <2>7, <2>9, <1>4 DEF IInv
<1>8. CASE TearRow
  <2>1. /\ at = "write" /\ written < BatchSize /\ torn' = TRUE
        /\ UNCHANGED <<at, completed, written, rows, synced, crashes>>
    BY <1>8 DEF TearRow, process
  <2>2. TypeOK' /\ Ordered' /\ Durable'
    BY <1>0, <1>1, <2>1 DEF TypeOK, Ordered, Durable
  <2>3. Place'
    BY <1>0, <1>2, <1>5, <2>1 DEF Place, BatchSize
  <2> QED
    BY <2>2, <2>3, <1>4 DEF IInv
<1>9. CASE SyncRows
  <2>1. /\ at = "write" /\ written = BatchSize /\ synced' = Len(rows) /\ at' = "publish"
        /\ completed' = completed + written /\ UNCHANGED <<written, rows, torn, crashes>>
    BY <1>9 DEF SyncRows
  <2>2. /\ Len(rows) = completed + written /\ ~torn /\ completed + written <= Pages
        /\ completed + written \in Nat
    BY <2>1, <1>0 DEF Place, BatchSize
  <2>3. TypeOK' /\ Ordered'
    BY <1>0, <1>1, <2>1, <2>2 DEF TypeOK, Ordered, Running
  <2>4. Durable'
    BY <1>0, <1>1, <1>2, <1>3, <2>1, <2>2 DEF Durable
  <2>5. Place'
    BY <1>5, <2>1, <2>2 DEF Place
  <2> QED
    BY <2>3, <2>4, <2>5, <1>4 DEF IInv
<1> QED
  BY <1>6, <1>7, <1>8, <1>9

\* Replacing the progress file keeps the invariant.
LEMMA ReplaceProgressKeeps ==
  ASSUME IInv, ReplaceProgress
  PROVE  IInv'
<1>0. /\ TypeOK /\ Ordered /\ Durable /\ Forward /\ FinalIsWhole /\ Place
      /\ Now \in Directory /\ Pages \in Nat /\ completed \in Nat /\ progress.pages \in Nat
      /\ Len(directory) \in DOMAIN directory
  BY NowType DEF IInv
<1>1. UNCHANGED file /\ UNCHANGED <<completed, written, rows, torn, synced, crashes>>
  BY DEF ReplaceProgress, file
<1>2. Ordered'
  BY <1>0, <1>1 DEF Ordered
<1>3. /\ progress.pages <= synced
      /\ progress.pages <= Pages
      /\ name = "final" => progress.pages = Pages /\ Len(rows) = Pages
                            /\ synced = Pages /\ ~torn
  BY <1>0 DEF Durable, FinalIsWhole, progress, name, Now
<1>4. CASE at = "publish" /\ at' = "published"
           /\ Operate([Now EXCEPT !.progress.pages = completed])
  <2> DEFINE s == [Now EXCEPT !.progress.pages = completed]
  <2>1. s \in Directory /\ s.progress.pages = completed /\ s.name = name
    BY <1>0 DEF Directory, name
  <2>2. directory' = Append(directory, s)
    BY <1>4 DEF Operate
  <2>3. /\ Len(rows) = completed /\ synced = completed /\ ~torn
        /\ name = "partial" /\ completed <= Pages
    BY <1>0, <1>4 DEF Place
  <2> HIDE DEF s
  <2>4. /\ directory' \in Seq(Directory) /\ directory' # << >>
        /\ Durable' /\ Forward' /\ FinalIsWhole' /\ Now' = s
    BY <1>0, <1>1, <1>3, <2>1, <2>2, <2>3, OperateKeeps
  <2>5. TypeOK'
    BY <1>0, <1>1, <1>4, <2>4 DEF TypeOK, Running
  <2>6. name' = "partial" /\ progress'.pages = completed
    BY <2>1, <2>3, <2>4 DEF name, progress
  <2>7. Place'
    BY <1>1, <1>4, <2>3, <2>6 DEF Place
  <2> QED
    BY <1>2, <2>4, <2>5, <2>7 DEF IInv
<1>5. CASE at = "finalize" /\ at' = "finalized"
           /\ Operate([Now EXCEPT !.progress.finalized = TRUE])
  <2> DEFINE s == [Now EXCEPT !.progress.finalized = TRUE]
  <2>1. /\ s \in Directory /\ s.progress.pages = progress.pages /\ s.name = name
        /\ s.progress.finalized
    BY <1>0 DEF Directory, name, progress
  <2>2. directory' = Append(directory, s)
    BY <1>5 DEF Operate
  <2>3. name = "final"
    BY <1>0, <1>5 DEF Place
  <2> HIDE DEF s
  <2>4. /\ directory' \in Seq(Directory) /\ directory' # << >>
        /\ Durable' /\ Forward' /\ FinalIsWhole' /\ Now' = s
    BY <1>0, <1>1, <1>3, <2>1, <2>2, <2>3, OperateKeeps
  <2>5. TypeOK'
    BY <1>0, <1>1, <1>5, <2>4 DEF TypeOK, Running
  <2>6. name' = "final" /\ progress'.finalized
    BY <2>1, <2>3, <2>4 DEF name, progress
  <2>7. Place'
    BY <1>1, <1>5, <2>6 DEF Place
  <2> QED
    BY <1>2, <2>4, <2>5, <2>7 DEF IInv
<1> QED
  BY <1>4, <1>5 DEF ReplaceProgress

\* Renaming the finished log keeps the invariant.
LEMMA RenameKeeps ==
  ASSUME IInv, Rename
  PROVE  IInv'
<1>0. /\ TypeOK /\ Ordered /\ Durable /\ Forward /\ FinalIsWhole /\ Place
      /\ Now \in Directory /\ Pages \in Nat /\ progress.pages \in Nat
  BY NowType DEF IInv
<1>1. UNCHANGED file /\ UNCHANGED <<completed, written, rows, torn, synced, crashes>>
  BY DEF Rename, file
<1>2. /\ progress.pages = Pages /\ Len(rows) = Pages /\ synced = Pages /\ ~torn
      /\ at' = "renamed"
  BY <1>0 DEF Rename, Place
<1> DEFINE s == [Now EXCEPT !.name = "final"]
<1>3. s \in Directory /\ s.progress.pages = progress.pages /\ s.name = "final"
  BY <1>0 DEF Directory, progress
<1>4. directory' = Append(directory, s)
  BY DEF Operate, Rename
<1> HIDE DEF s
<1>5. /\ directory' \in Seq(Directory) /\ directory' # << >>
      /\ Durable' /\ Forward' /\ FinalIsWhole' /\ Now' = s
  BY <1>0, <1>1, <1>2, <1>3, <1>4, OperateKeeps
<1>6. TypeOK' /\ Ordered'
  BY <1>0, <1>1, <1>2, <1>5 DEF TypeOK, Running, Ordered
<1>7. Place'
  BY <1>2, <1>3, <1>5 DEF Place, name
<1> QED
  BY <1>5, <1>6, <1>7 DEF IInv

\* The fsyncs of the directory.
LEMMA SettledKeeps ==
  ASSUME IInv, SyncDirectory \/ WriteSummary
  PROVE  IInv'
<1>0. /\ TypeOK /\ Ordered /\ Durable /\ Forward /\ FinalIsWhole /\ Place
      /\ Len(directory) \in DOMAIN directory
  BY NowType DEF IInv
<1>1. /\ directory' = <<directory[Len(directory)]>>
      /\ UNCHANGED <<completed, written, rows, torn, synced, crashes>>
  BY DEF SyncDirectory, WriteSummary, file, Now
<1>2. /\ directory' \in Seq(Directory) /\ directory' # << >>
      /\ Len(directory') = 1 /\ DOMAIN directory' = {1}
      /\ directory'[1] = directory[Len(directory)] /\ Now' = directory[Len(directory)]
      /\ Forward'
  BY <1>0, <1>1, SettleKeeps
<1>3. Ordered' /\ Durable' /\ FinalIsWhole'
  BY <1>0, <1>1, <1>2 DEF Ordered, Durable, FinalIsWhole
<1>4. name' = name /\ progress' = progress
  BY <1>2 DEF name, progress, Now
<1>5. \/ at = "published" /\ at' = "extract"
      \/ at = "renamed" /\ at' = "finalize"
      \/ at = "finalized" /\ at' = "summary"
      \/ at = "summary" /\ at' = "done"
  BY DEF SyncDirectory, WriteSummary
<1>6. TypeOK'
  BY <1>0, <1>1, <1>2, <1>5 DEF TypeOK, Running
<1>7. Place'
  BY <1>0, <1>1, <1>2, <1>4, <1>5 DEF Place
<1> QED
  BY <1>2, <1>3, <1>6, <1>7 DEF IInv

\* A crash, of the process or of the machine, keeps the invariant.
LEMMA CrashKeeps ==
  ASSUME IInv, Kill \/ PowerFailure
  PROVE  IInv'
<1>0. TypeOK /\ Ordered /\ Durable /\ Forward /\ FinalIsWhole /\ Place
  BY DEF IInv
<1>1. at' = "down" /\ crashes' = crashes + 1 /\ UNCHANGED <<completed, written>>
  BY DEF Kill, PowerFailure
<1>2. Place'
  BY <1>1 DEF Place
<1>3. CASE Kill
  <2>1. UNCHANGED <<rows, torn, synced, directory>>
    BY <1>3 DEF Kill, file
  <2> QED
    BY <1>0, <1>1, <1>2, <2>1
    DEF IInv, TypeOK, Ordered, Durable, Forward, FinalIsWhole
<1>4. CASE PowerFailure
  <2>1. PICK k \in DOMAIN directory : directory' = <<directory[k]>>
    BY <1>4 DEF PowerFailure
  <2>2. PICK n \in synced .. Len(rows) :
          /\ rows' = SubSeq(rows, 1, n)
          /\ synced' = n
          /\ torn' \in IF n < Len(rows) \/ torn THEN BOOLEAN ELSE {FALSE}
    BY <1>4 DEF PowerFailure
  <2>3. /\ directory' \in Seq(Directory) /\ directory' # << >>
        /\ Len(directory') = 1 /\ DOMAIN directory' = {1}
        /\ directory'[1] = directory[k] /\ Forward'
    BY <1>0, <2>1, SettleKeeps
  <2>4. n \in Nat /\ synced <= n /\ n <= Len(rows) /\ synced \in Nat /\ Len(rows) \in Nat
    BY <1>0, <2>2, NowType
  <2>5. rows' \in Seq(Nat) /\ Len(rows') = n /\ \A i \in 1 .. n : rows'[i] = i
    BY <1>0, <2>2, <2>4, CutIsInOrder
  <2>11. torn' \in BOOLEAN /\ (n = Len(rows) /\ ~torn => ~torn')
    <3>1. CASE n < Len(rows) \/ torn
      <4>1. torn' \in BOOLEAN
        BY <3>1, <2>2, Zenon
      <4> QED
        BY <4>1, <3>1, <2>4
    <3>2. CASE ~(n < Len(rows) \/ torn)
      <4>1. torn' = FALSE
        BY <3>2, <2>2, Zenon
      <4> QED
        BY <4>1, Zenon
    <3> QED
      BY <3>1, <3>2
  <2>12. synced' \in Nat /\ crashes' \in Nat
    BY <1>0, <1>1, <2>2, <2>4 DEF TypeOK
  <2>6. TypeOK'
    BY <1>0, <1>1, <2>3, <2>5, <2>11, <2>12 DEF TypeOK
  <2>7. directory[k].progress.pages \in Nat
    BY <1>0, NowType
  <2>8. Durable'
    BY <1>0, <2>2, <2>3, <2>4, <2>5, <2>7 DEF Durable
  <2>9. FinalIsWhole'
    BY <1>0, <2>2, <2>3, <2>4, <2>5, <2>11 DEF FinalIsWhole
  <2>10. Ordered'
    BY <2>5 DEF Ordered
  <2> QED
    BY <1>2, <2>3, <2>6, <2>8, <2>9, <2>10 DEF IInv
<1> QED
  BY <1>3, <1>4

\* Every step keeps the invariant.
LEMMA NextIInv ==
  ASSUME IInv, [Next]_vars
  PROVE  IInv'
<1>1. CASE UNCHANGED vars
  BY <1>1 DEF vars, IInv, TypeOK, Ordered, Durable, Forward, FinalIsWhole, Place,
              Now, name, progress, BatchSize
<1> QED
  BY <1>1, ResumeKeeps, BatchKeeps, ReplaceProgressKeeps, RenameKeeps, SettledKeeps, CrashKeeps
  DEF Next, RunStep

\* The inductive invariant of a resumable run.
LEMMA Invariance == Spec => []IInv
<1>1. Init => IInv
  BY InitIInv
<1>2. IInv /\ [Next]_vars => IInv'
  BY NextIInv
<1> QED
  BY <1>1, <1>2, PTL DEF Spec
-----------------------------------------------------------------------------
(* What the invariant says of a run *)

\* Whatever progress.json counts, now or after a power failure, is durably in
\* the page artifact, whole and in order (SyncRows before ReplaceProgress).
THEOREM CheckpointsAreDurable == Spec => []CommittedIsDurable
<1>1. ASSUME IInv
      PROVE  CommittedIsDurable
  <2>1. /\ \A k \in DOMAIN directory : directory[k].progress.pages \in Nat
        /\ synced \in Nat /\ Len(rows) \in Nat
    BY <1>1, NowType DEF IInv
  <2>2. Ordered /\ Durable
    BY <1>1 DEF IInv
  <2> QED
    BY <2>1, <2>2 DEF CommittedIsDurable, Ordered, Durable
<1> QED
  BY <1>1, Invariance, PTL

\* _resume_mode_state accepts what any sequence of crashes has left behind.
THEOREM CrashesAreResumable == Spec => []AlwaysResumable
<1>1. ASSUME IInv, at = "down"
      PROVE  Acceptable
  <2> DEFINE n == progress.pages
  <2>1. n \in Nat /\ Len(directory) \in DOMAIN directory /\ Len(rows) \in Nat /\ synced \in Nat
        /\ name \in {"partial", "final"}
    BY <1>1, NowType DEF IInv
  <2>2. n <= Len(rows) /\ n <= Pages
    BY <1>1, <2>1, NowType DEF IInv, Durable, progress, Now
  <2>3. name = "final" => n = Pages /\ Len(rows) = Pages /\ ~torn
    BY <1>1, <2>1 DEF IInv, FinalIsWhole, progress, name, Now
  <2>4. Committed(n) = InOrder(n)
    BY <1>1, <2>1, <2>2, CutIsInOrder DEF IInv, Committed
  <2> QED
    BY <2>1, <2>2, <2>3, <2>4 DEF Acceptable
<1> QED
  BY <1>1, Invariance, PTL DEF AlwaysResumable

\* When the process is done, the artifact under its final name holds every page
\* once, progress.json says so, and a power failure can undo neither.
THEOREM DoneMeansPublished == Spec => []DoneIsPublished
<1>1. ASSUME IInv, at = "done"
      PROVE  /\ name = "final" /\ rows = InOrder(Pages) /\ ~torn
             /\ progress = [pages |-> Pages, finalized |-> TRUE]
             /\ Len(directory) = 1
  <2>1. name = "final" /\ progress.finalized /\ Len(directory) = 1
    BY <1>1 DEF IInv, Place
  <2>2. Now \in Directory /\ Len(directory) \in DOMAIN directory /\ Pages \in Nat
    BY <1>1, NowType DEF IInv
  <2>3. progress.pages = Pages /\ Len(rows) = Pages /\ ~torn
    BY <1>1, <2>1, <2>2 DEF IInv, FinalIsWhole, progress, name, Now
  <2>4. progress = [pages |-> Pages, finalized |-> TRUE]
    <3>1. progress \in [pages : Nat, finalized : BOOLEAN]
      BY <2>2 DEF Directory, progress
    <3>2. progress.finalized = TRUE
      BY <3>1, <2>1
    <3> QED
      BY <3>1, <3>2, <2>3
  <2>5. rows = InOrder(Pages)
    <3>1. rows \in Seq(Nat) /\ \A i \in 1 .. Pages : rows[i] = i
      BY <1>1, <2>3 DEF IInv, TypeOK, Ordered
    <3>2. rows = [i \in 1 .. Pages |-> rows[i]]
      BY <3>1, <2>3, LenProperties
    <3> QED
      BY <3>1, <3>2 DEF InOrder
  <2> QED
    BY <2>1, <2>3, <2>4, <2>5
<1> QED
  BY <1>1, Invariance, PTL DEF DoneIsPublished
-----------------------------------------------------------------------------
(* The artifact implements PageLog *)

durable == directory[1].progress.pages
named == directory[1].name

\* What the invariant says of the durable part of the log.
LEMMA LogIs ==
  ASSUME IInv
  PROVE  /\ durable \in Nat /\ durable <= Pages /\ Pages \in Nat
         /\ SubSeq(rows, 1, durable) = InOrder(durable)
         /\ Len(SubSeq(rows, 1, durable)) = durable
         /\ named = "final" => durable = Pages
<1>1. /\ 1 \in DOMAIN directory /\ durable \in Nat /\ Len(rows) \in Nat /\ synced \in Nat
      /\ Pages \in Nat
  BY NowType DEF IInv, durable
<1>2. durable <= Len(rows) /\ durable <= Pages
  BY <1>1 DEF IInv, Durable, durable
<1>3. /\ SubSeq(rows, 1, durable) = InOrder(durable)
      /\ Len(SubSeq(rows, 1, durable)) = durable
  BY <1>1, <1>2, CutIsInOrder DEF IInv
<1>4. named = "final" => durable = Pages
  BY <1>1 DEF IInv, FinalIsWhole, durable, named
<1> QED
  BY <1>1, <1>2, <1>3, <1>4

\* No step takes back what is durable.
LEMMA DurableGrows ==
  ASSUME IInv, [Next]_vars
  PROVE  durable <= durable' /\ (named = "final" => named' = "final")
<1>0. /\ directory \in Seq(Directory) /\ 1 \in DOMAIN directory
      /\ Len(directory) \in DOMAIN directory /\ DOMAIN directory = 1 .. Len(directory)
      /\ \A k \in DOMAIN directory : directory[k].progress.pages \in Nat
      /\ Now \in Directory /\ Forward /\ Len(directory) \in Nat \ {0}
  BY NowType DEF IInv, TypeOK
<1>1. CASE directory'[1] = directory[1]
  BY <1>1, <1>0 DEF durable, named
<1>2. ASSUME NEW k \in DOMAIN directory, directory' = <<directory[k]>>
      PROVE  durable <= durable' /\ (named = "final" => named' = "final")
  <2>1. directory'[1] = directory[k] /\ 1 <= k
    BY <1>2, <1>0
  <2> QED
    BY <2>1, <1>0, <1>2 DEF Forward, durable, named
<1>3. ASSUME NEW s \in Directory, directory' = Append(directory, s)
      PROVE  directory'[1] = directory[1]
  BY <1>3, <1>0, AppendProperties
<1>4. CASE ReplaceProgress \/ Rename
  <2>1. \/ directory' = Append(directory, [Now EXCEPT !.progress.pages = completed])
        \/ directory' = Append(directory, [Now EXCEPT !.progress.finalized = TRUE])
        \/ directory' = Append(directory, [Now EXCEPT !.name = "final"])
    BY <1>4 DEF ReplaceProgress, Rename, Operate
  <2>2. /\ [Now EXCEPT !.progress.pages = completed] \in Directory
        /\ [Now EXCEPT !.progress.finalized = TRUE] \in Directory
        /\ [Now EXCEPT !.name = "final"] \in Directory
    BY <1>0, NowType DEF Directory, IInv
  <2> QED
    BY <2>1, <2>2, <1>3, <1>1
<1>5. CASE SyncDirectory \/ WriteSummary
  BY <1>5, <1>2, <1>0 DEF SyncDirectory, WriteSummary, Now
<1>6. CASE PowerFailure
  BY <1>6, <1>2 DEF PowerFailure
<1>7. CASE \/ ResumeFinal \/ ResumePartial \/ StartBatch \/ WriteRow \/ TearRow \/ SyncRows
           \/ Kill \/ UNCHANGED vars
  BY <1>7, <1>1 DEF ResumeFinal, ResumePartial, StartBatch, WriteRow, TearRow, SyncRows,
                    Kill, file, vars
<1> QED
  BY <1>4, <1>5, <1>6, <1>7 DEF Next, RunStep

\* Every step of a run, crashes included, is a commit, the publication or a
\* stutter of the log that PageLog describes: the refinement that the run checks.
THEOREM RunImplementsPageLog == Spec => ImplementsPageLog
<1>1. Init => Log!LogInit
  <2> SUFFICES ASSUME Init PROVE Log!LogInit
    OBVIOUS
  <2>1. directory[1] = [progress |-> [pages |-> 0, finalized |-> FALSE], name |-> "partial"]
    BY DEF Init
  <2>2. SubSeq(rows, 1, 0) = << >>
    BY SubSeqEmpty
  <2> QED
    BY <2>1, <2>2 DEF Log!LogInit
<1>0. IInv => /\ durable \in Nat /\ durable <= Pages
              /\ SubSeq(rows, 1, durable) = InOrder(durable)
              /\ named = "final" => durable = Pages
  BY LogIs
<1>4. (IInv => /\ durable \in Nat /\ durable <= Pages
               /\ SubSeq(rows, 1, durable) = InOrder(durable)
               /\ named = "final" => durable = Pages)'
  BY <1>0, PTL
<1>2. ASSUME IInv, IInv', [Next]_vars
      PROVE  [Log!Commit \/ Log!Publish]_<<SubSeq(rows, 1, durable), named = "final">>
  <2> DEFINE log == SubSeq(rows, 1, durable)
             published == named = "final"
  <2>1. /\ durable \in Nat /\ durable <= Pages /\ log = InOrder(durable) /\ Len(log) = durable
        /\ published => durable = Pages
        /\ Pages \in Nat
    BY <1>2, LogIs
  <2>2. /\ durable' \in Nat /\ durable' <= Pages /\ log' = InOrder(durable')
        /\ published' => durable' = Pages
    BY <1>2, <1>4
  <2>3. durable <= durable' /\ (published => published')
    BY <1>2, DurableGrows
  <2>4. CASE published
    <3>1. durable' = durable /\ published' = published
      BY <2>1, <2>2, <2>3, <2>4
    <3>2. log' = log
      BY <2>1, <2>2, <3>1
    <3> QED
      BY <3>1, <3>2
  <2>5. CASE ~published /\ published'
    <3>1. log' = InOrder(Pages)
      BY <2>2, <2>5
    <3>2. Log!Publish
      BY <3>1, <2>5 DEF Log!Publish, Log!InOrder, InOrder, durable, named
    <3> QED
      BY <3>2
  <2>6. CASE ~published /\ ~published'
    <3>1. CASE durable' = durable
      <4>1. log' = log
        BY <2>1, <2>2, <3>1
      <4> QED
        BY <4>1, <2>6
    <3>2. CASE durable' # durable
      <4>1. durable' \in Len(log) + 1 .. Pages
        BY <2>1, <2>2, <2>3, <3>2
      <4>2. Log!Commit
        BY <4>1, <2>2, <2>6 DEF Log!Commit, Log!InOrder, InOrder, durable, named
      <4> QED
        BY <4>2
    <3> QED
      BY <3>1, <3>2
  <2> QED
    BY <2>4, <2>5, <2>6
<1>3. IInv /\ IInv' /\ [Next]_vars
        => [Log!Commit \/ Log!Publish]_<<SubSeq(rows, 1, directory[1].progress.pages),
                                          directory[1].name = "final">>
  BY <1>2 DEF durable, named
<1> QED
  BY <1>1, <1>3, Invariance, PTL DEF Spec, ImplementsPageLog, Log!LogSpec
=============================================================================
