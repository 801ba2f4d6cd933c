-------------------------- MODULE RequestPathProofs --------------------------
(***************************************************************************)
(* Proofs about the path of a request, for every number of requests,       *)
(* slots, permits and runtimes: slots and threads are counted exactly, a   *)
(* request is answered at most once, runtimes are leased to one call at a  *)
(* time, and the half-open flag never outlives the probe.                  *)
(***************************************************************************)
EXTENDS RequestPathProperties, Facts

(* The inductive invariant, part by part *)

Past == {"body", "app", "sending"}

\* What was answered, by the place of a request.
AnswersExact ==
  \A r \in Request :
    /\ served[r].at \in {"new", "body", "app"} => served[r].answers = 0
    /\ served[r].at \in {"sending", "done"} => served[r].answers = 1
    /\ served[r].answers <= 1

LimitInv ==
  /\ active \in Int /\ served \in [Request -> Served]
  /\ SlotsExact /\ AnswersExact

\* Who waits in line is queued, and who is queued or has a result has no thread.
LineSound ==
  /\ IsInjective(line)
  /\ \A p \in Range(line) : extraction[p] = "queued"
  /\ \A p \in Page : /\ extraction[p] \in {"queued", "finished"} => p \notin Busy
                     /\ extraction[p] = "awaiting" => p \in Busy

PermitInv ==
  /\ permits \in Int /\ line \in Seq(Page) /\ threads \in [Page -> Nat]
  /\ extraction \in [Page -> Extraction]
  /\ WorkersBounded /\ LineSound

\* Only pages are extracted, and who is in line or has a thread has entered the
\* application.
PathSound ==
  /\ stage \in [Request -> Stages]
  /\ \A r \in Request : stage[r] \in {"extraction", "quality"} => r \in Page
  /\ \A p \in Page : p \in Busy \/ extraction[p] # "none" => served[p].at \notin {"new", "body"}

QualityType ==
  /\ clock \in 0 .. MaxTime
  /\ breaker \in Breaker
  /\ closed \in {"no", "draining", "closed"}
  /\ taken \in Nat /\ qpermits \in Nat
  /\ available \in Seq(Runtime)
  /\ runtimes \in [Runtime -> [cancel : BOOLEAN, call : Call \cup {0}]]
  /\ calls \in [Call -> CallState]
  /\ workers \in [Call -> Worker]

\* Permits, runtimes that are available and runtimes that are leased.
Balance ==
  /\ qpermits + taken + Cardinality(Leasing) = MaxConcurrency
  /\ Len(available) = qpermits + taken
  /\ IsInjective(available)
  /\ \A c \in Leasing : workers[c].runtime \notin Range(available)
  /\ \A c, d \in Leasing : workers[c].runtime = workers[d].runtime => c = d

Probing == breaker.probing => \E c \in Call : calls[c].probe /\ calls[c].at # "none"

\* A call and its worker.
Paired ==
  \A c \in Call :
    /\ workers[c].at # "none" => workers[c].runtime # 0
    /\ calls[c].at = "capacity" => workers[c].at = "none"
    /\ calls[c].at = "inferring" => workers[c].at # "none"

\* A runtime remembers the I/O of the worker that leases it, so that the call can
\* cancel it, before it is submitted or after.
Cancellable ==
  /\ \A c \in Call :
       /\ workers[c].at = "starting" /\ calls[c].at = "none" => runtimes[workers[c].runtime].cancel
       /\ workers[c].at = "calling" => \/ runtimes[workers[c].runtime].call = c
                                       \/ workers[c].cancelled
  /\ \A k \in Runtime :
       runtimes[k].call # 0 => /\ workers[runtimes[k].call].at = "calling"
                               /\ workers[runtimes[k].call].runtime = k

QualityInv == QualityType /\ Balance /\ Probing /\ Paired /\ Cancellable /\ OrphansCancelled

IInv == LimitInv /\ PermitInv /\ QualityInv /\ PathSound
-----------------------------------------------------------------------------
(* Slots and answers *)

Admitted == {r \in Request : served[r].admitted}

\* The admitted requests can be counted.
LEMMA AdmittedFinite == IsFiniteSet(Admitted) /\ Cardinality(Admitted) \in Nat
<1>1. IsFiniteSet(Admitted)
  BY LimitsAssumption, FS_Subset DEF Admitted
<1> QED
  BY <1>1, FS_CardinalityType

\* What every step of a request has in common: its place changes, and with it
\* whether it holds a slot.
LEMMA RequestStepKeeps ==
  ASSUME LimitInv, NEW r \in Request, NEW s \in Served,
         served' = [served EXCEPT ![r] = s],
         s.admitted <=> s.at \in Past,
         s.at \in {"new", "body", "app"} => s.answers = 0,
         s.at \in {"sending", "done"} => s.answers = 1,
         s.answers <= 1,
         \/ active' = active /\ (s.admitted <=> served[r].admitted)
         \/ active' = active + 1 /\ s.admitted /\ ~served[r].admitted /\ active < MaxActive
         \/ active' = active - 1 /\ ~s.admitted /\ served[r].admitted
  PROVE  LimitInv' /\ served'[r] = s /\ \A q \in Request \ {r} : served'[q] = served[q]
<1>0. /\ active \in Int /\ served \in [Request -> Served] /\ active <= MaxActive /\ MaxActive \in Int
      /\ active = Cardinality(Admitted)
      /\ \A q \in Request : served[q].admitted <=> served[q].at \in Past
  BY LimitsAssumption DEF LimitInv, SlotsExact, Admitted, Past
<1>1. /\ served' \in [Request -> Served] /\ served'[r] = s
      /\ \A q \in Request \ {r} : served'[q] = served[q]
  BY <1>0
<1>2. active' = Cardinality(Admitted')
  <2>1. Admitted' \ {r} = Admitted \ {r} /\ IsFiniteSet(Admitted)
    BY <1>1, AdmittedFinite DEF Admitted
  <2>2. r \in Admitted <=> served[r].admitted
    BY DEF Admitted
  <2>3. r \in Admitted' <=> s.admitted
    BY <1>1 DEF Admitted
  <2>4. /\ Cardinality(Admitted) \in Nat /\ Cardinality(Admitted') \in Nat
        /\ r \in Admitted /\ r \in Admitted' => Cardinality(Admitted') = Cardinality(Admitted)
        /\ r \notin Admitted /\ r \notin Admitted' => Cardinality(Admitted') = Cardinality(Admitted)
        /\ r \notin Admitted /\ r \in Admitted' => Cardinality(Admitted') = Cardinality(Admitted) + 1
        /\ r \in Admitted /\ r \notin Admitted' => Cardinality(Admitted') = Cardinality(Admitted) - 1
    BY <2>1, CountChange
  <2> QED
    BY <1>0, <2>2, <2>3, <2>4
<1>3. active' \in Int /\ active' <= MaxActive
  BY <1>0
<1>4. \A q \in Request : served'[q].admitted <=> served'[q].at \in Past
  BY <1>0, <1>1
<1>5. SlotsExact'
  BY <1>2, <1>3, <1>4 DEF SlotsExact, Admitted, Past
<1>6. AnswersExact'
  BY <1>1 DEF LimitInv, AnswersExact
<1> QED
  BY <1>1, <1>3, <1>5, <1>6 DEF LimitInv

\* What the invariant says of one request.
LEMMA RequestFacts ==
  ASSUME LimitInv, NEW r \in Request
  PROVE  /\ served[r] \in Served
         /\ served[r].admitted <=> served[r].at \in Past
         /\ served[r].at \in {"new", "body", "app"} => served[r].answers = 0
         /\ served[r].at \in {"sending", "done"} => served[r].answers = 1
         /\ served[r].answers <= 1 /\ served[r].answers \in Nat
<1>1. served[r] \in Served /\ served[r].answers \in Nat
  BY DEF LimitInv, Served
<1>2. served[r].admitted <=> served[r].at \in Past
  BY DEF LimitInv, SlotsExact, Past
<1>3. /\ served[r].at \in {"new", "body", "app"} => served[r].answers = 0
      /\ served[r].at \in {"sending", "done"} => served[r].answers = 1
      /\ served[r].answers <= 1
  BY DEF LimitInv, AnswersExact
<1> QED
  BY <1>1, <1>2, <1>3

NeverBack == \A q \in Request : served[q].at \notin {"new", "body"} => served'[q].at \notin {"new", "body"}

\* The end of a request gives its slot back, if it had one.
LEMMA EndsKeeps ==
  ASSUME LimitInv, NEW r \in Request, NEW end \in {"done", "cancelled"}, NEW n \in {0, 1},
         EndsAs(r, end, n),
         end = "done" => served[r].answers + n = 1,
         end = "cancelled" => n = 0
  PROVE  LimitInv' /\ NeverBack
<1> DEFINE s == [served[r] EXCEPT !.at = end, !.admitted = FALSE, !.answers = served[r].answers + n]
<1>1. /\ served[r] \in Served /\ served[r].answers \in Nat /\ served[r].answers <= 1
      /\ served \in [Request -> Served]
  BY RequestFacts DEF LimitInv
<1>2. served' = [served EXCEPT ![r] = s]
  BY <1>1 DEF EndsAs
<1>3. /\ s \in Served /\ s.at = end /\ s.admitted = FALSE /\ s.answers = served[r].answers + n
  <2>1. end \in {"new", "body", "app", "sending", "done", "cancelled"} /\ served[r].answers + n \in Nat
    BY <1>1
  <2> QED
    BY <1>1, <2>1 DEF Served
<1>4. \/ active' = active /\ ~served[r].admitted
      \/ active' = active - 1 /\ served[r].admitted
  BY DEF EndsAs, Released
<1> HIDE DEF s
<1>5. /\ s.admitted <=> s.at \in Past
      /\ s.at \in {"new", "body", "app"} => s.answers = 0
      /\ s.at \in {"sending", "done"} => s.answers = 1
      /\ s.answers <= 1
  BY <1>1, <1>3 DEF Past
<1>6. LimitInv' /\ served'[r] = s /\ \A q \in Request \ {r} : served'[q] = served[q]
  BY <1>2, <1>3, <1>4, <1>5, RequestStepKeeps
<1> QED
  BY <1>3, <1>6 DEF NeverBack

\* A refusal or an admission keeps the limits sound.
LEMMA ArriveKeeps ==
  ASSUME LimitInv, NEW r \in Request, RefuseLength(r) \/ RefuseBusy(r) \/ Admit(r) \/ RefuseBody(r)
  PROVE  LimitInv' /\ NeverBack
<1>0. /\ served[r] \in Served /\ served \in [Request -> Served]
      /\ served[r].at \in {"new", "body"} /\ served[r].answers = 0
  BY RequestFacts DEF LimitInv, RefuseLength, RefuseBusy, Admit, RefuseBody
<1>1. CASE EndsAs(r, "done", 1)
  BY <1>0, <1>1, EndsKeeps
<1>2. CASE Admit(r)
  <2> DEFINE s == [served[r] EXCEPT !.at = "body", !.admitted = TRUE]
  <2>1. served' = [served EXCEPT ![r] = s]
    BY <1>0, <1>2 DEF Admit
  <2>2. s \in Served /\ s.at = "body" /\ s.admitted = TRUE /\ s.answers = 0
    BY <1>0 DEF Served
  <2>3. active' = active + 1 /\ active < MaxActive /\ served[r].at = "new"
    BY <1>2 DEF Admit
  <2>4. ~served[r].admitted
    BY <2>3, RequestFacts DEF Past
  <2> HIDE DEF s
  <2>5. /\ s.admitted <=> s.at \in Past
        /\ s.at \in {"new", "body", "app"} => s.answers = 0
        /\ s.at \in {"sending", "done"} => s.answers = 1
        /\ s.answers <= 1
        /\ active' = active + 1 /\ s.admitted /\ ~served[r].admitted /\ active < MaxActive
    BY <2>2, <2>3, <2>4 DEF Past
  <2>6. LimitInv' /\ served'[r] = s /\ \A q \in Request \ {r} : served'[q] = served[q]
    BY <2>1, <2>2, <2>3, <2>4, <2>5, RequestStepKeeps
  <2> QED
    BY <2>3, <2>6 DEF NeverBack
<1> QED
  BY <1>1, <1>2 DEF RefuseLength, RefuseBusy, RefuseBody

\* A request whose body was read enters the application with its slot.
LEMMA EnterKeeps ==
  ASSUME LimitInv, NEW r \in Request, EnterApp(r)
  PROVE  /\ LimitInv' /\ NeverBack
         /\ served[r].at = "body" /\ served'[r].at = "app"
<1>0. /\ served[r] \in Served /\ served \in [Request -> Served]
      /\ served[r].at = "body" /\ served[r].answers = 0 /\ served[r].admitted
  BY RequestFacts DEF LimitInv, EnterApp, Past
<1> DEFINE s == [served[r] EXCEPT !.at = "app"]
<1>1. served' = [served EXCEPT ![r] = s] /\ active' = active
  BY <1>0 DEF EnterApp
<1>2. s \in Served /\ s.at = "app" /\ s.admitted = served[r].admitted /\ s.answers = 0
  BY <1>0 DEF Served
<1> HIDE DEF s
<1>3. /\ s.admitted <=> s.at \in Past
      /\ s.at \in {"new", "body", "app"} => s.answers = 0
      /\ s.at \in {"sending", "done"} => s.answers = 1
      /\ s.answers <= 1
      /\ s.admitted <=> served[r].admitted
  BY <1>0, <1>2 DEF Past
<1>4. LimitInv' /\ served'[r] = s /\ \A q \in Request \ {r} : served'[q] = served[q]
  BY <1>1, <1>2, <1>3, RequestStepKeeps
<1> QED
  BY <1>0, <1>2, <1>4 DEF NeverBack

\* An answer that starts is the only one.
LEMMA AnswerKeeps ==
  ASSUME LimitInv, NEW r \in Request, Answer(r)
  PROVE  LimitInv' /\ NeverBack
<1>0. /\ served[r] \in Served /\ served \in [Request -> Served]
      /\ served[r].at = "app" /\ served[r].answers = 0 /\ served[r].admitted
  BY RequestFacts DEF LimitInv, Answer, Past
<1> DEFINE s == [served[r] EXCEPT !.at = "sending", !.answers = served[r].answers + 1]
<1>1. served' = [served EXCEPT ![r] = s] /\ active' = active
  BY <1>0 DEF Answer
<1>5. s \in Served /\ s.at = "sending" /\ s.answers = served[r].answers + 1
  <2>1. served[r].answers + 1 \in Nat
    BY <1>0
  <2> QED
    BY <1>0, <2>1 DEF Served
<1>2. s.admitted = served[r].admitted
  BY <1>0 DEF Served
<1> HIDE DEF s
<1>3. /\ s.admitted <=> s.at \in Past
      /\ s.at \in {"new", "body", "app"} => s.answers = 0
      /\ s.at \in {"sending", "done"} => s.answers = 1
      /\ s.answers <= 1
      /\ s.admitted <=> served[r].admitted
  BY <1>0, <1>2, <1>5 DEF Past
<1>4. LimitInv' /\ served'[r] = s /\ \A q \in Request \ {r} : served'[q] = served[q]
  BY <1>1, <1>3, <1>5, RequestStepKeeps
<1> QED
  BY <1>4, <1>5 DEF NeverBack

\* A request that returns or is interrupted gives its slot back.
LEMMA LeavingKeeps ==
  ASSUME LimitInv, NEW r \in Request, Return(r) \/ Interrupt(r)
  PROVE  LimitInv' /\ NeverBack
<1>1. served[r].answers \in {0, 1}
  BY RequestFacts
<1>2. CASE Return(r)
  <2>1. served[r].answers + 0 = 1 /\ EndsAs(r, "done", 0)
    BY <1>2, RequestFacts DEF Return
  <2> QED
    BY <2>1, EndsKeeps
<1>3. CASE EndsAs(r, "done", LateAnswer(r))
  <2>1. LateAnswer(r) \in {0, 1} /\ served[r].answers + LateAnswer(r) = 1
    BY <1>1 DEF LateAnswer
  <2> QED
    BY <1>3, <2>1, EndsKeeps
<1>4. CASE EndsAs(r, "cancelled", 0)
  BY <1>4, EndsKeeps
<1> QED
  BY <1>2, <1>3, <1>4 DEF Interrupt

\* A step inside the application leaves the middleware sound.
LEMMA LimitsUnchanged ==
  ASSUME LimitInv, UNCHANGED limitVars
  PROVE  LimitInv' /\ NeverBack
BY DEF LimitInv, SlotsExact, AnswersExact, limitVars, NeverBack
-----------------------------------------------------------------------------
(* Permits and threads *)

\* The requests for pages are finitely many.
LEMMA PageFinite == IsFiniteSet(Page) /\ Call = Page /\ Page \subseteq Request
BY LimitsAssumption, PathAssumption, FS_Subset

\* So are those with a thread at their work.
LEMMA BusyFinite == IsFiniteSet(Busy) /\ Cardinality(Busy) \in Nat
<1>1. IsFiniteSet(Busy)
  BY PageFinite, FS_Subset DEF Busy
<1> QED
  BY <1>1, FS_CardinalityType

\* A page joins the line for a permit.
LEMMA QueueKeeps ==
  ASSUME PermitInv, NEW p \in Page, extraction[p] \in {"none", "finished"}, p \notin Busy,
         extraction' = [extraction EXCEPT ![p] = "queued"], line' = Append(line, p),
         UNCHANGED <<permits, threads>>
  PROVE  PermitInv' /\ Busy' = Busy
<1> Busy' = Busy
  BY DEF Busy
<1>0. /\ line \in Seq(Page) /\ IsInjective(line) /\ extraction \in [Page -> Extraction]
      /\ \A q \in Range(line) : extraction[q] = "queued"
  BY DEF PermitInv, LineSound
<1>1. p \notin Range(line)
  BY <1>0
<1>2. /\ line' \in Seq(Page) /\ IsInjective(line') /\ Range(line') = Range(line) \cup {p}
  BY <1>0, <1>1, AppendProperties, AppendRange
<1>3. /\ extraction' \in [Page -> Extraction] /\ extraction'[p] = "queued"
      /\ \A q \in Page \ {p} : extraction'[q] = extraction[q]
  BY <1>0 DEF Extraction
<1>4. Range(line) \subseteq Page
  BY <1>0, LenProperties, ElementOfSeq DEF Range
<1>5. LineSound'
  BY <1>0, <1>1, <1>2, <1>3, <1>4 DEF PermitInv, LineSound
<1>6. WorkersBounded'
  BY DEF PermitInv, WorkersBounded
<1> QED
  BY <1>2, <1>3, <1>5, <1>6 DEF PermitInv

\* Threads start with a permit, at the head of the line.
LEMMA StartThreadsKeeps ==
  ASSUME PermitInv, NEW p \in Page, StartThreads(p)
  PROVE  PermitInv' /\ Busy' = Busy \cup {p} /\ extraction[p] = "queued"
<1>0. /\ line \in Seq(Page) /\ line # << >> /\ IsInjective(line)
      /\ extraction \in [Page -> Extraction]
      /\ \A q \in Range(line) : extraction[q] = "queued"
      /\ p = Head(line) /\ line' = Tail(line)
      /\ permits > 0 /\ permits' = permits - 1 /\ permits \in Int
      /\ extraction' = [extraction EXCEPT ![p] = "awaiting"]
  BY DEF PermitInv, LineSound, StartThreads
<1>1. /\ Range(line) = Range(line') \cup {p} /\ IsInjective(line') /\ p \notin Range(line')
      /\ line' \in Seq(Page)
  BY <1>0, TailRange, HeadTailProperties
<1>2. extraction[p] = "queued" /\ p \notin Busy
  BY <1>0, <1>1 DEF PermitInv, LineSound
<1>3. /\ extraction' \in [Page -> Extraction] /\ extraction'[p] = "awaiting"
      /\ \A q \in Page \ {p} : extraction'[q] = extraction[q]
  BY <1>0 DEF Extraction
<1>4. Range(line) \subseteq Page
  BY <1>0, LenProperties, ElementOfSeq DEF Range
<1>5. threads' \in [Page -> Nat] /\ Busy' = Busy \cup {p}
  <2>1. PICK n \in Threads : threads' = [threads EXCEPT ![p] = n]
    BY DEF StartThreads
  <2>2. n \in Nat /\ n > 0 /\ threads \in [Page -> Nat]
    BY <2>1, PermitsAssumption DEF PermitInv
  <2>3. /\ threads' \in [Page -> Nat] /\ threads'[p] > 0
        /\ \A q \in Page \ {p} : threads'[q] = threads[q]
    BY <2>1, <2>2
  <2> QED
    BY <2>3 DEF Busy
<1>6. LineSound'
  BY <1>0, <1>1, <1>2, <1>3, <1>4, <1>5 DEF PermitInv, LineSound
<1>7. WorkersBounded'
  <2>1. Cardinality(Busy') = Cardinality(Busy) + 1 /\ Cardinality(Busy) \in Nat
    BY <1>2, <1>5, BusyFinite, FS_AddElement
  <2>2. permits + Cardinality(Busy) = MaxExtractions /\ MaxExtractions \in Int
    BY PermitsAssumption DEF PermitInv, WorkersBounded
  <2> QED
    BY <1>0, <2>1, <2>2 DEF WorkersBounded
<1>8. permits' \in Int
  BY <1>0
<1> QED
  BY <1>1, <1>2, <1>3, <1>5, <1>6, <1>7, <1>8 DEF PermitInv

\* A thread that ends before another of its page gives nothing back.
LEMMA ThreadEndsKeeps ==
  ASSUME PermitInv, NEW p \in Page, ThreadEnds(p)
  PROVE  PermitInv' /\ Busy' = Busy
<1>1. /\ threads \in [Page -> Nat] /\ threads[p] > 1 /\ threads' = [threads EXCEPT ![p] = @ - 1]
      /\ UNCHANGED <<permits, line, extraction>>
  BY DEF PermitInv, ThreadEnds
<1>2. /\ threads' \in [Page -> Nat] /\ threads'[p] > 0 /\ threads[p] > 0
      /\ \A q \in Page \ {p} : threads'[q] = threads[q]
  BY <1>1
<1>3. Busy' = Busy
  BY <1>2 DEF Busy
<1> QED
  BY <1>1, <1>2, <1>3 DEF PermitInv, WorkersBounded, LineSound

\* The last thread of a page gives the permit back.
LEMMA LastThreadEndsKeeps ==
  ASSUME PermitInv, NEW p \in Page, LastThreadEnds(p)
  PROVE  PermitInv' /\ Busy' \subseteq Busy
<1>0. /\ line \in Seq(Page) /\ line' = line /\ extraction \in [Page -> Extraction]
      /\ threads \in [Page -> Nat] /\ threads[p] = 1 /\ threads' = [threads EXCEPT ![p] = 0]
      /\ permits' = permits + 1 /\ permits \in Int /\ permits >= 0
      /\ extraction' = [extraction EXCEPT ![p] = IF @ = "awaiting" THEN "finished" ELSE @]
  BY DEF PermitInv, WorkersBounded, LastThreadEnds
<1>1. threads' \in [Page -> Nat] /\ p \in Busy /\ Busy' = Busy \ {p}
  <2>1. /\ threads' \in [Page -> Nat] /\ threads'[p] = 0 /\ threads[p] > 0
        /\ \A q \in Page \ {p} : threads'[q] = threads[q]
    BY <1>0
  <2> QED
    BY <2>1 DEF Busy
<1>2. extraction[p] # "queued"
  BY <1>0, <1>1 DEF PermitInv, LineSound
<1>3. /\ extraction' \in [Page -> Extraction]
      /\ extraction'[p] = IF extraction[p] = "awaiting" THEN "finished" ELSE extraction[p]
      /\ \A q \in Page \ {p} : extraction'[q] = extraction[q]
  BY <1>0 DEF Extraction
<1>4. Range(line) \subseteq Page
  BY <1>0, LenProperties, ElementOfSeq DEF Range
<1>5. LineSound'
  BY <1>0, <1>1, <1>2, <1>3, <1>4 DEF PermitInv, LineSound
<1>6. WorkersBounded'
  <2>1. Cardinality(Busy') = Cardinality(Busy) - 1 /\ Cardinality(Busy) \in Nat
    BY <1>1, BusyFinite, FS_RemoveElement
  <2>2. permits + Cardinality(Busy) = MaxExtractions /\ MaxExtractions \in Int
    BY PermitsAssumption DEF PermitInv, WorkersBounded
  <2> QED
    BY <1>0, <2>1, <2>2 DEF WorkersBounded
<1>7. permits' \in Int
  BY <1>0
<1> QED
  BY <1>0, <1>1, <1>3, <1>5, <1>6, <1>7 DEF PermitInv

\* A page takes its result, or leaves from wherever it is; its thread goes on.
LEMMA LeaveExtractionKeeps ==
  ASSUME PermitInv, NEW p \in Page, TakeResult(p) \/ LeaveExtraction(p)
  PROVE  PermitInv' /\ Busy' = Busy
<1>0. /\ line \in Seq(Page) /\ IsInjective(line) /\ extraction \in [Page -> Extraction]
      /\ \A q \in Range(line) : extraction[q] = "queued"
      /\ UNCHANGED <<permits, threads>> /\ Busy' = Busy
      /\ extraction' = [extraction EXCEPT ![p] = "none"]
  BY DEF PermitInv, LineSound, TakeResult, LeaveExtraction, Busy
<1>1. /\ line' \in Seq(Page) /\ IsInjective(line') /\ Range(line') \subseteq Range(line)
      /\ p \notin Range(line')
  <2>1. CASE TakeResult(p)
    BY <1>0, <2>1 DEF TakeResult
  <2>2. CASE LeaveExtraction(p)
    <3>1. line' = RemoveFirst(line, p)
      BY <2>2 DEF LeaveExtraction
    <3> QED
      BY <1>0, <3>1, RemoveFirstRange
  <2> QED
    BY <2>1, <2>2
<1>2. /\ extraction' \in [Page -> Extraction] /\ extraction'[p] = "none"
      /\ \A q \in Page \ {p} : extraction'[q] = extraction[q]
  BY <1>0 DEF Extraction
<1>3. Range(line) \subseteq Page
  BY <1>0, LenProperties, ElementOfSeq DEF Range
<1>4. LineSound'
  BY <1>0, <1>1, <1>2, <1>3 DEF PermitInv, LineSound
<1>5. WorkersBounded'
  BY <1>0 DEF PermitInv, WorkersBounded
<1> QED
  BY <1>0, <1>1, <1>2, <1>4, <1>5 DEF PermitInv

\* A step elsewhere leaves the permits sound.
LEMMA PermitsUnchanged ==
  ASSUME PermitInv, UNCHANGED permitVars
  PROVE  PermitInv' /\ Busy' = Busy
BY DEF PermitInv, WorkersBounded, LineSound, permitVars, Busy
-----------------------------------------------------------------------------
(* The quality extractor *)

Held == {"starting", "calling", "returned"}

\* The calls that hold a runtime can be counted.
LEMMA LeasingFinite == IsFiniteSet(Leasing) /\ Cardinality(Leasing) \in Nat
<1>1. IsFiniteSet(Leasing)
  BY PageFinite, FS_Subset DEF Leasing
<1> QED
  BY <1>1, FS_CardinalityType

\* What the invariant says of one call of the quality path.
LEMMA CallFacts ==
  ASSUME QualityInv, NEW c \in Call
  PROVE  /\ calls[c] \in CallState /\ workers[c] \in Worker
         /\ workers[c].runtime \in Runtime \cup {0}
         /\ workers[c].at # "none" => workers[c].runtime \in Runtime
         /\ calls[c].at = "capacity" => workers[c].at = "none"
         /\ calls[c].at = "inferring" => workers[c].at # "none"
<1>1. calls[c] \in CallState /\ workers[c] \in Worker
  BY DEF QualityInv, QualityType
<1>2. workers[c].runtime \in Runtime \cup {0}
  BY <1>1 DEF Worker
<1>3. /\ workers[c].at # "none" => workers[c].runtime # 0
      /\ calls[c].at = "capacity" => workers[c].at = "none"
      /\ calls[c].at = "inferring" => workers[c].at # "none"
  BY DEF QualityInv, Paired
<1> QED
  BY <1>1, <1>2, <1>3

\* The balance of permits and runtimes depends on who holds what alone.
LEMMA BalanceSame ==
  ASSUME Balance, UNCHANGED <<qpermits, taken, available>>,
         \A c \in Call :
           /\ workers'[c].at \in Held <=> workers[c].at \in Held
           /\ workers[c].at \in Held => workers'[c].runtime = workers[c].runtime
  PROVE  Balance'
<1>1. Leasing' = Leasing
  BY DEF Leasing, Held
<1>2. \A c \in Leasing : workers'[c].runtime = workers[c].runtime
  BY DEF Leasing, Held
<1> QED
  BY <1>1, <1>2 DEF Balance

\* A failure never leaves the probe flag set.
LEMMA FailedType ==
  ASSUME QualityType, NEW n \in Nat
  PROVE  Failed(n) \in Breaker /\ Failed(n).probing = FALSE
<1>1. clock + Cooldown \in Nat /\ breaker.openUntil \in Nat
  BY QualityAssumption DEF QualityType, Breaker
<1> QED
  BY <1>1 DEF Failed, Breaker

\* The count of failures is a natural number.
LEMMA FailuresType ==
  ASSUME QualityType
  PROVE  OneMoreFailure \in Nat /\ Saturated \in Nat
BY QualityAssumption DEF QualityType, Breaker, OneMoreFailure, Saturated

\* A call that leaves is idle.
LEMMA LeavesType ==
  ASSUME QualityType, NEW c \in Call, Leaves(c)
  PROVE  /\ calls' \in [Call -> CallState] /\ calls'[c] = Idle /\ calls'[c].at = "none"
         /\ \A d \in Call \ {c} : calls'[d] = calls[d]
BY DEF QualityType, Leaves, Idle, CallState

\* A call that leaves without a verdict releases the flag if it is the probe, and
\* otherwise leaves the probe that is under way where it is.
LEMMA ReleaseKeeps ==
  ASSUME QualityType, Probing, NEW c \in Call, Leaves(c), breaker' = ProbeReleased(c)
  PROVE  breaker' \in Breaker /\ Probing'
<1>1. breaker' \in Breaker /\ breaker'.probing = (breaker.probing /\ ~calls[c].probe)
  BY DEF QualityType, Breaker, CallState, ProbeReleased
<1>2. ASSUME breaker'.probing
      PROVE  \E d \in Call : calls'[d].probe /\ calls'[d].at # "none"
  <2>1. PICK d \in Call : calls[d].probe /\ calls[d].at # "none"
    BY <1>1, <1>2 DEF Probing
  <2>2. d # c
    BY <1>1, <1>2, <2>1
  <2> QED
    BY <2>1, <2>2, LeavesType
<1> QED
  BY <1>1, <1>2 DEF Probing

\* A failure closes the question whoever the call was.
LEMMA FailureKeeps ==
  ASSUME QualityType, NEW n \in Nat, breaker' = Failed(n)
  PROVE  breaker' \in Breaker /\ Probing'
<1>1. breaker' \in Breaker /\ breaker'.probing = FALSE
  BY FailedType
<1> QED
  BY <1>1 DEF Probing

\* Entering the quality path, and leaving its queue, keep it sound.
LEMMA AdmissionKeeps ==
  ASSUME QualityInv, NEW c \in Call,
         Enter(c) \/ CapacityTimeout(c) \/ LeaseClosed(c) \/ LeaveCapacity(c)
  PROVE  QualityInv'
<1>0. QualityType /\ Balance /\ Probing /\ Paired /\ Cancellable /\ OrphansCancelled
  BY DEF QualityInv
<1>1. UNCHANGED <<clock, closed, taken, qpermits, available, runtimes, workers>>
  BY DEF Enter, CapacityTimeout, LeaseClosed, LeaveCapacity
<1>2. workers[c].at = "none"
  BY CallFacts DEF Enter, CapacityTimeout, LeaseClosed, LeaveCapacity
<1>3. /\ calls' \in [Call -> CallState] /\ calls'[c].at \in {"none", "capacity"}
      /\ \A d \in Call \ {c} : calls'[d] = calls[d]
      /\ breaker' \in Breaker /\ Probing'
  <2>1. CASE Enter(c)
    <3> DEFINE e == [at |-> "capacity", probe |-> breaker.openUntil > 0]
    <3>1. /\ calls' = [calls EXCEPT ![c] = e]
          /\ breaker' = [breaker EXCEPT !.probing = breaker.openUntil > 0]
      BY <2>1 DEF Enter
    <3>2. e \in CallState /\ e.at = "capacity" /\ e.probe = (breaker.openUntil > 0)
      BY DEF CallState
    <3>3. breaker' \in Breaker /\ breaker'.probing = (breaker.openUntil > 0)
      <4> DEFINE half == breaker.openUntil > 0
      <4>1. half \in BOOLEAN
        OBVIOUS
      <4>2. breaker' = [breaker EXCEPT !.probing = half]
        BY <3>1
      <4> HIDE DEF half
      <4>3. breaker' \in Breaker /\ breaker'.probing = half
        BY <1>0, <4>1, <4>2 DEF QualityType, Breaker
      <4> QED
        BY <4>3 DEF half
    <3> HIDE DEF e
    <3>4. calls' \in [Call -> CallState] /\ calls'[c] = e /\ \A d \in Call \ {c} : calls'[d] = calls[d]
      BY <1>0, <3>1, <3>2 DEF QualityType
    <3>5. Probing'
      BY <3>2, <3>3, <3>4 DEF Probing
    <3> QED
      BY <3>2, <3>3, <3>4, <3>5
  <2>2. CASE CapacityTimeout(c)
    BY <1>0, <2>2, FailuresType, FailureKeeps, LeavesType DEF CapacityTimeout
  <2>3. CASE LeaseClosed(c) \/ LeaveCapacity(c)
    BY <1>0, <2>3, ReleaseKeeps, LeavesType DEF LeaseClosed, LeaveCapacity
  <2> QED
    BY <2>1, <2>2, <2>3
<1>4. QualityType'
  BY <1>0, <1>1, <1>3 DEF QualityType
<1>5. Balance'
  BY <1>0, <1>1, BalanceSame
<1>6. Paired'
  BY <1>0, <1>1, <1>2, <1>3 DEF Paired
<1>7. Cancellable' /\ OrphansCancelled'
  BY <1>0, <1>1, <1>2, <1>3 DEF Cancellable, OrphansCancelled
<1> QED
  BY <1>3, <1>4, <1>5, <1>6, <1>7 DEF QualityInv

\* The runtimes that are available: none of them is leased.
LEMMA HeadAvailable ==
  ASSUME QualityInv, qpermits > 0
  PROVE  /\ available \in Seq(Runtime) /\ available # << >>
         /\ Head(available) \in Runtime /\ Head(available) \in Range(available)
         /\ Tail(available) \in Seq(Runtime) /\ Len(Tail(available)) = Len(available) - 1
         /\ IsInjective(Tail(available))
         /\ Range(available) = Range(Tail(available)) \cup {Head(available)}
         /\ Head(available) \notin Range(Tail(available))
         /\ \A c \in Leasing : workers[c].runtime # Head(available)
<1>1. /\ available \in Seq(Runtime) /\ IsInjective(available) /\ Len(available) = qpermits + taken
      /\ qpermits \in Nat /\ taken \in Nat
      /\ \A c \in Leasing : workers[c].runtime \notin Range(available)
  BY DEF QualityInv, QualityType, Balance
<1>2. available # << >>
  <2>1. Len(available) # 0
    BY <1>1
  <2> QED
    BY <2>1, EmptySeq
<1>3. /\ Head(available) \in Runtime /\ Tail(available) \in Seq(Runtime)
      /\ Len(Tail(available)) = Len(available) - 1
  BY <1>1, <1>2, HeadTailProperties
<1>4. /\ Range(available) = Range(Tail(available)) \cup {Head(available)}
      /\ IsInjective(Tail(available)) /\ Head(available) \notin Range(Tail(available))
  BY <1>1, <1>2, TailRange
<1> QED
  BY <1>1, <1>2, <1>3, <1>4

\* A lease takes a permit and the runtime at the head.
LEMMA LeaseKeeps ==
  ASSUME QualityInv, NEW c \in Call, Lease(c)
  PROVE  QualityInv'
<1>0. QualityType /\ Balance /\ Probing /\ Paired /\ Cancellable /\ OrphansCancelled
  BY DEF QualityInv
<1>1. PICK k \in Runtime : k = Head(available)
  BY HeadAvailable DEF Lease
<1>2. /\ calls[c].at = "capacity" /\ qpermits > 0 /\ qpermits' = qpermits - 1
      /\ available' = Tail(available)
      /\ runtimes' = [runtimes EXCEPT ![k] = [cancel |-> FALSE, call |-> 0]]
      /\ calls' = [calls EXCEPT ![c].at = "inferring"]
      /\ workers' = [workers EXCEPT ![c].at = "starting", ![c].runtime = k]
      /\ UNCHANGED <<clock, breaker, closed, taken>>
  BY <1>1 DEF Lease
<1>3. /\ available' \in Seq(Runtime) /\ Len(available') = Len(available) - 1 /\ IsInjective(available')
      /\ Range(available') \subseteq Range(available) /\ k \in Range(available) /\ k \notin Range(available')
      /\ \A d \in Leasing : workers[d].runtime # k
  BY <1>1, <1>2, HeadAvailable
<1>4. /\ workers[c].at = "none" /\ workers[c] \in Worker /\ calls[c] \in CallState /\ k # 0
      /\ calls \in [Call -> CallState] /\ workers \in [Call -> Worker]
      /\ runtimes \in [Runtime -> [cancel : BOOLEAN, call : Call \cup {0}]]
      /\ qpermits \in Nat
  BY <1>0, <1>2, CallFacts DEF QualityType, Runtime
<1>5. /\ calls' \in [Call -> CallState] /\ calls'[c].at = "inferring" /\ calls'[c].probe = calls[c].probe
      /\ \A d \in Call \ {c} : calls'[d] = calls[d]
  BY <1>2, <1>4 DEF CallState
<1>6. /\ workers' \in [Call -> Worker] /\ workers'[c].at = "starting" /\ workers'[c].runtime = k
      /\ \A d \in Call \ {c} : workers'[d] = workers[d]
  BY <1>2, <1>4 DEF Worker
<1>7. /\ runtimes' \in [Runtime -> [cancel : BOOLEAN, call : Call \cup {0}]]
      /\ runtimes'[k].call = 0
      /\ \A j \in Runtime \ {k} : runtimes'[j] = runtimes[j]
  BY <1>2, <1>4
<1>8. QualityType'
  BY <1>0, <1>2, <1>3, <1>5, <1>6, <1>7 DEF QualityType
<1>9. Balance'
  <2>1. Leasing' = Leasing \cup {c} /\ c \notin Leasing
    BY <1>4, <1>6 DEF Leasing
  <2>2. Cardinality(Leasing') = Cardinality(Leasing) + 1
    BY <2>1, LeasingFinite, FS_AddElement
  <2>3. \A d \in Leasing : workers'[d].runtime = workers[d].runtime
    BY <1>6, <2>1 DEF Leasing
  <2>4. qpermits + taken + Cardinality(Leasing) = MaxConcurrency /\ taken \in Nat
        /\ Len(available) = qpermits + taken
    BY <1>0 DEF Balance, QualityType
  <2>5. /\ qpermits' + taken' + Cardinality(Leasing') = MaxConcurrency
        /\ Len(available') = qpermits' + taken'
    <3>1. PICK n \in Nat : n = Cardinality(Leasing)
      BY LeasingFinite
    <3>2. qpermits' = qpermits - 1 /\ taken' = taken
      BY <1>2
    <3> QED
      BY <1>3, <1>4, <2>2, <2>4, <3>1, <3>2
  <2>6. \A d \in Leasing' : workers'[d].runtime \notin Range(available')
    BY <1>0, <1>3, <1>6, <2>1, <2>3 DEF Balance
  <2>7. \A d, e \in Leasing' : workers'[d].runtime = workers'[e].runtime => d = e
    BY <1>0, <1>3, <1>6, <2>1, <2>3 DEF Balance
  <2> QED
    BY <1>3, <2>5, <2>6, <2>7 DEF Balance
<1>10. Probing'
  BY <1>0, <1>2, <1>5 DEF Probing
<1>11. Paired'
  BY <1>0, <1>4, <1>5, <1>6 DEF Paired
<1>12. ASSUME NEW d \in Call, workers[d].at \in Held
       PROVE  d # c /\ workers[d].runtime \in Runtime \ {k}
  BY <1>3, <1>4, <1>12, CallFacts DEF Leasing, Held
<1>13. Cancellable'
  <2>1. ASSUME NEW d \in Call
        PROVE  /\ workers'[d].at = "starting" /\ calls'[d].at = "none" => runtimes'[workers'[d].runtime].cancel
               /\ workers'[d].at = "calling" => \/ runtimes'[workers'[d].runtime].call = d
                                                \/ workers'[d].cancelled
    <3>1. CASE d = c
      BY <1>5, <1>6, <3>1
    <3>2. CASE d # c /\ workers[d].at \in {"starting", "calling"}
      <4>1. runtimes'[workers[d].runtime] = runtimes[workers[d].runtime]
        BY <1>7, <1>12, <3>2 DEF Held
      <4> QED
        BY <1>0, <1>5, <1>6, <3>2, <4>1 DEF Cancellable
    <3>3. CASE d # c /\ workers[d].at \notin {"starting", "calling"}
      BY <1>6, <3>3
    <3> QED
      BY <3>1, <3>2, <3>3
  <2>2. ASSUME NEW j \in Runtime, runtimes'[j].call # 0
        PROVE  /\ workers'[runtimes'[j].call].at = "calling"
               /\ workers'[runtimes'[j].call].runtime = j
    <3>1. j # k /\ runtimes'[j] = runtimes[j]
      BY <1>7, <2>2
    <3>2. PICK d \in Call : d = runtimes[j].call
      BY <1>4, <2>2, <3>1
    <3>3. workers[d].at = "calling" /\ workers[d].runtime = j
      BY <1>0, <2>2, <3>1, <3>2 DEF Cancellable
    <3> QED
      BY <1>4, <1>6, <3>1, <3>2, <3>3
  <2> QED
    BY <2>1, <2>2 DEF Cancellable
<1>14. OrphansCancelled'
  BY <1>0, <1>5, <1>6 DEF OrphansCancelled
<1> QED
  BY <1>8, <1>9, <1>10, <1>11, <1>13, <1>14 DEF QualityInv

\* No thread could be started: the head of the queue of runtimes becomes its tail.
LEMMA StartFailsKeeps ==
  ASSUME QualityInv, NEW c \in Call, StartFails(c)
  PROVE  QualityInv'
<1>0. QualityType /\ Balance /\ Probing /\ Paired /\ Cancellable /\ OrphansCancelled
  BY DEF QualityInv
<1>1. PICK k \in Runtime : k = Head(available)
  BY HeadAvailable DEF StartFails
<1>2. /\ calls[c].at = "capacity" /\ qpermits > 0
      /\ available' = Append(Tail(available), k)
      /\ runtimes' = [runtimes EXCEPT ![k] = [cancel |-> FALSE, call |-> 0]]
      /\ breaker' = Failed(OneMoreFailure) /\ Leaves(c)
      /\ UNCHANGED <<clock, closed, taken, qpermits, workers>>
  BY <1>1 DEF StartFails
<1>3. /\ Tail(available) \in Seq(Runtime) /\ Len(Tail(available)) = Len(available) - 1
      /\ IsInjective(Tail(available)) /\ k \notin Range(Tail(available))
      /\ Range(available) = Range(Tail(available)) \cup {k}
      /\ \A d \in Leasing : workers[d].runtime # k
      /\ Len(available) \in Nat
  BY <1>1, <1>2, HeadAvailable, LenProperties
<1>4. /\ available' \in Seq(Runtime) /\ Len(available') = Len(available)
      /\ IsInjective(available') /\ Range(available') = Range(available)
  <2>1. available' \in Seq(Runtime) /\ Len(available') = Len(Tail(available)) + 1
    BY <1>2, <1>3, AppendProperties
  <2>2. IsInjective(available') /\ Range(available') = Range(Tail(available)) \cup {k}
    <3> DEFINE rest == Tail(available)
    <3>1. rest \in Seq(Runtime) /\ available' = Append(rest, k) /\ IsInjective(rest) /\ k \notin Range(rest)
      BY <1>2, <1>3
    <3> HIDE DEF rest
    <3>2. IsInjective(available') /\ Range(available') = Range(rest) \cup {k}
      BY <3>1, AppendRange
    <3> QED
      BY <3>2 DEF rest
  <2> QED
    BY <1>3, <2>1, <2>2
<1>5. /\ runtimes' \in [Runtime -> [cancel : BOOLEAN, call : Call \cup {0}]]
      /\ runtimes'[k].call = 0
      /\ \A j \in Runtime \ {k} : runtimes'[j] = runtimes[j]
  BY <1>0, <1>2 DEF QualityType
<1>6. /\ calls' \in [Call -> CallState] /\ calls'[c].at = "none"
      /\ \A d \in Call \ {c} : calls'[d] = calls[d]
      /\ breaker' \in Breaker /\ Probing'
      /\ workers[c].at = "none" /\ workers' = workers
  BY <1>0, <1>2, LeavesType, FailuresType, FailureKeeps, CallFacts
<1>7. QualityType'
  BY <1>0, <1>2, <1>4, <1>5, <1>6 DEF QualityType
<1>8. Balance'
  <2>1. Leasing' = Leasing /\ workers' = workers /\ qpermits' = qpermits /\ taken' = taken
    BY <1>2 DEF Leasing
  <2> QED
    BY <1>0, <1>4, <2>1 DEF Balance
<1>9. Paired'
  BY <1>0, <1>6 DEF Paired
<1>10. ASSUME NEW d \in Call, workers[d].at \in Held
       PROVE  d # c /\ workers[d].runtime \in Runtime \ {k}
  BY <1>3, <1>6, <1>10, CallFacts DEF Leasing, Held
<1>11. Cancellable'
  <2>1. ASSUME NEW d \in Call
        PROVE  /\ workers'[d].at = "starting" /\ calls'[d].at = "none" => runtimes'[workers'[d].runtime].cancel
               /\ workers'[d].at = "calling" => \/ runtimes'[workers'[d].runtime].call = d
                                                \/ workers'[d].cancelled
    <3>1. CASE workers[d].at \in {"starting", "calling"}
      <4>1. d # c /\ runtimes'[workers[d].runtime] = runtimes[workers[d].runtime]
        BY <1>5, <1>10, <3>1 DEF Held
      <4> QED
        BY <1>0, <1>6, <3>1, <4>1 DEF Cancellable
    <3>2. CASE workers[d].at \notin {"starting", "calling"}
      BY <1>6, <3>2
    <3> QED
      BY <3>1, <3>2
  <2>2. ASSUME NEW j \in Runtime, runtimes'[j].call # 0
        PROVE  /\ workers'[runtimes'[j].call].at = "calling"
               /\ workers'[runtimes'[j].call].runtime = j
    <3>1. runtimes'[j] = runtimes[j]
      BY <1>5, <2>2
    <3> QED
      BY <1>0, <1>6, <2>2, <3>1 DEF Cancellable
  <2> QED
    BY <2>1, <2>2 DEF Cancellable
<1>12. OrphansCancelled'
  BY <1>0, <1>6 DEF OrphansCancelled
<1> QED
  BY <1>6, <1>7, <1>8, <1>9, <1>11, <1>12 DEF QualityInv

\* A call leaves its worker behind: its I/O is cancelled, or will be.
LEMMA GiveUpKeeps ==
  ASSUME QualityInv, NEW c \in Call, InferenceTimeout(c) \/ LeaveInference(c)
  PROVE  QualityInv'
<1>0. QualityType /\ Balance /\ Probing /\ Paired /\ Cancellable /\ OrphansCancelled
  BY DEF QualityInv
<1>1. /\ calls[c].at = "inferring" /\ CancelRuntimeCall(workers[c].runtime) /\ Leaves(c)
      /\ UNCHANGED <<clock, closed, taken, qpermits, available>>
  BY DEF InferenceTimeout, LeaveInference
<1>2. PICK k \in Runtime : k = workers[c].runtime
  BY <1>1, CallFacts
<1>3. PICK x \in Call \cup {0} : x = runtimes[k].call
  BY <1>0 DEF QualityType
<1>4. /\ runtimes' = [runtimes EXCEPT ![k].cancel = TRUE]
      /\ workers' = IF x = 0 THEN workers ELSE [workers EXCEPT ![x].cancelled = TRUE]
  BY <1>1, <1>2, <1>3 DEF CancelRuntimeCall
<1>5. /\ runtimes' \in [Runtime -> [cancel : BOOLEAN, call : Call \cup {0}]]
      /\ \A j \in Runtime : runtimes'[j].call = runtimes[j].call
      /\ \A j \in Runtime : runtimes'[j].cancel = (j = k \/ runtimes[j].cancel)
  BY <1>0, <1>4 DEF QualityType
<1>6. /\ workers' \in [Call -> Worker]
      /\ \A d \in Call : workers'[d].at = workers[d].at /\ workers'[d].runtime = workers[d].runtime
      /\ \A d \in Call : workers'[d].cancelled <=> (d = x \/ workers[d].cancelled)
  <2>1. workers \in [Call -> Worker]
    BY <1>0 DEF QualityType
  <2>2. CASE x = 0
    BY <1>4, <2>1, <2>2, QualityAssumption
  <2>3. CASE x # 0
    <3> DEFINE w == [workers[x] EXCEPT !.cancelled = TRUE]
    <3>1. workers' = [workers EXCEPT ![x] = w] /\ x \in Call
      BY <1>4, <2>1, <2>3
    <3>2. /\ w \in Worker /\ w.at = workers[x].at /\ w.runtime = workers[x].runtime
          /\ w.cancelled = TRUE
      BY <2>1, <3>1 DEF Worker
    <3> HIDE DEF w
    <3>3. /\ workers' \in [Call -> Worker] /\ workers'[x] = w
          /\ \A d \in Call \ {x} : workers'[d] = workers[d]
      BY <2>1, <3>1, <3>2
    <3>4. \A d \in Call : workers'[d].at = workers[d].at /\ workers'[d].runtime = workers[d].runtime
      BY <3>2, <3>3
    <3>5. \A d \in Call : workers[d].cancelled \in BOOLEAN /\ workers'[d].cancelled \in BOOLEAN
      BY <2>1, <3>3 DEF Worker
    <3>6. \A d \in Call : workers'[d].cancelled <=> (d = x \/ workers[d].cancelled)
      BY <3>1, <3>2, <3>3
    <3> QED
      BY <3>3, <3>4, <3>6
  <2> QED
    BY <2>2, <2>3
<1>7. /\ calls' \in [Call -> CallState] /\ calls'[c].at = "none"
      /\ \A d \in Call \ {c} : calls'[d] = calls[d]
  BY <1>0, <1>1, LeavesType
<1>8. breaker' \in Breaker /\ Probing'
  <2>1. CASE InferenceTimeout(c)
    BY <1>0, <2>1, FailuresType, FailureKeeps DEF InferenceTimeout
  <2>2. CASE LeaveInference(c)
    BY <1>0, <2>2, ReleaseKeeps DEF LeaveInference
  <2> QED
    BY <2>1, <2>2
<1>9. QualityType'
  BY <1>0, <1>1, <1>5, <1>6, <1>7, <1>8 DEF QualityType
<1>10. Balance'
  BY <1>0, <1>1, <1>6, BalanceSame
<1>11. Paired'
  BY <1>0, <1>6, <1>7 DEF Paired
<1>12. Cancellable'
  <2>1. ASSUME NEW d \in Call, workers'[d].at = "starting", calls'[d].at = "none"
        PROVE  runtimes'[workers'[d].runtime].cancel
    <3>1. workers[d].at = "starting" /\ workers'[d].runtime = workers[d].runtime
          /\ workers[d].runtime \in Runtime
      BY <1>6, <2>1, CallFacts
    <3>2. CASE d = c
      BY <1>2, <1>5, <3>1, <3>2
    <3>3. CASE d # c
      <4>1. runtimes[workers[d].runtime].cancel
        BY <1>0, <1>7, <2>1, <3>1, <3>3 DEF Cancellable
      <4> QED
        BY <1>5, <3>1, <4>1
    <3> QED
      BY <3>2, <3>3
  <2>2. ASSUME NEW d \in Call, workers'[d].at = "calling"
        PROVE  runtimes'[workers'[d].runtime].call = d \/ workers'[d].cancelled
    <3>1. workers[d].at = "calling" /\ workers'[d].runtime = workers[d].runtime
          /\ workers[d].runtime \in Runtime
      BY <1>6, <2>2, CallFacts
    <3>2. runtimes[workers[d].runtime].call = d \/ workers[d].cancelled
      BY <1>0, <3>1 DEF Cancellable
    <3> QED
      BY <1>5, <1>6, <3>1, <3>2
  <2>3. ASSUME NEW j \in Runtime, runtimes'[j].call # 0
        PROVE  /\ workers'[runtimes'[j].call].at = "calling"
               /\ workers'[runtimes'[j].call].runtime = j
    <3>1. PICK d \in Call : d = runtimes[j].call
      BY <1>0, <1>5, <2>3 DEF QualityType
    <3>2. workers[d].at = "calling" /\ workers[d].runtime = j
      BY <1>0, <1>5, <2>3, <3>1 DEF Cancellable
    <3> QED
      BY <1>5, <1>6, <3>1, <3>2
  <2> QED
    BY <2>1, <2>2, <2>3 DEF Cancellable
<1>13. OrphansCancelled'
  <2>1. ASSUME NEW d \in Call, workers'[d].at = "calling", calls'[d].at = "none"
        PROVE  workers'[d].cancelled
    <3>1. workers[d].at = "calling"
      BY <1>6, <2>1
    <3>2. CASE d = c
      <4>1. runtimes[k].call = c \/ workers[c].cancelled
        BY <1>0, <1>2, <3>1, <3>2 DEF Cancellable
      <4> QED
        BY <1>3, <1>6, <3>2, <4>1
    <3>3. CASE d # c
      <4>1. workers[d].cancelled
        BY <1>0, <1>7, <2>1, <3>1, <3>3 DEF OrphansCancelled
      <4> QED
        BY <1>6, <4>1
    <3> QED
      BY <3>2, <3>3
  <2> QED
    BY <2>1 DEF OrphansCancelled
<1> QED
  BY <1>8, <1>9, <1>10, <1>11, <1>12, <1>13 DEF QualityInv

\* A result that is taken closes the call.
LEMMA TakeQualityKeeps ==
  ASSUME QualityInv, NEW c \in Call, TakeQuality(c)
  PROVE  QualityInv'
<1>0. QualityType /\ Balance /\ Probing /\ Paired /\ Cancellable /\ OrphansCancelled
  BY DEF QualityInv
<1>1. /\ workers[c].at = "ended" /\ Leaves(c)
      /\ workers' = [workers EXCEPT ![c] = NoWorker]
      /\ UNCHANGED <<clock, closed, taken, qpermits, available, runtimes>>
  BY DEF TakeQuality
<1>2. /\ calls' \in [Call -> CallState] /\ calls'[c].at = "none"
      /\ \A d \in Call \ {c} : calls'[d] = calls[d]
  BY <1>0, <1>1, LeavesType
<1>3. /\ workers' \in [Call -> Worker] /\ workers'[c].at = "none"
      /\ \A d \in Call \ {c} : workers'[d] = workers[d]
  <2>1. NoWorker \in Worker /\ NoWorker.at = "none"
    BY DEF NoWorker, Worker
  <2> QED
    BY <1>0, <1>1, <2>1 DEF QualityType
<1>4. breaker' \in Breaker /\ Probing'
  <2>1. CASE breaker' = [failures |-> 0, openUntil |-> 0, probing |-> FALSE]
    BY <2>1 DEF Breaker, Probing
  <2>2. CASE breaker' = Failed(OneMoreFailure)
    BY <1>0, <2>2, FailuresType, FailureKeeps
  <2>3. CASE breaker' = ProbeReleased(c)
    BY <1>0, <1>1, <2>3, ReleaseKeeps
  <2> QED
    BY <2>1, <2>2, <2>3 DEF TakeQuality
<1>5. QualityType'
  BY <1>0, <1>1, <1>2, <1>3, <1>4 DEF QualityType
<1>6. \A d \in Call : /\ workers'[d].at \in Held <=> workers[d].at \in Held
                      /\ workers[d].at \in Held => workers'[d].runtime = workers[d].runtime
  BY <1>1, <1>3 DEF Held
<1>7. Balance'
  BY <1>0, <1>1, <1>6, BalanceSame
<1>8. Paired'
  BY <1>0, <1>2, <1>3 DEF Paired
<1>9. Cancellable'
  <2>1. \A d \in Call : /\ workers'[d].at = "starting" /\ calls'[d].at = "none" => runtimes'[workers'[d].runtime].cancel
                        /\ workers'[d].at = "calling" => \/ runtimes'[workers'[d].runtime].call = d
                                                         \/ workers'[d].cancelled
    BY <1>0, <1>1, <1>2, <1>3 DEF Cancellable
  <2>2. ASSUME NEW j \in Runtime, runtimes'[j].call # 0
        PROVE  /\ workers'[runtimes'[j].call].at = "calling"
               /\ workers'[runtimes'[j].call].runtime = j
    <3>1. PICK d \in Call : d = runtimes[j].call
      BY <1>0, <1>1, <2>2 DEF QualityType
    <3>2. workers[d].at = "calling" /\ workers[d].runtime = j
      BY <1>0, <1>1, <2>2, <3>1 DEF Cancellable
    <3>3. d # c
      BY <1>1, <3>2
    <3> QED
      BY <1>1, <1>3, <3>1, <3>2, <3>3
  <2> QED
    BY <2>1, <2>2 DEF Cancellable
<1>10. OrphansCancelled'
  BY <1>0, <1>2, <1>3 DEF OrphansCancelled
<1> QED
  BY <1>4, <1>5, <1>7, <1>8, <1>9, <1>10 DEF QualityInv

\* The I/O of a worker is submitted: its runtime remembers it.
LEMMA StartIOKeeps ==
  ASSUME QualityInv, NEW c \in Call, StartIO(c)
  PROVE  QualityInv'
<1>0. QualityType /\ Balance /\ Probing /\ Paired /\ Cancellable /\ OrphansCancelled
  BY DEF QualityInv
<1>1. PICK k \in Runtime : k = workers[c].runtime
  BY CallFacts DEF StartIO
<1>2. PICK b \in BOOLEAN : b = runtimes[k].cancel
  BY <1>0 DEF QualityType
<1> DEFINE w == [workers[c] EXCEPT !.at = "calling", !.cancelled = b]
<1>3. /\ workers \in [Call -> Worker] /\ calls \in [Call -> CallState]
      /\ runtimes \in [Runtime -> [cancel : BOOLEAN, call : Call \cup {0}]]
  BY <1>0 DEF QualityType
<1>4. /\ workers[c].at = "starting" /\ workers' = [workers EXCEPT ![c] = w]
      /\ runtimes' = [runtimes EXCEPT ![k].call = c]
      /\ UNCHANGED <<clock, breaker, closed, taken, qpermits, available, calls>>
  BY <1>1, <1>2, <1>3 DEF StartIO, CancelledBefore
<1>5. w \in Worker /\ w.at = "calling" /\ w.runtime = k
  BY <1>1, <1>3 DEF Worker
<1>6. w.cancelled = b
  BY <1>3 DEF Worker
<1> HIDE DEF w
<1>7. /\ workers' \in [Call -> Worker] /\ workers'[c] = w
      /\ \A d \in Call \ {c} : workers'[d] = workers[d]
  BY <1>3, <1>4, <1>5
<1>8. /\ runtimes' \in [Runtime -> [cancel : BOOLEAN, call : Call \cup {0}]]
      /\ runtimes'[k].call = c
      /\ \A j \in Runtime \ {k} : runtimes'[j] = runtimes[j]
  BY <1>3, <1>4
<1>9. \A j \in Runtime : runtimes'[j].cancel = runtimes[j].cancel
  BY <1>3, <1>4
<1>10. ASSUME NEW d \in Call \ {c}, workers[d].at \in Held
       PROVE  workers[d].runtime \in Runtime \ {k}
  BY <1>0, <1>1, <1>4, <1>10, CallFacts DEF Balance, Leasing, Held
<1>11. QualityType'
  BY <1>0, <1>4, <1>7, <1>8 DEF QualityType
<1>12. Balance'
  <2>1. \A d \in Call : /\ workers'[d].at \in Held <=> workers[d].at \in Held
                        /\ workers[d].at \in Held => workers'[d].runtime = workers[d].runtime
    BY <1>1, <1>4, <1>5, <1>7 DEF Held
  <2> QED
    BY <1>0, <1>4, <2>1, BalanceSame
<1>13. Probing'
  BY <1>0, <1>4 DEF Probing
<1>14. Paired'
  <2>1. k # 0
    BY DEF Runtime
  <2> QED
    BY <1>0, <1>4, <1>5, <1>7, <2>1 DEF Paired
<1>15. Cancellable'
  <2>1. ASSUME NEW d \in Call, workers'[d].at = "starting", calls'[d].at = "none"
        PROVE  runtimes'[workers'[d].runtime].cancel
    <3>1. d # c /\ workers[d].at = "starting" /\ workers'[d].runtime = workers[d].runtime
      BY <1>5, <1>7, <2>1
    <3>2. workers[d].runtime \in Runtime /\ runtimes[workers[d].runtime].cancel
      BY <1>0, <1>4, <1>10, <2>1, <3>1 DEF Cancellable, Held
    <3> QED
      BY <1>9, <3>1, <3>2
  <2>2. ASSUME NEW d \in Call, workers'[d].at = "calling"
        PROVE  runtimes'[workers'[d].runtime].call = d \/ workers'[d].cancelled
    <3>1. CASE d = c
      BY <1>5, <1>7, <1>8, <3>1
    <3>2. CASE d # c
      <4>1. workers[d].at = "calling" /\ workers'[d] = workers[d]
        BY <1>7, <2>2, <3>2
      <4>2. runtimes'[workers[d].runtime] = runtimes[workers[d].runtime]
        BY <1>8, <1>10, <3>2, <4>1 DEF Held
      <4> QED
        BY <1>0, <4>1, <4>2 DEF Cancellable
    <3> QED
      BY <3>1, <3>2
  <2>3. ASSUME NEW j \in Runtime, runtimes'[j].call # 0
        PROVE  /\ workers'[runtimes'[j].call].at = "calling"
               /\ workers'[runtimes'[j].call].runtime = j
    <3>1. CASE j = k
      BY <1>5, <1>7, <1>8, <3>1
    <3>2. CASE j # k
      <4>1. PICK d \in Call : d = runtimes[j].call
        BY <1>3, <1>8, <2>3, <3>2
      <4>2. workers[d].at = "calling" /\ workers[d].runtime = j /\ runtimes'[j].call = d
        BY <1>0, <1>8, <2>3, <3>2, <4>1 DEF Cancellable
      <4>3. d # c
        BY <1>4, <4>2
      <4> QED
        BY <1>7, <4>2, <4>3
    <3> QED
      BY <3>1, <3>2
  <2> QED
    BY <2>1, <2>2, <2>3 DEF Cancellable
<1>16. OrphansCancelled'
  <2>1. calls[c].at = "none" => b
    BY <1>0, <1>1, <1>2, <1>4 DEF Cancellable
  <2>2. calls[c].at = "none" => w.cancelled
    BY <1>6, <2>1
  <2> QED
    BY <1>0, <1>4, <1>7, <2>2 DEF OrphansCancelled
<1> QED
  BY <1>11, <1>12, <1>13, <1>14, <1>15, <1>16 DEF QualityInv

\* A thread ends: its runtime forgets its I/O, and still waits to be given back.
LEMMA EndThreadKeeps ==
  ASSUME QualityInv, NEW c \in Call, EndThread(c)
  PROVE  QualityInv'
<1>0. QualityType /\ Balance /\ Probing /\ Paired /\ Cancellable /\ OrphansCancelled
  BY DEF QualityInv
<1>1. PICK k \in Runtime : k = workers[c].runtime
  BY CallFacts DEF EndThread
<1>2. PICK outcome \in {"ok", "failed", "ineligible"} :
        workers' = [workers EXCEPT ![c].at = "returned", ![c].outcome = outcome]
  BY DEF EndThread
<1> DEFINE w == [workers[c] EXCEPT !.at = "returned", !.outcome = outcome]
<1>3. /\ workers \in [Call -> Worker] /\ calls \in [Call -> CallState]
      /\ runtimes \in [Runtime -> [cancel : BOOLEAN, call : Call \cup {0}]]
  BY <1>0 DEF QualityType
<1>4. /\ workers[c].at \in {"starting", "calling"} /\ workers' = [workers EXCEPT ![c] = w]
      /\ runtimes' = [runtimes EXCEPT ![k].call = IF @ = c THEN 0 ELSE @]
      /\ UNCHANGED <<clock, breaker, closed, taken, qpermits, available, calls>>
  BY <1>1, <1>2, <1>3 DEF EndThread
<1>5. w \in Worker /\ w.at = "returned" /\ w.runtime = k
  BY <1>1, <1>3 DEF Worker
<1> HIDE DEF w
<1>6. /\ workers' \in [Call -> Worker] /\ workers'[c] = w
      /\ \A d \in Call \ {c} : workers'[d] = workers[d]
  BY <1>3, <1>4, <1>5
<1>7. /\ runtimes' \in [Runtime -> [cancel : BOOLEAN, call : Call \cup {0}]]
      /\ runtimes'[k].call = IF runtimes[k].call = c THEN 0 ELSE runtimes[k].call
      /\ \A j \in Runtime \ {k} : runtimes'[j] = runtimes[j]
  BY <1>3, <1>4
<1>8. \A j \in Runtime : runtimes'[j].cancel = runtimes[j].cancel
  BY <1>3, <1>4
<1>9. ASSUME NEW d \in Call \ {c}, workers[d].at \in Held
      PROVE  workers[d].runtime \in Runtime \ {k}
  BY <1>0, <1>1, <1>4, <1>9, CallFacts DEF Balance, Leasing, Held
<1>10. QualityType'
  BY <1>0, <1>4, <1>6, <1>7 DEF QualityType
<1>11. Balance'
  <2>1. \A d \in Call : /\ workers'[d].at \in Held <=> workers[d].at \in Held
                        /\ workers[d].at \in Held => workers'[d].runtime = workers[d].runtime
    BY <1>1, <1>4, <1>5, <1>6 DEF Held
  <2> QED
    BY <1>0, <1>4, <2>1, BalanceSame
<1>12. Probing'
  BY <1>0, <1>4 DEF Probing
<1>13. Paired'
  <2>1. k # 0
    BY DEF Runtime
  <2> QED
    BY <1>0, <1>4, <1>5, <1>6, <2>1 DEF Paired
<1>14. Cancellable'
  <2>1. ASSUME NEW d \in Call, workers'[d].at \in {"starting", "calling"}
        PROVE  /\ d # c /\ workers'[d] = workers[d]
               /\ runtimes'[workers[d].runtime] = runtimes[workers[d].runtime]
    <3>1. d # c /\ workers'[d] = workers[d]
      BY <1>5, <1>6, <2>1
    <3> QED
      BY <1>7, <1>9, <2>1, <3>1 DEF Held
  <2>2. ASSUME NEW d \in Call, workers'[d].at = "starting", calls'[d].at = "none"
        PROVE  runtimes'[workers'[d].runtime].cancel
    BY <1>0, <1>4, <2>1, <2>2 DEF Cancellable
  <2>3. ASSUME NEW d \in Call, workers'[d].at = "calling"
        PROVE  runtimes'[workers'[d].runtime].call = d \/ workers'[d].cancelled
    BY <1>0, <2>1, <2>3 DEF Cancellable
  <2>4. ASSUME NEW j \in Runtime, runtimes'[j].call # 0
        PROVE  /\ workers'[runtimes'[j].call].at = "calling"
               /\ workers'[runtimes'[j].call].runtime = j
    <3>1. runtimes'[j].call = runtimes[j].call
      BY <1>7, <2>4
    <3>2. PICK d \in Call : d = runtimes[j].call
      BY <1>3, <2>4, <3>1
    <3>3. workers[d].at = "calling" /\ workers[d].runtime = j
      BY <1>0, <2>4, <3>1, <3>2 DEF Cancellable
    <3>4. d # c
      BY <1>1, <1>7, <2>4, <3>1, <3>2, <3>3, QualityAssumption
    <3> QED
      BY <1>6, <3>1, <3>2, <3>3, <3>4
  <2> QED
    BY <2>2, <2>3, <2>4 DEF Cancellable
<1>15. OrphansCancelled'
  BY <1>0, <1>4, <1>5, <1>6 DEF OrphansCancelled
<1> QED
  BY <1>10, <1>11, <1>12, <1>13, <1>14, <1>15 DEF QualityInv

\* The callback on the loop: permit and runtime come back together.
LEMMA GiveBackKeeps ==
  ASSUME QualityInv, NEW c \in Call, GiveBack(c)
  PROVE  QualityInv'
<1>0. QualityType /\ Balance /\ Probing /\ Paired /\ Cancellable /\ OrphansCancelled
  BY DEF QualityInv
<1>1. PICK k \in Runtime : k = workers[c].runtime
  BY CallFacts DEF GiveBack
<1>2. /\ workers \in [Call -> Worker] /\ calls \in [Call -> CallState]
      /\ available \in Seq(Runtime) /\ qpermits \in Nat /\ taken \in Nat
      /\ runtimes \in [Runtime -> [cancel : BOOLEAN, call : Call \cup {0}]]
  BY <1>0 DEF QualityType
<1> DEFINE w == IF calls[c].at = "inferring" THEN [workers[c] EXCEPT !.at = "ended"] ELSE NoWorker
<1>3. /\ workers[c].at = "returned" /\ workers' = [workers EXCEPT ![c] = w]
      /\ available' = Append(available, k) /\ qpermits' = qpermits + 1
      /\ UNCHANGED <<clock, breaker, closed, taken, runtimes, calls>>
  BY <1>1, <1>2 DEF GiveBack
<1>4. /\ w \in Worker /\ w.at \in {"ended", "none"}
      /\ w.at = "ended" => w.runtime = k
      /\ calls[c].at = "inferring" => w.at = "ended"
  BY <1>1, <1>2 DEF Worker, NoWorker
<1> HIDE DEF w
<1>5. /\ workers' \in [Call -> Worker] /\ workers'[c] = w
      /\ \A d \in Call \ {c} : workers'[d] = workers[d]
  BY <1>2, <1>3, <1>4
<1>6. /\ available' \in Seq(Runtime) /\ Len(available') = Len(available) + 1
  BY <1>2, <1>3, AppendProperties
<1>7. IsInjective(available') /\ Range(available') = Range(available) \cup {k}
  <2>1. k \notin Range(available) /\ IsInjective(available)
    BY <1>0, <1>1, <1>3 DEF Balance, Leasing
  <2> QED
    BY <1>2, <1>3, <2>1, AppendRange
<1>8. QualityType'
  BY <1>0, <1>3, <1>5, <1>6 DEF QualityType
<1>9. Balance'
  <2>1. Leasing' = Leasing \ {c} /\ c \in Leasing
    BY <1>3, <1>4, <1>5 DEF Leasing
  <2>2. Cardinality(Leasing') = Cardinality(Leasing) - 1
    BY <2>1, LeasingFinite, FS_RemoveElement
  <2>3. PICK n \in Nat : n = Cardinality(Leasing)
    BY LeasingFinite
  <2>4. /\ qpermits' + taken' + Cardinality(Leasing') = MaxConcurrency
        /\ Len(available') = qpermits' + taken'
    <3>1. qpermits + taken + n = MaxConcurrency /\ Len(available) = qpermits + taken
      BY <1>0, <2>3 DEF Balance
    <3> QED
      BY <1>2, <1>3, <1>6, <2>2, <2>3, <3>1
  <2>5. ASSUME NEW d \in Leasing'
        PROVE  d \in Leasing /\ d # c /\ workers'[d].runtime = workers[d].runtime
    BY <1>5, <2>1 DEF Leasing
  <2>6. \A d \in Leasing' : workers'[d].runtime \notin Range(available')
    BY <1>0, <1>1, <1>7, <2>1, <2>5 DEF Balance
  <2>7. \A d, e \in Leasing' : workers'[d].runtime = workers'[e].runtime => d = e
    BY <1>0, <2>5 DEF Balance
  <2> QED
    BY <1>7, <2>4, <2>6, <2>7 DEF Balance
<1>10. Probing'
  BY <1>0, <1>3 DEF Probing
<1>11. Paired'
  <2>1. k # 0
    BY DEF Runtime
  <2> QED
    BY <1>0, <1>3, <1>4, <1>5, <2>1 DEF Paired
<1>12. Cancellable'
  <2>1. \A d \in Call : /\ workers'[d].at = "starting" /\ calls'[d].at = "none" => runtimes'[workers'[d].runtime].cancel
                        /\ workers'[d].at = "calling" => \/ runtimes'[workers'[d].runtime].call = d
                                                         \/ workers'[d].cancelled
    BY <1>0, <1>3, <1>4, <1>5 DEF Cancellable
  <2>2. ASSUME NEW j \in Runtime, runtimes'[j].call # 0
        PROVE  /\ workers'[runtimes'[j].call].at = "calling"
               /\ workers'[runtimes'[j].call].runtime = j
    <3>1. PICK d \in Call : d = runtimes[j].call
      BY <1>2, <1>3, <2>2
    <3>2. workers[d].at = "calling" /\ workers[d].runtime = j
      BY <1>0, <1>3, <2>2, <3>1 DEF Cancellable
    <3>3. d # c
      BY <1>3, <3>2
    <3> QED
      BY <1>3, <1>5, <3>1, <3>2, <3>3
  <2> QED
    BY <2>1, <2>2 DEF Cancellable
<1>13. OrphansCancelled'
  BY <1>0, <1>3, <1>4, <1>5 DEF OrphansCancelled
<1> QED
  BY <1>8, <1>9, <1>10, <1>11, <1>12, <1>13 DEF QualityInv

\* The extractor is closed: permits are taken from the calls, and in the end
\* whatever still runs is cancelled.
LEMMA CloseKeeps ==
  ASSUME QualityInv, StartClose \/ TakePermit \/ EndClose
  PROVE  QualityInv'
<1>0. QualityType /\ Balance /\ Probing /\ Paired /\ Cancellable /\ OrphansCancelled
  BY DEF QualityInv
<1>1. /\ workers \in [Call -> Worker] /\ calls \in [Call -> CallState]
      /\ runtimes \in [Runtime -> [cancel : BOOLEAN, call : Call \cup {0}]]
      /\ qpermits \in Nat /\ taken \in Nat
  BY <1>0 DEF QualityType
<1>2. CASE StartClose \/ TakePermit
  <2>1. /\ UNCHANGED <<clock, breaker, available, runtimes, calls, workers>>
        /\ closed' \in {"draining", closed}
        /\ qpermits' \in Nat /\ taken' \in Nat /\ qpermits' + taken' = qpermits + taken
    BY <1>1, <1>2 DEF StartClose, TakePermit
  <2>2. QualityType'
    BY <1>0, <2>1 DEF QualityType
  <2>3. Balance'
    <3>1. Leasing' = Leasing
      BY <2>1 DEF Leasing
    <3> QED
      BY <1>0, <2>1, <3>1 DEF Balance
  <2> QED
    BY <1>0, <2>1, <2>2, <2>3 DEF QualityInv, Probing, Paired, Cancellable, OrphansCancelled
<1>3. CASE EndClose
  <2>1. /\ UNCHANGED <<clock, breaker, taken, qpermits, available, calls>> /\ closed' = "closed"
        /\ \A j \in Runtime : runtimes'[j].cancel = TRUE /\ runtimes'[j].call = 0
        /\ runtimes' \in [Runtime -> [cancel : BOOLEAN, call : Call \cup {0}]]
    BY <1>3 DEF EndClose
  <2>2. ASSUME NEW d \in Call
        PROVE  /\ workers'[d] \in Worker /\ workers'[d].at = workers[d].at
               /\ workers'[d].runtime = workers[d].runtime
               /\ workers[d].at = "calling" => workers'[d].cancelled
    <3> DEFINE w == [workers[d] EXCEPT !.cancelled = TRUE]
    <3>1. /\ w \in Worker /\ w.at = workers[d].at /\ w.runtime = workers[d].runtime
          /\ w.cancelled = TRUE
      BY <1>1 DEF Worker
    <3>2. workers'[d] = IF workers[d].at = "calling" THEN w ELSE workers[d]
      BY <1>3 DEF EndClose
    <3> HIDE DEF w
    <3> QED
      BY <1>1, <3>1, <3>2
  <2>3. workers' \in [Call -> Worker]
    <3>1. workers' = [d \in Call |-> workers'[d]]
      BY <1>3 DEF EndClose
    <3> QED
      BY <2>2, <3>1
  <2>4. QualityType'
    BY <1>0, <2>1, <2>3 DEF QualityType
  <2>5. Balance'
    BY <1>0, <2>1, <2>2, BalanceSame
  <2>6. Probing' /\ Paired'
    BY <1>0, <2>1, <2>2 DEF Probing, Paired
  <2>7. ASSUME NEW d \in Call, workers'[d].at = "starting"
        PROVE  runtimes'[workers'[d].runtime].cancel
    BY <2>1, <2>2, <2>7, CallFacts
  <2>8. Cancellable'
    BY <2>1, <2>2, <2>7 DEF Cancellable
  <2>9. OrphansCancelled'
    BY <2>2 DEF OrphansCancelled
  <2> QED
    BY <2>4, <2>5, <2>6, <2>8, <2>9 DEF QualityInv
<1> QED
  BY <1>2, <1>3

\* The passing of time keeps the quality path sound.
LEMMA TickKeeps ==
  ASSUME QualityInv, Tick
  PROVE  QualityInv'
<1>1. /\ UNCHANGED <<breaker, closed, taken, qpermits, available, runtimes, calls, workers>>
      /\ clock' \in 0 .. MaxTime
  BY QualityAssumption DEF Tick, QualityInv, QualityType
<1>2. QualityType'
  BY <1>1 DEF QualityInv, QualityType
<1>3. Balance'
  BY <1>1, BalanceSame DEF QualityInv
<1> QED
  BY <1>1, <1>2, <1>3 DEF QualityInv, Probing, Paired, Cancellable, OrphansCancelled

\* So does a step elsewhere.
LEMMA QualityUnchanged ==
  ASSUME QualityInv, UNCHANGED qualityVars
  PROVE  QualityInv'
<1>1. UNCHANGED <<clock, breaker, closed, taken, qpermits, available, runtimes, calls, workers>>
  BY DEF qualityVars
<1>2. QualityType'
  BY <1>1 DEF QualityInv, QualityType
<1>3. Balance'
  BY <1>1, BalanceSame DEF QualityInv
<1> QED
  BY <1>1, <1>2, <1>3 DEF QualityInv, Probing, Paired, Cancellable, OrphansCancelled
-----------------------------------------------------------------------------
(* The composition *)

\* No request, no thread and no lease at the start.
LEMMA InitIInv == Init => IInv
<1> SUFFICES ASSUME Init PROVE IInv
  OBVIOUS
<1>1. LimitInv
  <2>1. served \in [Request -> Served] /\ active = 0
    BY DEF Init, LimitsInit, Served
  <2>2. \A r \in Request : /\ served[r].at = "new" /\ ~served[r].admitted /\ served[r].answers = 0
    BY DEF Init, LimitsInit
  <2>3. active = Cardinality({r \in Request : served[r].admitted})
    <3>1. {r \in Request : served[r].admitted} = {}
      BY <2>2
    <3> QED
      BY <2>1, <3>1, FS_EmptySet
  <2>4. SlotsExact
    BY <2>1, <2>2, <2>3, LimitsAssumption DEF SlotsExact
  <2>5. AnswersExact
    BY <2>2 DEF AnswersExact
  <2> QED
    BY <2>1, <2>4, <2>5 DEF LimitInv
<1>2. PermitInv
  <2>1. /\ permits = MaxExtractions /\ line = << >>
        /\ threads = [p \in Page |-> 0] /\ Busy = {}
        /\ extraction = [p \in Page |-> "none"]
    BY DEF Init, PermitsInit, Busy
  <2>2. line \in Seq(Page) /\ Range(line) = {} /\ IsInjective(line)
    <3>1. line \in Seq(Page) /\ DOMAIN line = {}
      BY <2>1
    <3> QED
      BY <3>1 DEF Range, IsInjective
  <2>3. WorkersBounded
    BY <2>1, PermitsAssumption, FS_EmptySet DEF WorkersBounded
  <2>4. LineSound
    BY <2>1, <2>2 DEF LineSound
  <2> QED
    BY <2>1, <2>2, <2>3, <2>4, PermitsAssumption DEF PermitInv, Extraction
<1>3. QualityInv
  <2>1. /\ clock = 0 /\ breaker = [failures |-> 0, openUntil |-> 0, probing |-> FALSE]
        /\ closed = "no" /\ taken = 0 /\ qpermits = MaxConcurrency
        /\ available = [k \in Runtime |-> k]
        /\ runtimes = [k \in Runtime |-> [cancel |-> FALSE, call |-> 0]]
        /\ calls = [c \in Call |-> Idle] /\ workers = [c \in Call |-> NoWorker]
    BY DEF Init, QualityInit
  <2>2. /\ MaxConcurrency \in Nat /\ available \in Seq(Runtime) /\ Len(available) = MaxConcurrency
        /\ IsInjective(available)
    <3>1. MaxConcurrency \in Nat
      BY QualityAssumption
    <3>2. available \in [1 .. MaxConcurrency -> Runtime]
      BY <2>1 DEF Runtime
    <3>3. available \in Seq(Runtime)
      BY <3>1, <3>2, IsASeq DEF Runtime
    <3>4. Len(available) = MaxConcurrency
      BY <3>1, <3>2, <3>3, LenProperties
    <3> QED
      BY <2>1, <3>1, <3>3, <3>4 DEF IsInjective, Runtime
  <2>3. /\ Idle \in CallState /\ Idle.at = "none"
        /\ NoWorker \in Worker /\ NoWorker.at = "none"
    BY DEF Idle, CallState, NoWorker, Worker
  <2>4. QualityType
    BY <2>1, <2>2, <2>3, QualityAssumption DEF QualityType, Breaker
  <2>5. Leasing = {}
    BY <2>1, <2>3 DEF Leasing
  <2>6. Balance
    BY <2>1, <2>2, <2>5, FS_EmptySet DEF Balance
  <2> QED
    BY <2>1, <2>3, <2>4, <2>6 DEF QualityInv, Probing, Paired, Cancellable, OrphansCancelled
<1>4. PathSound
  BY DEF Init, PermitsInit, PathSound, Stages, Busy
<1> QED
  BY <1>1, <1>2, <1>3, <1>4 DEF IInv

\* What a request moves to, and where the pages are afterwards.
LEMMA MoveKeeps ==
  ASSUME IInv, NEW r \in Request, NEW s \in Stages, Moves(r, s) \/ UNCHANGED stage,
         Moves(r, s) /\ s \in {"extraction", "quality"} => r \in Page,
         \A p \in Page : p \in Busy' \/ extraction'[p] # "none" => served'[p].at \notin {"new", "body"}
  PROVE  PathSound'
<1>1. stage \in [Request -> Stages] /\ \A q \in Request : stage[q] \in {"extraction", "quality"} => q \in Page
  BY DEF IInv, PathSound
<1>2. CASE Moves(r, s)
  <2>1. /\ stage' \in [Request -> Stages] /\ stage'[r] = s
        /\ \A q \in Request \ {r} : stage'[q] = stage[q]
    BY <1>1, <1>2 DEF Moves
  <2> QED
    BY <1>1, <1>2, <2>1 DEF PathSound
<1>3. CASE UNCHANGED stage
  BY <1>1, <1>3 DEF PathSound
<1> QED
  BY <1>2, <1>3

\* Nobody new joins the line, and nobody goes back to before the application.
LEMMA PagesStay ==
  ASSUME IInv, NeverBack, Busy' \subseteq Busy,
         \A p \in Page : extraction'[p] # "none" => extraction[p] # "none" \/ p \in Busy
  PROVE  \A p \in Page : p \in Busy' \/ extraction'[p] # "none" => served'[p].at \notin {"new", "body"}
<1> SUFFICES ASSUME NEW p \in Page, p \in Busy' \/ extraction'[p] # "none"
             PROVE  served'[p].at \notin {"new", "body"}
  OBVIOUS
<1>1. served[p].at \notin {"new", "body"}
  BY DEF IInv, PathSound
<1> QED
  BY <1>1, PageFinite DEF NeverBack

\* Arrivals keep the invariant.
LEMMA ArriveIInv == ASSUME IInv, NEW r \in Request, Arrive(r) PROVE IInv'
<1>1. LimitInv' /\ NeverBack
  BY ArriveKeeps DEF IInv, Arrive
<1>2. PermitInv' /\ QualityInv' /\ UNCHANGED <<extraction, Busy, stage>>
  BY PermitsUnchanged, QualityUnchanged DEF IInv, Arrive, permitVars
<1>3. \A p \in Page : p \in Busy' \/ extraction'[p] # "none" => served'[p].at \notin {"new", "body"}
  BY <1>1, <1>2, PagesStay
<1>4. PathSound'
  BY <1>2, <1>3, MoveKeeps DEF Stages
<1> QED
  BY <1>1, <1>2, <1>4 DEF IInv

\* The start of the crawl inside a request keeps the invariant.
LEMMA BeginIInv == ASSUME IInv, NEW r \in Request, Begin(r) PROVE IInv'
<1>1. LimitInv' /\ NeverBack /\ served[r].at = "body" /\ served'[r].at = "app"
  BY EnterKeeps DEF IInv, Begin
<1>2. QualityInv'
  BY QualityUnchanged DEF IInv, Begin
<1>3. CASE r \in Page /\ AskPermit(r) /\ Moves(r, "extraction")
  <2>1. r \notin Busy
    BY <1>1, <1>3 DEF IInv, PathSound
  <2>2. /\ extraction[r] = "none" /\ UNCHANGED <<permits, threads>>
        /\ extraction' = [extraction EXCEPT ![r] = "queued"] /\ line' = Append(line, r)
    BY <1>3 DEF AskPermit
  <2>3. PermitInv' /\ Busy' = Busy
    BY <1>3, <2>1, <2>2, QueueKeeps DEF IInv
  <2>4. ASSUME NEW p \in Page, p \in Busy' \/ extraction'[p] # "none"
        PROVE  served'[p].at \notin {"new", "body"}
    <3>1. CASE p = r
      BY <1>1, <3>1
    <3>2. CASE p # r
      <4>1. p \in Busy \/ extraction[p] # "none"
        BY <2>2, <2>3, <2>4, <3>2 DEF IInv, PermitInv
      <4> QED
        BY <1>1, <4>1, PageFinite DEF IInv, PathSound, NeverBack
    <3> QED
      BY <3>1, <3>2
  <2>5. PathSound'
    BY <1>3, <2>4, MoveKeeps DEF Stages
  <2> QED
    BY <1>1, <1>2, <2>3, <2>5 DEF IInv
<1>4. CASE r \notin Page /\ Moves(r, "answer") /\ UNCHANGED permitVars
  <2>1. PermitInv' /\ UNCHANGED <<extraction, Busy>>
    BY <1>4, PermitsUnchanged DEF IInv, permitVars
  <2>2. \A p \in Page : p \in Busy' \/ extraction'[p] # "none" => served'[p].at \notin {"new", "body"}
    BY <1>1, <2>1, PagesStay
  <2>3. PathSound'
    BY <1>4, <2>2, MoveKeeps DEF Stages
  <2> QED
    BY <1>1, <1>2, <2>1, <2>3 DEF IInv
<1> QED
  BY <1>3, <1>4 DEF Begin

\* A further page of the same request keeps the invariant.
LEMMA AgainIInv == ASSUME IInv, NEW r \in Request, Again(r) PROVE IInv'
<1>1. LimitInv' /\ NeverBack /\ QualityInv'
  BY LimitsUnchanged, QualityUnchanged DEF IInv, Again
<1>2. /\ r \in Page /\ extraction[r] = "finished" /\ UNCHANGED <<permits, threads, stage>>
      /\ extraction' = [extraction EXCEPT ![r] = "queued"] /\ line' = Append(line, r)
  BY DEF IInv, PathSound, Again, In
<1>3. r \notin Busy
  BY <1>2 DEF IInv, PermitInv, LineSound
<1>4. PermitInv' /\ Busy' = Busy
  BY <1>2, <1>3, QueueKeeps DEF IInv
<1>5. \A p \in Page : extraction'[p] # "none" => extraction[p] # "none"
  BY <1>2 DEF IInv, PermitInv
<1>6. \A p \in Page : p \in Busy' \/ extraction'[p] # "none" => served'[p].at \notin {"new", "body"}
  BY <1>1, <1>4, <1>5, PagesStay
<1>7. PathSound'
  BY <1>2, <1>6, MoveKeeps DEF Stages
<1> QED
  BY <1>1, <1>4, <1>7 DEF IInv

\* The end of an extraction keeps the invariant.
LEMMA ExtractedIInv == ASSUME IInv, NEW r \in Request, Extracted(r) PROVE IInv'
<1>1. LimitInv' /\ NeverBack
  BY LimitsUnchanged DEF IInv, Extracted
<1>2. r \in Page /\ TakeResult(r)
  BY DEF IInv, PathSound, Extracted, In
<1>3. PermitInv' /\ Busy' = Busy
  BY <1>2, LeaveExtractionKeeps DEF IInv
<1>4. QualityInv' /\ \E s \in {"quality", "answer"} : Moves(r, s)
  <2>1. CASE Enter(r) /\ Moves(r, "quality")
    BY <1>2, <2>1, AdmissionKeeps, PageFinite DEF IInv
  <2>2. CASE (Refuse(r) \/ UNCHANGED qualityVars) /\ Moves(r, "answer")
    BY <2>2, QualityUnchanged DEF IInv, Refuse
  <2> QED
    BY <2>1, <2>2 DEF Extracted
<1>5. \A p \in Page : extraction'[p] # "none" => extraction[p] # "none"
  BY <1>2 DEF IInv, PermitInv, TakeResult
<1>6. \A p \in Page : p \in Busy' \/ extraction'[p] # "none" => served'[p].at \notin {"new", "body"}
  BY <1>1, <1>3, <1>5, PagesStay
<1>7. PathSound'
  BY <1>2, <1>4, <1>6, MoveKeeps DEF Stages
<1> QED
  BY <1>1, <1>3, <1>4, <1>7 DEF IInv

\* The steps of the request that touch neither line nor threads.
LEMMA QuietKeeps ==
  ASSUME IInv, NEW r \in Request, NEW s \in {"none", "answer"}, Moves(r, s) \/ UNCHANGED stage,
         NeverBack, UNCHANGED permitVars
  PROVE  PermitInv' /\ PathSound'
<1>1. PermitInv' /\ UNCHANGED <<extraction, Busy>>
  BY PermitsUnchanged DEF IInv, permitVars
<1>2. \A p \in Page : p \in Busy' \/ extraction'[p] # "none" => served'[p].at \notin {"new", "body"}
  BY <1>1, PagesStay
<1>3. PathSound'
  BY <1>2, MoveKeeps DEF Stages
<1> QED
  BY <1>1, <1>3

\* The end of the quality path keeps the invariant.
LEMMA AssistedIInv == ASSUME IInv, NEW r \in Request, Assisted(r) PROVE IInv'
<1>1. r \in Call
  BY PageFinite DEF IInv, PathSound, Assisted, In
<1>2. QualityInv'
  BY <1>1, AdmissionKeeps, StartFailsKeeps, GiveUpKeeps, TakeQualityKeeps DEF IInv, Assisted
<1>3. LimitInv' /\ NeverBack
  BY LimitsUnchanged DEF IInv, Assisted
<1>4. PermitInv' /\ PathSound'
  BY <1>3, QuietKeeps DEF Assisted
<1> QED
  BY <1>2, <1>3, <1>4 DEF IInv

\* The steps of an inference keep the invariant.
LEMMA InferIInv == ASSUME IInv, NEW r \in Request, Infer(r) PROVE IInv'
<1>1. r \in Call
  BY PageFinite DEF IInv, PathSound, Infer, In
<1>2. QualityInv'
  BY <1>1, LeaseKeeps DEF IInv, Infer
<1>3. LimitInv' /\ NeverBack
  BY LimitsUnchanged DEF IInv, Infer
<1>4. PermitInv' /\ PathSound'
  BY <1>3, QuietKeeps DEF Infer
<1> QED
  BY <1>2, <1>3, <1>4 DEF IInv

\* The answer and the way out keep the invariant.
LEMMA AnsweringIInv == ASSUME IInv, NEW r \in Request, Respond(r) \/ Leave(r) PROVE IInv'
<1>1. LimitInv' /\ NeverBack
  BY AnswerKeeps, LeavingKeeps DEF IInv, Respond, Leave
<1>2. QualityInv'
  BY QualityUnchanged DEF IInv, Respond, Leave
<1>3. PermitInv' /\ PathSound'
  <2>1. UNCHANGED permitVars /\ (Moves(r, "none") \/ UNCHANGED stage)
    BY DEF Respond, Leave
  <2> QED
    BY <1>1, <2>1, QuietKeeps
<1> QED
  BY <1>1, <1>2, <1>3 DEF IInv

\* A deadline or a disconnection at any stage keeps the invariant.
LEMMA InterruptedIInv == ASSUME IInv, NEW r \in Request, Interrupted(r) PROVE IInv'
<1>1. LimitInv' /\ NeverBack /\ Moves(r, "none")
  BY LeavingKeeps DEF IInv, Interrupted
<1>2. CASE r \notin Page /\ UNCHANGED <<permitVars, qualityVars>>
  <2>1. PermitInv' /\ PathSound'
    BY <1>1, <1>2, QuietKeeps
  <2>2. QualityInv'
    BY <1>2, QualityUnchanged DEF IInv
  <2> QED
    BY <1>1, <2>1, <2>2 DEF IInv
<1>3. CASE /\ r \in Page /\ LeaveExtraction(r)
           /\ LeaveCapacity(r) \/ LeaveInference(r) \/ UNCHANGED qualityVars
  <2>1. PermitInv' /\ Busy' = Busy
    BY <1>3, LeaveExtractionKeeps DEF IInv
  <2>2. QualityInv'
    BY <1>3, AdmissionKeeps, GiveUpKeeps, QualityUnchanged, PageFinite DEF IInv
  <2>3. \A p \in Page : extraction'[p] # "none" => extraction[p] # "none"
    BY <1>3 DEF IInv, PermitInv, LeaveExtraction
  <2>4. \A p \in Page : p \in Busy' \/ extraction'[p] # "none" => served'[p].at \notin {"new", "body"}
    BY <1>1, <2>1, <2>3, PagesStay
  <2>5. PathSound'
    BY <1>1, <2>4, MoveKeeps DEF Stages
  <2> QED
    BY <1>1, <2>1, <2>2, <2>5 DEF IInv
<1> QED
  BY <1>2, <1>3 DEF Interrupted

\* Worker threads keep the invariant.
LEMMA WorkIInv == ASSUME IInv, NEW p \in Page, Work(p) PROVE IInv'
<1>1. LimitInv' /\ NeverBack /\ UNCHANGED stage
  BY LimitsUnchanged DEF IInv, Work
<1>2. p \in Request /\ p \in Call
  BY PageFinite
<1>3. CASE (StartThreads(p) \/ ThreadEnds(p) \/ LastThreadEnds(p)) /\ UNCHANGED qualityVars
  <2>1. PermitInv'
    BY <1>3, StartThreadsKeeps, ThreadEndsKeeps, LastThreadEndsKeeps DEF IInv
  <2>2. QualityInv'
    BY <1>3, QualityUnchanged DEF IInv
  <2>3. /\ Busy' \subseteq Busy \cup {p} /\ (p \in Busy \/ extraction[p] # "none")
        /\ \A q \in Page \ {p} : extraction'[q] = extraction[q]
    <3>1. CASE StartThreads(p)
      BY <3>1, StartThreadsKeeps DEF IInv, PermitInv, StartThreads
    <3>2. CASE ThreadEnds(p)
      BY <3>2, ThreadEndsKeeps DEF IInv, PermitInv, ThreadEnds, Busy
    <3>3. CASE LastThreadEnds(p)
      <4>1. p \in Busy
        BY <3>3 DEF LastThreadEnds, Busy
      <4> QED
        BY <3>3, <4>1, LastThreadEndsKeeps DEF IInv, PermitInv, LastThreadEnds
    <3> QED
      BY <1>3, <3>1, <3>2, <3>3
  <2>4. ASSUME NEW q \in Page, q \in Busy' \/ extraction'[q] # "none"
        PROVE  served'[q].at \notin {"new", "body"}
    <3>1. q \in Busy \/ extraction[q] # "none"
      BY <2>3, <2>4
    <3> QED
      BY <1>1, <3>1, PageFinite DEF IInv, PathSound, NeverBack
  <2>5. PathSound'
    BY <1>1, <1>2, <2>4, MoveKeeps DEF Stages
  <2> QED
    BY <1>1, <2>1, <2>2, <2>5 DEF IInv
<1>4. CASE (StartIO(p) \/ EndThread(p) \/ GiveBack(p)) /\ UNCHANGED permitVars
  <2>1. QualityInv'
    BY <1>2, <1>4, StartIOKeeps, EndThreadKeeps, GiveBackKeeps DEF IInv
  <2>2. PermitInv' /\ PathSound'
    BY <1>1, <1>2, <1>4, QuietKeeps
  <2> QED
    BY <1>1, <2>1, <2>2 DEF IInv
<1> QED
  BY <1>3, <1>4 DEF Work

\* Steps of nobody in particular: shutdown, time, and none at all.
LEMMA OtherIInv == ASSUME IInv, Close \/ Time \/ UNCHANGED vars PROVE IInv'
<1>1. UNCHANGED <<limitVars, permitVars, stage>>
  BY DEF Close, Time, vars
<1>2. LimitInv' /\ NeverBack
  BY <1>1, LimitsUnchanged DEF IInv
<1>3. PermitInv' /\ UNCHANGED <<extraction, Busy, stage>>
  BY <1>1, PermitsUnchanged DEF IInv, permitVars
<1>4. QualityInv'
  BY CloseKeeps, TickKeeps, QualityUnchanged DEF IInv, Close, Time, vars
<1>5. \A p \in Page : p \in Busy' \/ extraction'[p] # "none" => served'[p].at \notin {"new", "body"}
  BY <1>2, <1>3, PagesStay
<1>6. PathSound'
  BY <1>3, <1>5 DEF IInv, PathSound
<1> QED
  BY <1>2, <1>3, <1>4, <1>6 DEF IInv

\* Every step keeps the invariant.
LEMMA NextIInv == IInv /\ [Next]_vars => IInv'
<1> SUFFICES ASSUME IInv, [Next]_vars PROVE IInv'
  OBVIOUS
<1>1. ASSUME NEW r \in Request, Arrive(r) \/ RequestStep(r) \/ Interrupted(r)
      PROVE  IInv'
  BY <1>1, ArriveIInv, BeginIInv, AgainIInv, ExtractedIInv, AssistedIInv, InferIInv,
     AnsweringIInv, InterruptedIInv DEF RequestStep
<1>2. ASSUME NEW p \in Page, Work(p)
      PROVE  IInv'
  BY <1>2, WorkIInv
<1>3. CASE Close \/ Time \/ UNCHANGED vars
  BY <1>3, OtherIInv
<1> QED
  BY <1>1, <1>2, <1>3 DEF Next

\* The inductive invariant of the request path.
LEMMA Invariance == Spec => []IInv
<1>1. Init => IInv
  BY InitIInv
<1>2. IInv /\ [Next]_vars => IInv'
  BY NextIInv
<1> QED
  BY <1>1, <1>2, PTL DEF Spec
-----------------------------------------------------------------------------
(* The theorems *)

\* Slots are counted exactly (ResourceLimitMiddleware), a permit of the quality
\* extractor stands for a runtime, none is leased twice, the half-open flag has a
\* probe that will clear it, and no I/O goes on that nobody awaits unless it has
\* been cancelled: for every number of requests, slots, permits and runtimes.
THEOREM PathIsSound == Spec => []PathInv
<1>1. IInv => PathInv
  <2> SUFFICES ASSUME IInv PROVE PathInv
    OBVIOUS
  <2>1. SlotsExact /\ AnsweredOnce /\ OrphansCancelled
    BY DEF IInv, LimitInv, QualityInv, AnswersExact, AnsweredOnce
  <2>2. QualityType /\ Balance /\ Probing
    BY DEF IInv, QualityInv
  <2>3. taken \in 0 .. MaxConcurrency
    <3>1. PICK n \in Nat : n = Cardinality(Leasing)
      BY LeasingFinite
    <3> QED
      BY <2>2, <3>1, QualityAssumption DEF QualityType, Balance
  <2>4. QualitySound
    <3>1. \A c \in Leasing : workers[c].runtime \notin {available[i] : i \in DOMAIN available}
      BY <2>2 DEF Balance, Range
    <3> QED
      BY <2>2, <3>1 DEF Balance, Probing, QualitySound
  <2>5. TypeOK
    BY <2>2, <2>3 DEF IInv, LimitInv, PermitInv, PathSound, QualityType, TypeOK
  <2> QED
    BY <2>1, <2>4, <2>5 DEF PathInv
<1> QED
  BY <1>1, Invariance, PTL

\* A request is answered at most once, and every one that was not cancelled is:
\* the deadline answers only when no response was started.
THEOREM AnsweredAtMostOnce == Spec => []AnsweredOnce
<1>1. IInv => AnsweredOnce
  BY DEF IInv, LimitInv, AnswersExact, AnsweredOnce
<1> QED
  BY <1>1, Invariance, PTL

\* "Cancellation floods cannot exceed the configured CPU concurrency": permits
\* and the pages with threads at work always add up, however many requests have
\* left theirs.
THEOREM CancellationFloodsAreBounded == Spec => []WorkersBounded
<1>1. IInv => WorkersBounded
  BY DEF IInv, PermitInv
<1> QED
  BY <1>1, Invariance, PTL
=============================================================================
