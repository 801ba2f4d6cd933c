----------------------------- MODULE RequestPath -----------------------------
(***************************************************************************)
(* A request for one page from its admission to its response: the          *)
(* middleware of ResourceLimits around the deterministic extraction of     *)
(* ExtractionPermits and then, in the quality profile, the                 *)
(* QualityExtractor (extract_content_async in src/app/services/            *)
(* extractor.py).  A deadline or a cancellation of the request reaches     *)
(* whatever it awaits in the same step; threads go on.                     *)
(***************************************************************************)
EXTENDS ResourceLimits, ExtractionPermits, QualityExtractor

\* The other requests hold a slot and neither a permit nor a runtime.
ASSUME PathAssumption == Page \subseteq Request /\ Call = Page

VARIABLE stage   \* per request: where extract_content_async is

vars == <<limitVars, permitVars, qualityVars, stage>>

Stages == {"none", "extraction", "quality", "answer"}

Init ==
  /\ LimitsInit /\ PermitsInit /\ QualityInit
  /\ stage = [r \in Request |-> "none"]

In(r, s) == served[r].at = "app" /\ stage[r] = s
Moves(r, s) == stage' = [stage EXCEPT ![r] = s]

-----------------------------------------------------------------------------
(* The request *)

Arrive(r) ==
  /\ RefuseLength(r) \/ RefuseBusy(r) \/ Admit(r) \/ RefuseBody(r)
  /\ UNCHANGED <<permitVars, qualityVars, stage>>

Begin(r) ==
  /\ EnterApp(r)
  /\ \/ r \in Page /\ AskPermit(r) /\ Moves(r, "extraction")
     \/ r \notin Page /\ Moves(r, "answer") /\ UNCHANGED permitVars
  /\ UNCHANGED qualityVars

\* A further round of workers, under a permit of its own: the native rules
\* after a specialised route, a rescue, a fallback.
Again(r) ==
  /\ In(r, "extraction")
  /\ extraction[r] = "finished"
  /\ extraction' = [extraction EXCEPT ![r] = "queued"]
  /\ line' = Append(line, r)
  /\ UNCHANGED <<limitVars, qualityVars, permits, threads, stage>>

\* Another profile, or a specialised route, is answered as it is.
Extracted(r) ==
  /\ In(r, "extraction")
  /\ TakeResult(r)
  /\ \/ Enter(r) /\ Moves(r, "quality")
     \/ Refuse(r) /\ Moves(r, "answer")
     \/ Moves(r, "answer") /\ UNCHANGED qualityVars
  /\ UNCHANGED limitVars

Assisted(r) ==
  /\ In(r, "quality")
  /\ CapacityTimeout(r) \/ StartFails(r) \/ LeaseClosed(r) \/ InferenceTimeout(r) \/ TakeQuality(r)
  /\ Moves(r, "answer")
  /\ UNCHANGED <<limitVars, permitVars>>

Infer(r) ==
  /\ In(r, "quality")
  /\ Lease(r)
  /\ UNCHANGED <<limitVars, permitVars, stage>>

Respond(r) ==
  /\ In(r, "answer")
  /\ Answer(r)
  /\ UNCHANGED <<permitVars, qualityVars, stage>>

Leave(r) ==
  /\ Return(r)
  /\ Moves(r, "none")
  /\ UNCHANGED <<permitVars, qualityVars>>

\* The request is interrupted in whatever it awaits.
Interrupted(r) ==
  /\ Interrupt(r)
  /\ \/ r \notin Page /\ UNCHANGED <<permitVars, qualityVars>>
     \/ /\ r \in Page
        /\ LeaveExtraction(r)
        /\ \/ LeaveCapacity(r) \/ LeaveInference(r)
           \/ calls[r].at = "none" /\ UNCHANGED qualityVars
  /\ Moves(r, "none")
-----------------------------------------------------------------------------
(* Threads, shutdown, time *)

Work(p) ==
  \/ /\ StartThreads(p) \/ ThreadEnds(p) \/ LastThreadEnds(p)
     /\ UNCHANGED <<limitVars, qualityVars, stage>>
  \/ /\ StartIO(p) \/ EndThread(p) \/ GiveBack(p)
     /\ UNCHANGED <<limitVars, permitVars, stage>>

Close == /\ StartClose \/ TakePermit \/ EndClose
         /\ UNCHANGED <<limitVars, permitVars, stage>>

Time == Tick /\ UNCHANGED <<limitVars, permitVars, stage>>

RequestStep(r) == \/ Begin(r) \/ Again(r) \/ Extracted(r) \/ Assisted(r) \/ Infer(r)
                  \/ Respond(r) \/ Leave(r)

Next == \/ \E r \in Request : Arrive(r) \/ RequestStep(r) \/ Interrupted(r)
        \/ \E p \in Page : Work(p)
        \/ Close \/ Time

Spec == Init /\ [][Next]_vars

\* Every admitted request has a deadline, the loop goes on, and threads end:
\* their work is bounded, and I/O that is awaited by nobody is cancelled.
Fairness == /\ \A r \in Request : WF_vars(RequestStep(r)) /\ WF_vars(Interrupted(r))
            /\ \A p \in Page : WF_vars(Work(p))

FairSpec == Spec /\ Fairness
=============================================================================
