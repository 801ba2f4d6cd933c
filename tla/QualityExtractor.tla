-------------------------- MODULE QualityExtractor --------------------------
(***************************************************************************)
(* The optional model-assisted extraction: class QualityExtractor of       *)
(* src/app/services/quality_extractor.py.  A circuit breaker admits calls, *)
(* a semaphore bounds them, each leases one of as many upstream runtimes,  *)
(* and a thread does the work and outlives a call that gives up.           *)
(*                                                                         *)
(* Calls run on one asyncio loop; threads run beside it.  A permit and the *)
(* runtime come back together, in a callback on the loop once the thread   *)
(* has ended, and the call learns of its end in a later step: in between,  *)
(* the runtime may be leased again.                                        *)
(***************************************************************************)
EXTENDS Integers, Sequences, FiniteSets

CONSTANTS
  Call,             \* calls of extract
  MaxConcurrency,   \* of the semaphore, and the number of runtimes
  Threshold,        \* failure_threshold
  Cooldown,         \* cooldown_s
  MaxTime           \* bound of the clock

ASSUME QualityAssumption ==
  /\ 0 \notin Call
  /\ MaxConcurrency \in Nat \ {0} /\ Threshold \in Nat \ {0} /\ Cooldown \in Nat \ {0}
  /\ MaxTime \in Nat

VARIABLES
  clock,
  breaker,     \* _consecutive_failures, _open_until (0 when closed), _half_open_probe
  closed,      \* where aclose is
  taken,       \* permits that aclose has taken
  qpermits,    \* the value of _semaphore
  available,   \* _available_runtimes
  runtimes,    \* per runtime: cancel_requested, and the worker of active_call or 0
  calls,       \* per call: what it awaits, and whether it is the probe
  workers      \* per call: its thread, the runtime it leases, how it ended, and
               \* whether its I/O was cancelled

qualityVars == <<clock, breaker, closed, taken, qpermits, available, runtimes, calls, workers>>

Runtime == 1 .. MaxConcurrency
Breaker == [failures : Nat, openUntil : Nat, probing : BOOLEAN]
CallState == [at : {"none", "capacity", "inferring"}, probe : BOOLEAN]
Worker == [at : {"none", "starting", "calling", "returned", "ended"},
           runtime : Runtime \cup {0},
           outcome : {"none", "ok", "failed", "ineligible"},
           cancelled : BOOLEAN]
Idle == [at |-> "none", probe |-> FALSE]
NoWorker == [at |-> "none", runtime |-> 0, outcome |-> "none", cancelled |-> FALSE]

QualityInit ==
  /\ clock = 0
  /\ breaker = [failures |-> 0, openUntil |-> 0, probing |-> FALSE]
  /\ closed = "no" /\ taken = 0
  /\ qpermits = MaxConcurrency
  /\ available = [k \in Runtime |-> k]
  /\ runtimes = [k \in Runtime |-> [cancel |-> FALSE, call |-> 0]]
  /\ calls = [c \in Call |-> Idle]
  /\ workers = [c \in Call |-> NoWorker]
-----------------------------------------------------------------------------
(* The breaker *)

\* Mutant: a probe that ends without a verdict leaves its flag set.
ProbeForgotten(c) == breaker

\* _release_probe: only the probe releases it.
ProbeReleased(c) == [breaker EXCEPT !.probing = @ /\ ~calls[c].probe]

\* _record_failure and _record_capacity_timeout, whoever the call was.
Failed(failures) ==
  [failures |-> failures, probing |-> FALSE,
   openUntil |-> IF failures >= Threshold THEN clock + Cooldown ELSE breaker.openUntil]

OneMoreFailure == breaker.failures + 1
Saturated == IF OneMoreFailure > Threshold THEN OneMoreFailure ELSE Threshold

\* _admit, when it does not admit.
Open == breaker.openUntil > 0 /\ (clock < breaker.openUntil \/ breaker.probing)

Refuse(c) ==
  /\ calls[c].at = "none"
  /\ Open \/ closed # "no"
  /\ UNCHANGED qualityVars

\* After the cooldown one call is admitted as the probe.
Enter(c) ==
  /\ calls[c].at = "none" /\ workers[c].at = "none"
  /\ ~Open /\ closed = "no"
  /\ breaker' = [breaker EXCEPT !.probing = breaker.openUntil > 0]
  /\ calls' = [calls EXCEPT ![c] = [at |-> "capacity", probe |-> breaker.openUntil > 0]]
  /\ UNCHANGED <<clock, closed, taken, qpermits, available, runtimes, workers>>
-----------------------------------------------------------------------------
(* extract *)

Leaves(c) == calls' = [calls EXCEPT ![c] = Idle]

\* Also when a permit has just come back.
CapacityTimeout(c) ==
  /\ calls[c].at = "capacity"
  /\ breaker' = Failed(Saturated)
  /\ Leaves(c)
  /\ UNCHANGED <<clock, closed, taken, qpermits, available, runtimes, workers>>

Lease(c) ==
  /\ calls[c].at = "capacity"
  /\ qpermits > 0 /\ closed = "no"
  /\ qpermits' = qpermits - 1
  /\ available' = Tail(available)
  /\ runtimes' = [runtimes EXCEPT ![Head(available)] = [cancel |-> FALSE, call |-> 0]]
  /\ calls' = [calls EXCEPT ![c].at = "inferring"]
  /\ workers' = [workers EXCEPT ![c].at = "starting", ![c].runtime = Head(available)]
  /\ UNCHANGED <<clock, breaker, closed, taken>>

\* No thread can be started: the runtime and the permit go back at once.
StartFails(c) ==
  /\ calls[c].at = "capacity"
  /\ qpermits > 0 /\ closed = "no"
  /\ available' = Append(Tail(available), Head(available))
  /\ runtimes' = [runtimes EXCEPT ![Head(available)] = [cancel |-> FALSE, call |-> 0]]
  /\ breaker' = Failed(OneMoreFailure)
  /\ Leaves(c)
  /\ UNCHANGED <<clock, closed, taken, qpermits, workers>>

\* The extractor was closed while the call waited: permit and probe go back.
LeaseClosed(c) ==
  /\ calls[c].at = "capacity"
  /\ qpermits > 0 /\ closed # "no"
  /\ breaker' = ProbeReleased(c)
  /\ Leaves(c)
  /\ UNCHANGED <<clock, closed, taken, qpermits, available, runtimes, workers>>

\* _cancel_runtime_call: for a runtime that may be another call's by now.
CancelRuntimeCall(k) ==
  LET c == runtimes[k].call
  IN /\ runtimes' = [runtimes EXCEPT ![k].cancel = TRUE]
     /\ workers' = IF c = 0 THEN workers ELSE [workers EXCEPT ![c].cancelled = TRUE]

\* The deadline of the call passes: its failure is recorded.
InferenceTimeout(c) ==
  /\ calls[c].at = "inferring"
  /\ CancelRuntimeCall(workers[c].runtime)
  /\ breaker' = Failed(OneMoreFailure)
  /\ Leaves(c)
  /\ UNCHANGED <<clock, closed, taken, qpermits, available>>

\* The call is cancelled, while it waits for a permit or for its worker.
LeaveCapacity(c) ==
  /\ calls[c].at = "capacity"
  /\ breaker' = ProbeReleased(c)
  /\ Leaves(c)
  /\ UNCHANGED <<clock, closed, taken, qpermits, available, runtimes, workers>>

LeaveInference(c) ==
  /\ calls[c].at = "inferring"
  /\ CancelRuntimeCall(workers[c].runtime)
  /\ breaker' = ProbeReleased(c)
  /\ Leaves(c)
  /\ UNCHANGED <<clock, closed, taken, qpermits, available>>

\* The call takes the result of its worker.
TakeQuality(c) ==
  /\ calls[c].at = "inferring"
  /\ workers[c].at = "ended"
  /\ breaker' = CASE workers[c].outcome = "ok" -> [failures |-> 0, openUntil |-> 0, probing |-> FALSE]
                  [] workers[c].outcome = "failed" -> Failed(OneMoreFailure)
                  [] OTHER -> ProbeReleased(c)
  /\ Leaves(c)
  /\ workers' = [workers EXCEPT ![c] = NoWorker]
  /\ UNCHANGED <<clock, closed, taken, qpermits, available, runtimes>>
-----------------------------------------------------------------------------
(* The worker of a call: _run_official_pipeline in a thread, and the done  *)
(* callback on the loop                                                    *)

CancelledBefore(k) == runtimes[k].cancel

\* remember_call: the I/O of the worker is submitted and can be cancelled.
StartIO(c) ==
  LET k == workers[c].runtime
  IN /\ workers[c].at = "starting"
     /\ workers' = [workers EXCEPT ![c].at = "calling", ![c].cancelled = CancelledBefore(k)]
     /\ runtimes' = [runtimes EXCEPT ![k].call = c]
     /\ UNCHANGED <<clock, breaker, closed, taken, qpermits, available, calls>>

\* The thread ends: before its I/O, or after it.  Cancelled I/O fails.
EndThread(c) ==
  /\ workers[c].at \in {"starting", "calling"}
  /\ \E outcome \in {"ok", "failed", "ineligible"} :
       /\ outcome = "ok" => workers[c].at = "calling" /\ ~workers[c].cancelled
       /\ workers' = [workers EXCEPT ![c].at = "returned", ![c].outcome = outcome]
  /\ runtimes' = [runtimes EXCEPT ![workers[c].runtime].call = IF @ = c THEN 0 ELSE @]
  /\ UNCHANGED <<clock, breaker, closed, taken, qpermits, available, calls>>

\* release_when_worker_really_finishes: nobody may be left to take the result.
GiveBack(c) ==
  /\ workers[c].at = "returned"
  /\ workers' = [workers EXCEPT ![c] = IF calls[c].at = "inferring"
                                          THEN [@ EXCEPT !.at = "ended"] ELSE NoWorker]
  /\ available' = Append(available, workers[c].runtime)
  /\ qpermits' = qpermits + 1
  /\ UNCHANGED <<clock, breaker, closed, taken, runtimes, calls>>
-----------------------------------------------------------------------------
(* aclose *)

StartClose ==
  /\ closed = "no"
  /\ closed' = "draining"
  /\ UNCHANGED <<clock, breaker, taken, qpermits, available, runtimes, calls, workers>>

TakePermit ==
  /\ closed = "draining"
  /\ qpermits > 0
  /\ qpermits' = qpermits - 1
  /\ taken' = taken + 1
  /\ UNCHANGED <<clock, breaker, closed, available, runtimes, calls, workers>>

\* All permits are taken, or shutdown_timeout_s has passed: then what still
\* runs on the I/O loop is cancelled.
EndClose ==
  /\ closed = "draining"
  /\ closed' = "closed"
  /\ runtimes' = [k \in Runtime |-> [cancel |-> TRUE, call |-> 0]]
  /\ workers' = [c \in Call |-> IF workers[c].at = "calling"
                                 THEN [workers[c] EXCEPT !.cancelled = TRUE] ELSE workers[c]]
  /\ UNCHANGED <<clock, breaker, taken, qpermits, available, calls>>

Tick ==
  /\ clock < MaxTime
  /\ clock' = clock + 1
  /\ UNCHANGED <<breaker, closed, taken, qpermits, available, runtimes, calls, workers>>
=============================================================================
