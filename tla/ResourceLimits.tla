--------------------------- MODULE ResourceLimits ---------------------------
(***************************************************************************)
(* ResourceLimitMiddleware of src/app/middleware/resource_limits.py: at    *)
(* most max_active_requests metered requests are past admission, each has  *)
(* a deadline, and each is answered at most once.                          *)
(*                                                                         *)
(* The operations are those of the middleware; what the application does   *)
(* between EnterApp and Answer is left to the module that composes them.   *)
(***************************************************************************)
EXTENDS Integers, FiniteSets

CONSTANTS
  Request,
  MaxActive   \* max_active_requests

ASSUME LimitsAssumption == IsFiniteSet(Request) /\ MaxActive \in Nat \ {0}

VARIABLES
  active,     \* _active
  served      \* per request: where it is, whether it holds a slot, and how
              \* many responses were started for it

limitVars == <<active, served>>

Served == [at : {"new", "body", "app", "sending", "done", "cancelled"},
           admitted : BOOLEAN,
           answers : Nat]

LimitsInit ==
  /\ active = 0
  /\ served = [r \in Request |-> [at |-> "new", admitted |-> FALSE, answers |-> 0]]

\* Mutant: every request that ends gives a slot back.
ReleasedAnyway(r) == active - 1

Released(r) == IF served[r].admitted THEN active - 1 ELSE active

\* The request ends; the finally block releases its slot, if it has one.
EndsAs(r, end, answers) ==
  /\ served' = [served EXCEPT ![r].at = end, ![r].admitted = FALSE, ![r].answers = @ + answers]
  /\ active' = Released(r)

\* 413 for a declared length, 429 at capacity: answered before admission.
RefuseLength(r) == served[r].at = "new" /\ EndsAs(r, "done", 1)

RefuseBusy(r) == /\ served[r].at = "new"
                 /\ active >= MaxActive
                 /\ EndsAs(r, "done", 1)

Admit(r) ==
  /\ served[r].at = "new"
  /\ active < MaxActive
  /\ active' = active + 1
  /\ served' = [served EXCEPT ![r].at = "body", ![r].admitted = TRUE]

\* 413 for a body that turns out too large.
RefuseBody(r) == served[r].at = "body" /\ EndsAs(r, "done", 1)

\* The body is complete, or the client has disconnected and it is empty.
EnterApp(r) ==
  /\ served[r].at = "body"
  /\ served' = [served EXCEPT ![r].at = "app"]
  /\ UNCHANGED active

Answer(r) ==
  /\ served[r].at = "app"
  /\ served' = [served EXCEPT ![r].at = "sending", ![r].answers = @ + 1]
  /\ UNCHANGED active

Return(r) == served[r].at = "sending" /\ EndsAs(r, "done", 0)

\* A deadline is answered with 504, unless a response was started.
LateAnswer(r) == IF served[r].answers = 0 THEN 1 ELSE 0

\* The deadline of the request, or the server as it stops, cancels what it awaits.
Interrupt(r) ==
  /\ served[r].at \in {"body", "app", "sending"}
  /\ EndsAs(r, "done", LateAnswer(r)) \/ EndsAs(r, "cancelled", 0)
=============================================================================
