------------------------------- MODULE Fetcher -------------------------------
(***************************************************************************)
(* fetch_url of src/app/services/fetcher.py: a page is rendered in the     *)
(* browser if the caller asks for it, and fetched over HTTP otherwise or   *)
(* if rendering fails.  Each redirect is a hop of its own, validated and   *)
(* submitted to the document policy again; each hop is attempted again     *)
(* after a transport error or a retryable status; and every attempt takes  *)
(* a token of its domain.  Hops, attempts and pauses share one deadline.   *)
(*                                                                         *)
(* A crawl is a task that fetches one page after another.  There is one    *)
(* URL in each domain; what the network, the resolver and the policy       *)
(* answer is open, and a fetch without a policy is one whose policy always *)
(* allows.  validated and allowed are history: the last URL and hop that   *)
(* validate_public_url let pass and that the policy allowed.               *)
(***************************************************************************)
EXTENDS RateLimiter, Renderer

CONSTANTS
  MaxRedirects,   \* _MAX_REDIRECTS
  MaxAttempts,    \* http_max_attempts
  Total,          \* http_total_timeout_s
  MaxPause        \* http_retry_max_delay_s

ASSUME FetcherAssumption ==
  /\ Caller = Crawl
  /\ MaxRedirects \in Nat /\ MaxAttempts \in Nat \ {0}
  /\ Total \in Nat \ {0} /\ MaxPause \in Nat

VARIABLE fetches   \* per crawl: where its fetch_url is

vars == <<limiterVars, renderVars, fetches>>

Hop == (Domain \cup {"none"}) \X (0 .. MaxRedirects)

Fetch == [at : {"idle", "gate", "render", "validate", "policy", "token", "stream", "sleep"},
          url : Domain \cup {"none"},
          hop : 0 .. MaxRedirects,
          attempt : 0 .. MaxAttempts,
          budget : 0 .. Total,      \* what is left until the deadline
          pause : 0 .. MaxPause,    \* what is left of the delay
          validated : Hop, allowed : Hop,
          cancelled : BOOLEAN]

NoFetch == [at |-> "idle", url |-> "none", hop |-> 0, attempt |-> 0, budget |-> 0, pause |-> 0,
            validated |-> <<"none", 0>>, allowed |-> <<"none", 0>>, cancelled |-> FALSE]

Init == /\ LimiterInit /\ RendererInit
        /\ fetches = [c \in Crawl |-> NoFetch]

At(c, at) == fetches[c].at = at
Moves(c, at) == fetches' = [fetches EXCEPT ![c].at = at]
Ends(c) == fetches' = [fetches EXCEPT ![c] = NoFetch]

Begin(c, url) ==
  /\ At(c, "idle")
  /\ \E at \in {"gate", "validate"} :
       fetches' = [fetches EXCEPT ![c] = [NoFetch EXCEPT !.at = at, !.url = url, !.budget = Total]]
  /\ UNCHANGED <<limiterVars, renderVars>>
-----------------------------------------------------------------------------
(* _try_direct_render *)

\* The policy denies the page, the renderer finds its address unsafe, or the
\* render is queued.
Gate(c) ==
  /\ At(c, "gate")
  /\ \/ Ends(c) /\ UNCHANGED renderVars
     \/ Moves(c, "validate") /\ UNCHANGED renderVars
     \/ Moves(c, "render") /\ Queue(c)
  /\ UNCHANGED limiterVars

Prepare(c) ==
  /\ At(c, "render")
  /\ TakePage(c) \/ TakeLock(c) \/ Launched(c) \/ Opened(c) \/ Loaded(c)
  /\ UNCHANGED <<limiterVars, fetches>>

\* A render that fails falls back to HTTP; one that ends is a page, a denial,
\* or not good enough.
Rendered(c) ==
  /\ At(c, "render")
  /\ \/ Abandon(c) /\ Moves(c, "validate")
     \/ Closed(c) /\ ~fetches[c].cancelled /\ Moves(c, "validate")
     \/ Closed(c) /\ Ends(c)
  /\ UNCHANGED limiterVars
-----------------------------------------------------------------------------
(* Hops and attempts *)

HopOf(c) == <<fetches[c].url, fetches[c].hop>>

Validate(c) ==
  /\ At(c, "validate")
  /\ \/ fetches' = [fetches EXCEPT ![c].at = "policy", ![c].validated = HopOf(c)]
     \/ Ends(c)
  /\ UNCHANGED <<limiterVars, renderVars>>

\* Mutant: only a delay is held against the deadline.
DeadlineUnseen(c) == FALSE

DeadlinePassed(c) == fetches[c].budget = 0

\* The top of the loop of _stream_with_retries, for the fetch as it stands.
Attempt(c, fetch) ==
  IF DeadlinePassed(c)
  THEN Ends(c) /\ UNCHANGED limiterVars
  ELSE /\ Register(c, fetch.url)
       /\ fetches' = [fetches EXCEPT ![c] = [fetch EXCEPT !.at = "token", !.attempt = @ + 1]]

Policy(c) ==
  /\ At(c, "policy")
  /\ \/ Attempt(c, [fetches[c] EXCEPT !.allowed = HopOf(c)])
     \/ Ends(c) /\ UNCHANGED limiterVars
  /\ UNCHANGED renderVars

Token(c) ==
  /\ At(c, "token")
  /\ Granted(c)
  /\ Moves(c, "stream")
  /\ UNCHANGED renderVars

\* A response that is returned, or an error that is not tried again.
Answered(c) ==
  /\ At(c, "stream")
  /\ Ends(c)
  /\ UNCHANGED <<limiterVars, renderVars>>

\* Mutant: the address of a redirect is not validated again.
FollowedAt == "policy"

RedirectedTo == "validate"

Redirected(c, url) ==
  /\ At(c, "stream")
  /\ IF fetches[c].hop < MaxRedirects
     THEN fetches' = [fetches EXCEPT ![c].at = RedirectedTo, ![c].url = url, ![c].hop = @ + 1,
                                    ![c].attempt = 0]
     ELSE Ends(c)
  /\ UNCHANGED <<limiterVars, renderVars>>

\* A transport error or a retryable status, with the delay it calls for.
Retry(c, delay) ==
  /\ At(c, "stream")
  /\ fetches[c].attempt < MaxAttempts
  /\ CASE delay >= fetches[c].budget -> Ends(c) /\ UNCHANGED limiterVars
       [] delay < fetches[c].budget /\ delay = 0 -> Attempt(c, fetches[c])
       [] OTHER -> /\ fetches' = [fetches EXCEPT ![c].at = "sleep", ![c].pause = delay]
                   /\ UNCHANGED limiterVars
  /\ UNCHANGED renderVars

Wake(c) ==
  /\ At(c, "sleep") /\ fetches[c].pause = 0
  /\ Attempt(c, fetches[c])
  /\ UNCHANGED renderVars

\* The timeout around a token and its request.
TimeOut(c) ==
  /\ DeadlinePassed(c)
  /\ \/ At(c, "token") /\ GivesUp(c)
     \/ At(c, "stream") /\ UNCHANGED limiterVars
  /\ Ends(c)
  /\ UNCHANGED renderVars
-----------------------------------------------------------------------------
(* Cancellation of the crawl, wherever it is.  A context that is open is   *)
(* closed first.                                                           *)
Cancel(c) ==
  /\ ~At(c, "idle")
  /\ IF At(c, "render")
     THEN \/ Abandon(c) /\ Ends(c)
          \/ Closed(c) /\ Ends(c)
          \/ Loaded(c) /\ fetches' = [fetches EXCEPT ![c].cancelled = TRUE]
     ELSE Ends(c) /\ UNCHANGED renderVars
  /\ IF At(c, "token") THEN GivesUp(c) ELSE UNCHANGED limiterVars

Tick ==
  /\ Drain
  /\ fetches' = [c \in Crawl |-> [fetches[c] EXCEPT !.budget = Less(@), !.pause = Less(@)]]
  /\ UNCHANGED renderVars

CrashBrowser == Crash /\ UNCHANGED <<limiterVars, fetches>>

FetchStep(c) ==
  \/ Gate(c) \/ Prepare(c) \/ Rendered(c)
  \/ Validate(c) \/ Policy(c) \/ Token(c) \/ Wake(c) \/ TimeOut(c)

Response(c) ==
  \/ Answered(c)
  \/ \E url \in Domain : Redirected(c, url)
  \/ \E delay \in 0 .. MaxPause : Retry(c, delay)

Next ==
  \/ \E c \in Crawl : \/ FetchStep(c) \/ Response(c) \/ Cancel(c)
                      \/ \E url \in Domain : Begin(c, url)
  \/ Tick \/ CrashBrowser

Spec == Init /\ [][Next]_vars

\* The loop and the clock go on.  A server need not answer and a token need not
\* come: the fetch has a deadline, and what its render awaits is under another.
\* The resolver and the policy have timeouts of their own.
Fairness == WF_vars(Tick) /\ \A c \in Crawl : WF_vars(FetchStep(c))

FairSpec == Spec /\ Fairness
=============================================================================
