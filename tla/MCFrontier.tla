----------------------------- MODULE MCFrontier -----------------------------
(***************************************************************************)
(* Two hosts of one site (the second a subdomain of the first), a URL off  *)
(* site, two spellings of one URL, and two URLs that differ in the query   *)
(* where only one query per path is allowed.                               *)
(***************************************************************************)
EXTENDS FrontierProperties, TLC

U(h, p, q) == [host |-> h, path |-> p, query |-> q, calendar |-> None, trap |-> FALSE]

MCHost == {"a", "sub.a", "x"}
MCUrl == {"a1", "a2", "a3", "s1", "x1"}
MCLink == {"A1", "a2", "a3", "s1", "x1", "mailto"}
MCCanonical == [l \in MCLink |-> CASE l = "A1" -> "a1"
                                   [] l = "mailto" -> Malformed
                                   [] OTHER -> l]
MCInfo == ("a1" :> U("a", "/p", "q1")) @@ ("a2" :> U("a", "/", None))
       @@ ("a3" :> U("a", "/p", "q2")) @@ ("s1" :> U("sub.a", "/", None))
       @@ ("x1" :> U("x", "/", None))
MCHostRank == "a" :> 1 @@ "sub.a" :> 2 @@ "x" :> 3

\* Scheduling: one attempt per URL, so that priorities, ready times, the host
\* delay and all admission budgets interleave.
SchedulingConfig ==
  [maxDepth |-> 1, maxUrls |-> 3, maxUrlsPerHost |-> 2,
   maxFetchAttempts |-> 0, maxFetchAttemptsPerHost |-> 0,
   maxAttemptsPerUrl |-> 1, allowSubdomains |-> TRUE,
   hostDelay |-> 1, backoffBase |-> 1, maxRetryDelay |-> 2,
   maxQueryVariants |-> 1, maxCalendarVariants |-> 1]

\* Retries: two attempts per URL on two hosts, a host budget that stops one
\* retry short of what host "a" could use, and a global budget that, when that
\* host comes last, is spent before its queue is drained.
RetryConfig == [SchedulingConfig EXCEPT !.maxAttemptsPerUrl = 2,
                                        !.maxFetchAttempts = 5,
                                        !.maxFetchAttemptsPerHost = 3,
                                        !.hostDelay = 0]

MCSubdomainOf == {<<"sub.a", "a">>}
MCSeedLinks == <<"A1", "s1", "A1">>
RetrySeedLinks == <<"A1", "a2", "s1">>
MCRetryAfters == {None, 2}
=============================================================================
