---------------------------- MODULE RecursiveJob ----------------------------
(***************************************************************************)
(* One opt-in recursive crawl: class _RecursiveCrawlJob of                 *)
(* src/app/services/crawler.py, the single owner of a CrawlFrontier, and   *)
(* the page tasks it starts.                                               *)
(*                                                                         *)
(* All of them run on one asyncio loop: a coroutine runs alone from one    *)
(* await to the next.  The owner awaits in three places, "wait", "yield"   *)
(* and "drain" below, and page tasks finish only there.  In between the    *)
(* owner's code is cut into one step per claim, retirement or admitted     *)
(* link, which no other coroutine can observe.                             *)
(*                                                                         *)
(* The frontier runs with one attempt per URL and no host delay, every     *)
(* link is admitted at the owner's clock and the clock never goes back, so *)
(* time plays no part here: now stays 0.                                   *)
(***************************************************************************)
EXTENDS Frontier

CONSTANTS
  MaxPages,       \* max_pages of the request
  MaxConcurrent,  \* settings.max_concurrent_tasks
  LinkChunk,      \* links admitted between two yields (128 in the code)
  PageLinks,      \* the links found on each page that is fetched
  Outcomes        \* how the page task of each URL may end

\* How a page task can end, and the terminal reason its lease then gets.
\* "cancelled": a CancelledError raised inside the task, which the owner did
\* not ask for.
ReasonOf == [ok |-> "SUCCEEDED",
             failed |-> "PERMANENT_FAILURE",  \* an error result, or an exception
             robots |-> "ROBOTS_DISALLOWED",
             rejected |-> "CONTENT_REJECTED",
             cancelled |-> "CANCELLED"]

Outcome == DOMAIN ReasonOf

ASSUME JobAssumption ==
  /\ MaxPages \in Nat \ {0}
  /\ MaxConcurrent \in Nat
  /\ LinkChunk \in Nat \ {0}
  /\ PageLinks \in [Url -> Seq(Link)]
  /\ Outcomes \in [Url -> SUBSET Outcome]
  /\ Config.maxUrls = MaxPages
  /\ Config.maxUrlsPerHost = MaxPages
  /\ Config.maxFetchAttempts = MaxPages
  /\ Config.maxFetchAttemptsPerHost = MaxPages
  /\ Config.maxAttemptsPerUrl = 1
  /\ Config.hostDelay = 0

Concurrency == LaterOf(1, EarlierOf(MaxPages, MaxConcurrent))
-----------------------------------------------------------------------------
VARIABLES
  pc,       \* where run() is
  live,     \* _live: by claim order, the leased URL and its task's state
  watched,  \* the claim orders whose tasks asyncio.wait was given
  link,     \* the next link of the page being retired
  results   \* _results: the URL, claim order and outcome of each result

jobVars == <<pc, live, watched, link, results>>
vars == <<clockedVars, jobVars>>

Task == [url : Url, state : {"running"} \cup Outcome]

Running == {o \in DOMAIN live : live[o].state = "running"}

\* Mutant: whatever finished is retired first.
OldestFinished == IF Running = DOMAIN live
                  THEN CHOOSE o \in DOMAIN live : TRUE
                  ELSE CHOOSE o \in DOMAIN live \ Running : TRUE

\* The head of the reorder buffer.
Oldest == CHOOSE o \in DOMAIN live : \A q \in DOMAIN live : o <= q

AtAwait == pc \in {"wait", "yield", "drain"}

Goto(label) == pc' = label
-----------------------------------------------------------------------------
(* _fill_capacity; run() calls it before and after retiring *)

Filling == pc \in {"fill", "refill"}

\* claim returned a lease: its task starts.
FillOne ==
  /\ Filling
  /\ Cardinality(Running) < Concurrency
  /\ ClaimLease
  /\ LET u == CHOOSE v \in DOMAIN entries : /\ entries[v].state # "IN_FLIGHT"
                                            /\ entries'[v].state = "IN_FLIGHT"
     IN live' = [o \in DOMAIN live \cup {claimed} |->
                   IF o = claimed THEN [url |-> u, state |-> "running"] ELSE live[o]]
  /\ UNCHANGED <<now, pc, watched, link, results>>

\* Mutant: the job returns as soon as nothing runs.
AfterFillIdleReturns ==
  IF pc = "fill"
  THEN Goto(IF Running = {} THEN "returned" ELSE "retire") /\ UNCHANGED watched
  ELSE IF Running = {} THEN Goto("fill") /\ UNCHANGED watched
  ELSE Goto("wait") /\ watched' = Running

\* Where run() goes when _fill_capacity returns.
AfterFill ==
  IF pc = "fill"
  THEN Goto(IF live = << >> THEN "returned" ELSE "retire") /\ UNCHANGED watched
  ELSE IF Running = {} THEN Goto("fill") /\ UNCHANGED watched
  ELSE Goto("wait") /\ watched' = Running

FillFull ==
  /\ Filling
  /\ Cardinality(Running) >= Concurrency
  /\ AfterFill
  /\ UNCHANGED <<clockedVars, live, link, results>>

FillNone ==
  /\ Filling
  /\ Cardinality(Running) < Concurrency
  /\ ClaimNothing \/ ClaimOverBudget
  /\ AfterFill
  /\ UNCHANGED <<now, live, link, results>>
-----------------------------------------------------------------------------
(* _retire_ready_prefix and _retire_completed *)

\* The oldest claim is still running, or nothing is left.
RetireStop ==
  /\ pc = "retire"
  /\ live # << >> => Oldest \in Running
  /\ Goto("refill")
  /\ UNCHANGED <<clockedVars, live, watched, link, results>>

AppendResult(o) ==
  /\ results' = Append(results, [url |-> live[o].url, order |-> o,
                                 outcome |-> live[o].state])
  /\ live' = [q \in DOMAIN live \ {o} |-> live[q]]

\* Mutant: the lease of a failed page is never resolved.
RetireFailedUnresolved ==
  /\ pc = "retire"
  /\ live # << >>
  /\ live[Oldest].state \in {"failed", "robots", "rejected"}
  /\ AppendResult(Oldest)
  /\ UNCHANGED <<clockedVars, pc, watched, link>>

RetireFailed ==
  /\ pc = "retire"
  /\ live # << >>
  /\ live[Oldest].state \in {"failed", "robots", "rejected"}
  /\ FailPermanently(live[Oldest].url, 1, ReasonOf[live[Oldest].state])
  /\ AppendResult(Oldest)
  /\ UNCHANGED <<now, pc, watched, link>>

RetireOk ==
  /\ pc = "retire"
  /\ live # << >>
  /\ live[Oldest].state = "ok"
  /\ Succeed(live[Oldest].url, 1)
  /\ link' = 1
  /\ Goto("admit")
  /\ UNCHANGED <<now, live, watched, results>>

\* Mutant: a cancelled page is taken for one that is not ready.
RetireCancelledSkipped ==
  /\ pc = "retire"
  /\ live # << >>
  /\ live[Oldest].state = "cancelled"
  /\ Goto("refill")
  /\ UNCHANGED <<clockedVars, live, watched, link, results>>

\* CancelledError from the page task is raised again and ends the job.
RetireCancelled ==
  /\ pc = "retire"
  /\ live # << >>
  /\ live[Oldest].state = "cancelled"
  /\ Goto("drain")
  /\ UNCHANGED <<clockedVars, live, watched, link, results>>

\* _admit_discovered_links: one link; a yield after every chunk.
AdmitLink ==
  /\ pc = "admit"
  /\ LET u == live[Oldest].url
     IN /\ link <= Len(PageLinks[u])
        /\ Admit(PageLinks[u][link], entries[u].depth + 1, SeedPriority, u, now)
  /\ link' = link + 1
  /\ Goto(IF link % LinkChunk = 0 THEN "yield" ELSE "admit")
  /\ UNCHANGED <<now, live, watched, results>>

ResumeAdmitting ==
  /\ pc = "yield"
  /\ Goto("admit")
  /\ UNCHANGED <<clockedVars, live, watched, link, results>>

AdmitEnd ==
  /\ pc = "admit"
  /\ link > Len(PageLinks[live[Oldest].url])
  /\ AppendResult(Oldest)
  /\ link' = 0
  /\ Goto("retire")
  /\ UNCHANGED <<clockedVars, watched>>

\* asyncio.wait returns once a task it was given is done.
WakeUp ==
  /\ pc = "wait"
  /\ \E o \in watched : o \notin Running
  /\ Goto("fill")
  /\ watched' = {}
  /\ UNCHANGED <<clockedVars, live, link, results>>
-----------------------------------------------------------------------------
(* Page tasks, cancellation, and _cancel_and_drain *)

\* _crawl_leased_url ends.  A task that is being cancelled may still end with
\* its own outcome.
TaskEnds(o) ==
  /\ AtAwait
  /\ o \in Running
  /\ \E result \in Outcomes[live[o].url] \cup
                     (IF pc = "drain" THEN {"cancelled"} ELSE {}) :
        live' = [live EXCEPT ![o].state = result]
  /\ UNCHANGED <<clockedVars, pc, watched, link, results>>

\* The request is cancelled while the owner is suspended.
CancelJob ==
  /\ pc \in {"wait", "yield"}
  /\ Goto("drain")
  /\ UNCHANGED <<clockedVars, live, watched, link, results>>

\* Mutant: cancel_pending is forgotten.
FinishDrainLeasesOnly ==
  /\ pc = "drain"
  /\ Running = {}
  /\ LET leased == {live[o].url : o \in DOMAIN live}
     IN entries' = [u \in DOMAIN entries |->
                      IF u \in leased /\ Holds(u, 1)
                      THEN Settled(entries[u], 1, "CANCELLED")
                      ELSE entries[u]]
  /\ live' = << >>
  /\ Goto("raised")
  /\ UNCHANGED <<hosts, admitted, claimed, now, watched, link, results>>

\* The except branch of run(), once every task, cancelled, has ended:
\* leases still in flight are failed as cancelled; a lease that ordered
\* retirement already resolved is stale and skipped.  cancel_pending follows.
FinishDrain ==
  /\ pc = "drain"
  /\ Running = {}
  /\ LET leased == {live[o].url : o \in DOMAIN live}
     IN entries' = [u \in DOMAIN entries |->
                      IF u \in leased /\ Holds(u, 1)
                      THEN Settled(entries[u], 1, "CANCELLED")
                      ELSE PendingTerminated(Host, "CANCELLED")[u]]
  /\ live' = << >>
  /\ Goto("raised")
  /\ UNCHANGED <<hosts, admitted, claimed, now, watched, link, results>>
-----------------------------------------------------------------------------
Init ==
  /\ FrontierInit
  /\ pc = "fill"
  /\ live = << >>
  /\ watched = {}
  /\ link = 0
  /\ results = << >>

OwnerStep == \/ FillOne \/ FillFull \/ FillNone
             \/ RetireStop \/ RetireFailed \/ RetireOk \/ RetireCancelled
             \/ AdmitLink \/ ResumeAdmitting \/ AdmitEnd \/ WakeUp
             \/ FinishDrain

Finished == pc \in {"returned", "raised"}

Next == \/ OwnerStep
        \/ \E o \in DOMAIN live : TaskEnds(o)
        \/ CancelJob

Spec == Init /\ [][Next]_vars

\* The loop runs a coroutine that can proceed, and a page task ends (fetch,
\* render and extraction have deadlines of their own).
Fairness == /\ WF_vars(OwnerStep)
            /\ \A o \in 0 .. MaxPages - 1 : WF_vars(o \in DOMAIN live /\ TaskEnds(o))

FairSpec == Spec /\ Fairness
=============================================================================
