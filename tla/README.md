# A TLA+ model of clusy-crawler

clusy-crawler is an HTTP service that turns web pages into clean text: flat
crawls of a list of URLs, opt-in recursive crawls of a site, site maps and
extraction of HTML a caller brings along. It is one Python process on one
asyncio loop, with worker threads for extraction, a browser for rendering, an
optional Redis cache and an optional model server.

This directory holds TLA+ models of the parts of it where order, budgets,
cancellation and shared state make the behaviour hard to test; the TLC
configurations that check them; and proofs, checked by TLAPS, that hold for
every value of the constants. Source references are relative to the repository
root (`src/` in `PROJECT.json`).

## 1. Inventory

State, operations and interaction of the components, and what makes each of
them correct.

| Component | State | Operations | Correct when |
|---|---|---|---|
| **Crawl frontier** `app/services/frontier.py`, `CrawlFrontier` | record per URL; per host two lazily deleted heaps, a politeness clock and counters; global counters | `admit`, `claim`, `succeed`, `fail`, `cancel_pending`, `next_wake_at` | budgets hold, no URL is lost or leased twice, turns are fair, a stale outcome changes nothing, every URL settles |
| **Recursive job** `app/services/crawler.py`, `_RecursiveCrawlJob` | live tasks by claim order (the reorder buffer), results, its frontier | `run`: fill, retire, admit links, wait, cancel and drain | tasks stay bounded, results are in claim order, every admitted page is reported once, cancellation leaves nothing behind |
| **Singleflight** `crawler.py`, `_crawl_single_url` and `_crawl_uncached_and_cache` | registry of flights with waiter counts, admission flag | join or start, deliver, leave, retire, shut down | one crawl per key, counts exact, the last waiter and only the last cancels, cache policy kept, shutdown drains |
| **robots.txt** `robots.py` | policy cache, shared in-flight fetches, a semaphore | `check`, fetch, evict, `close`; parsing and matching | one fetch per origin, nothing unknown or expired allows a page, precedence as documented |
| **Request limits** `middleware/resource_limits.py` | active requests | admit, read body, deadline, release | each slot released exactly once, one answer |
| **Extraction permits** `extractor.py` | worker permits | run in a thread, several rounds | a permit is held until its thread ends |
| **Quality extractor** `quality_extractor.py` | breaker, permits, pool of runtimes, calls in flight | admit, lease, call, time out, give back, close | a runtime has one lease, the half-open flag clears, no I/O goes on for nobody |
| **Rate limiter** `rate_limiter.py` | token bucket per domain, overflow bucket | acquire, evict | a discarded bucket grants no fresh burst, the table stays bounded |
| **Fetcher** `fetcher.py`, `lib/http_client.py` | per request: redirects, attempts, deadline | fetch, hop by hop | every hop validated and allowed, one deadline for all of it |
| **Renderer** `renderer.py`, `rendering/` | browser, page permits | launch under a lock, render, close | bounded pages, no browser closed under a render by a second launch |
| **Resumable benchmark run** `bench/webmainbench_benchmark.py` | page artifact, `progress.json`, their names | batch, checkpoint, publish, resume | no checkpoint counts a row that can be lost, no crash leaves what resume refuses |
| **Batch** `crawler.py`, `crawl_urls` and `_apply_response_budget` | results by input order | gather, extract, cap, strip | one result per URL in input order, only the tail replaced, the budget kept |
| **Result cache** `cache/__init__.py` | shared client, cooldown after failures, connect lock | connect, get, set, close | one connection attempt at a time and none within a cooldown, every client has somebody who closes it |
| **Site map** `site_map.py` | queue of sitemaps, byte budget, list of pages | fetch nested sitemaps in batches, then the home page | the budgets hold under concurrency, the list does not depend on the order of arrival |
| Crawl pipeline `crawler.py` | per page only | routing between extractors, enrichment | not a matter of interleaving |
| Lifespan `main.py` | started components | start, stop | every cleanup step runs |
| Structured extraction, metadata parsers, document IR, receipts, native code, scoring | none | pure functions | not a matter of interleaving |

Components in bold are modelled. How they interact: a request passes the limits
middleware and a router and becomes a flat batch (`crawl_urls`) or a recursive
job. The job owns a frontier and starts one task per lease; a task and every URL
of a batch go through `_crawl_single_url`, which reads the cache, joins or
starts a flight, and awaits it. The flight asks the robots policy (recursive
crawls only) and the fetcher, which takes tokens of the rate limiter and may use
the renderer; then it extracts under a permit and, in the quality profile, calls
the quality extractor, and writes the cache. The lifespan's shutdown stops
admission, drains the flights and closes the rest. The benchmark run uses the
extractors outside the service.

What is hard here is listed hazard by hazard, with the line where each bites, in
`PROJECT.json`. The recurring ones are: state tested before an await and used
after it; a cancellation that lands in the middle of a hand-over; threads that
outlive the call that started them; lazily deleted heap items; budgets that
several paths charge; completion order that leaks into decisions; a crash
between two files.

## 2. Modules

    CrawlQueue                  a set of pages and the order in which they are leased
      Frontier                  the frontier, one action per operation
      FrontierProperties        its properties, its inductive invariant, the refinement
        MCFrontier              two instances (FrontierScheduling, FrontierRetries)
      RecursiveJob              the owner and the page tasks, on top of Frontier
        RecursiveJobProperties
          MCRecursiveJob        a site of ten pages (RecursiveJob)
            RecursiveJobReplay  the same job run twice
          RecursiveJobProofs    theorems about the frontier, then about the job
    SingleFlight                requests, flights, registry, cache, shutdown
      SingleFlightProperties, MCSingleFlight, SingleFlightProofs
    RobotsRules                 parsing and matching, as operators
      RobotsRulesProperties     what a file means, and the equivalence
    RobotsPolicy                the policy service, on top of RobotsRules
      RobotsPolicyProperties, MCRobots, RobotsPolicyProofs
    ResourceLimits              slots, bodies, deadlines, answers
    ExtractionPermits           permits and threads
    QualityExtractor            breaker, runtimes, workers, close
      RequestPath               the three of them composed: one request
        RequestPathProperties, MCRequestPath, RequestPathProofs
    RateLimiter                 buckets
    Renderer                    page permits, browser, launch lock
      Fetcher                   hops, attempts, deadline, over both of them
        FetcherProperties, MCFetcher, FetcherProofs
    PageLog                     a log that grows page by page and is published once
      ResumableRun              checkpoints, crashes and resume
        ResumableRunProperties (the refinement), MCResumableRun, ResumableRunProofs
    RedisCache                  the client of the result cache: connect, fail, close
    SiteMap                     one site map: sitemaps in batches, then the home page
    Batch                       one answer of /crawl and its budget of bytes
      RedisCacheProperties, SiteMapProperties, BatchProperties
        MCService               the three of them side by side
        ServiceProofs           theorems about each of them
    Facts                       finite sets, sequences, sums and folds: the lemmas
                                the proofs share

Definitions under a comment "Mutant: ..." stand just before the
definition they are a broken version of. Each property of a passing run is known
to fail when the definition is replaced by its mutant (`PROJECT.json`,
`"mutants"`), so none of them holds merely by the shape of the model.

### Frontier

`entries`, `hosts`, `admitted` and `claimed` are `_entries`, `_hosts`,
`_admitted` (= `_order`) and `_claimed` (= `_turn`); `now` is the clock the
caller passes in. `AdmitNew` and `Reprioritize` are the two effects of
`_admit_canonical`; `ClaimOverBudget`, `ClaimNothing` and `ClaimLease` the three
ways out of `claim`; `Succeed`, `FailPermanently`, `FailExhausted`, `FailRetry`
those of `succeed` and `fail`; `CancelPending` and `NextWakeAt` the remaining
two operations (`next_wake_at` promotes and prunes heaps, so it is a step).

* A binary heap is the set of its items. Popping while a condition holds is a
  set difference (`Promoted`, `Peeked`, `Pruned`) and the top is the first item
  in the order of the heap's key tuples. Lazy deletion is kept: re-queueing a
  URL adds an item with a new generation and leaves the old one in the heap.
* Canonicalization is a constant function `Canonical` from spellings to URLs or
  `Malformed`; of a URL the frontier reads a host, a path, a query, a calendar
  signature and whether it is a trap in itself (`Info`). The trap rules that
  count what has been admitted (query variants, calendar variants) are modelled.
* The variant sets that the code keeps beside the records are computed from the
  records; `calls` of `admit` that are rejected only move metrics, which are left out.
* A host's record exists from the start; the code creates it on first use.
* `Tick` lets time pass up to `MaxTime`, and beyond it only while some host
  still has work to wake up for: time never stops short of a scheduled retry.

`CrawlQueue` is the abstract specification: pages with their records, two clocks
per host, and no heaps, generations or counters. A lease goes to a host that has a
page due and leases left and was served longest ago, and there to the most urgent
page, the first admitted among equals; it also settles the pending pages of the
hosts whose leases are spent. Which of two hosts never served yet comes first, what priority an
admitted page has and how a trap is told are left open. `FrontierProperties` maps
records to pages (`PageOf`: a retry that waits is pending as a new page is) and
`ImplementsQueue` says that the frontier implements it; `next_wake_at`, rejected
calls and the upkeep of heaps are stutters.

Two behaviours worth knowing. Rediscovering a URL that waits for a retry takes
the earlier of its backoff and the discovery time, so a rediscovery can cut a
backoff short (`frontier.py:650`). And a `Retry-After` delays the whole host, but
a backoff without one delays only the URL.

### RecursiveJob

`pc` is where `run()` is; `live`, `results` are `_live`, `_results`; `link` is
the position in `_admit_discovered_links`; `watched` the tasks given to
`asyncio.wait`. Asyncio runs a coroutine alone from one await to the next, so
page tasks end, and cancellation arrives, only while `pc` is `"wait"`, `"yield"`
or `"drain"`; between two awaits the owner's code is cut into one action per
claim, retirement or admitted link, which nobody else can observe. A page task is
its outcome: ok, failed, disallowed by robots, rejected, or a `CancelledError`
raised inside. The frontier's operations are those of `Frontier`, with the
limits the job gives it (one attempt per URL, no delay); its clock plays no part
and stays 0. A job is cancelled at most once: a second cancellation while it
drains is not modelled.

### SingleFlight

`requests` are the coroutines in `_crawl_single_url`, each at one of its awaits;
`flights` the tasks of `_crawl_uncached_and_cache`, with their waiter count and
state; `registry` is `_singleflight_tasks`, `accepting` is `_accepting_crawls`.
`Asks` gives each request its page, whether it carries a document policy, whether
it must not read the cache and whether it may write it; `Arrivals` are the sets of
requests that may come in one behaviour. `FlightKey` is the key a flight is shared
by: a policy stands in it as the request that brings it, for the code takes the
identity of the callback. The sections under the registry lock contain no await, so
each is part of the step that enters it. The crawl itself is one step of its flight; a cancelled
flight passes through `"cancelling"`, for the cleanup on its way out can take
many awaits. A task cancelled before its first step (`"stillborn"`) never enters
its `try` block, and its registry entry stays: that is modelled too. The one
thing taken from asyncio's scheduling is that callbacks run first come, first
served: a flight's first step precedes any cancellation by a waiter of it.

### RobotsRules and RobotsPolicy

`RobotsRules` holds the pure part: `ParsedRules` is `parse_robots_txt` (one pass
over the records, groups, merged groups of one token), `GlobMatches` the greedy
`_glob_matches`, `Allows` the longest match with ties to Allow. A path or a value
is the sequence of the characters of its *normalized* text, which is what the code
compares: an escaped octet is three of them, matched one by one, and counts once in
the specificity (`Escape`). Normalization itself is data. So `GlobMatches` lets a
pattern match inside an escape, as the code does: `*F` covers `%2F`. It goes
from `ScanPlace` to `ScanPlace` as the loop does with its four indices. A line may
have any field and any value: `IsRule` is the test of `_parse_rule`, and a line that
fails it is skipped and ends no group. `RobotsRulesProperties` says
without an algorithm what a file means (`Covers`, `Applying`, `AllowsAsWritten`);
the run compares the two over all bounded patterns, values and files, and §4
proves them equal for all.

`RobotsPolicy` is the service: `checks` are coroutines in `check`, `flights` the
tasks of `_fetch_and_cache`, `registry` and `cache` are `_inflight` and `_cache`.
An HTTP exchange is the policy it can end in: a file, "missing" (which allows)
or an error (which denies). The lifetime of an entry depends on that. `close`
cancels what is in flight and waits for it.

### RequestPath: ResourceLimits, ExtractionPermits, QualityExtractor

A request is admitted, refused or served by `ResourceLimits`; inside it, a page
is extracted in one or more rounds under `ExtractionPermits`, and then may go
through `QualityExtractor`. `RequestPath` composes the three: its actions are
conjunctions of theirs, `stage` says where a request is, and `Interrupted` is a
deadline or a disconnection, which reaches whatever the request awaits in the
same step. The threads (`Work`) go on.

* A thread cannot be stopped. `threads` is how many are at work for a page:
  `asyncio.to_thread` starts one under a permit, `_parallel_extract` three to five
  (`Threads`, any set of numbers). The permit comes back when the last of them ends,
  not when the page leaves.
* The wait for a model permit can time out although one has just come back, for the
  timeout and the release can fall into one iteration of the loop.
* The quality path hands a permit and its runtime back together, in a callback
  on the loop, before the call learns of the end of its thread. In between, the
  runtime can be leased to another call. If the deadline or a cancellation of the
  first call lands in that iteration of the loop, `_cancel_runtime_call` cancels
  the I/O of the second one. The model has this step; the innocent call fails and
  falls back to the deterministic result, and nothing in the repository promises
  otherwise.
* A failure that is reported late, by a call admitted before the breaker opened,
  clears the half-open flag of a probe under way, so that a second probe can
  start. `Probing` in the invariant is therefore "the flag has a probe that will
  clear it" and not "there is one probe".
* `clock` moves to `MaxTime` only; it decides whether a cooldown has passed.

### Fetcher: RateLimiter, Renderer

`Fetcher` composes a limiter and a renderer with the loop of `fetch_url`:
validate, ask the policy, render or take a token and stream, pause and try
again, follow a redirect as a new hop. There is one URL in each domain, and the
answers of resolver, policy and network are open. One deadline, `budget`, counts
down with `Tick`, together with the leaking buckets. The registry of buckets is a
sequence in the order of use; a bucket is discarded for another domain only if
it is drained and nobody awaits it. The history variable `spent` is the level
each bucket would have if none had ever been discarded. `validated` and `allowed`
are history, too: the URL and the hop that `validate_public_url` let pass and that
the policy allowed last, set by `Validate` and `Policy` and by nothing else. An
attempt sets neither, so `FetchInv` can ask of every request whether they name what
is being requested. The renderer keeps a page
permit from before it looks for the browser until the context is closed, and
launches under a lock. The tokens that the page's own requests take in the
route handler are not modelled: they are more callers of the limiter, which the
proofs allow in any number.

### ResumableRun and PageLog

`rows` is the page artifact as written, `synced` how much of it fsync has made
durable, `torn` a partial row at its end; `directory` is the sequence of states
of the directory (the artifact's name and the content of `progress.json`) since
the last sync of the directory. A kill leaves the files as they are; a power
failure leaves any number of the rows that were not synced, perhaps a partial one
after them, and any state of the directory since its last sync. That renames in one directory become durable in the order they were
made is assumed of the file system (journaled metadata). One mode is modelled,
from the point where `run_config.json` exists, and one process at a time: the
code takes no lock between two `--resume` runs. `PageLog` is the abstract
specification; `ImplementsPageLog` is the refinement, with the durable part of
the artifact as the log.

### RedisCache

`redis`, `failures` and `quiet` are `_redis`, `_failure_count` and the time left
until `_retry_after`; `pc` is where a call of `get`, `set` or `healthcheck`
awaits: the connect lock (`queue`, first come, first served), the ping of a new
client, its `aclose()`, its own operation, or the `aclose()` of the client it
dropped. `open` are the clients that were made and have not been closed. A client
that a cancellation, an overflow or the end of `close()` leaves without a reference
stays in it, and its number is not given again; `Clients` bounds how many can be
lost. That they are lost is in the code, and promised otherwise nowhere;
`ClientsKept` says that this is the whole list (`GivenUp`), so that neither late
failures nor calls that waited for the lock lose any. `close()` takes no lock and may
close a client that a failed call is closing too; two calls never do. `hush` is
history: what is left of the cooldown the last failure calls for, which only time
lowers, while a success resets `quiet`. `_mark_unavailable` drops the client in use, which need
not be the one that failed. The cooldown is a float product; beyond the exponent
`MaxExponent` (1024) it raises, so failures are counted up to the next one. What
is stored under which key is in `SingleFlight`.

### SiteMap

One call of `map_site`. `gets` are the calls of `_get` in the order of their
start, each with the bytes it was charged for; a document arrives in pieces, is
unpacked, or fails, in any order, while `gather` waits. `FillOne` is a turn of
the loop that fills a batch, which no await interrupts. Addresses, redirects,
XML and the filters are constants of the site (`Site`, `OnSite`, `Wanted`,
`XmlPath`). `crowded` is a history variable: a nested sitemap was dropped because
the queue was full, and then the batches show in the answer. `OrderIndependent`
compares the answer with `Traversal`, which has no batches and no concurrency: it
leaves the runs out in which the queue overflowed. The semaphore over
calls of `map_site` is not modelled.

### Batch

A payload is its size. `CrawlEnds`, `CrawlFails` and `CrawlCancelled` are the
ways a crawl ends under `gather`; `Extracted` is `extract_structured` for one
result; `CapTexts` is `_cap_text` for all of them; `Strip` and `Forget` are the two
loops of `_apply_response_budget`, one turn per step. `crawled` remembers the
results before the budget is applied.

`MCService` puts these three into one specification. They share no state, so no
order of their steps matters, and `part` says which of them moves; the others
stay where they begin.

## 3. Runs

| Run | Instance and bounds | Checks |
|---|---|---|
| `frontier_scheduling` | 2 hosts and one off site, 5 URLs, 6 spellings, page budget 3 and 2 per host, depth 1 of the depths {1, 2}, two priorities, two ready times, host delay 1, one query variant per path, time free up to 1, one attempt per URL | `HeapsIndexPending`, `WakeTimeExact`, `ClaimIsFair` |
| `frontier_retries` | three seeds, two attempts per URL, global budget 5 and host budget 3 (both run out), Retry-After absent or 2 | `FrontierInv`, `LeaseStable`, `ImplementsQueue`, and under fairness `EveryUrlSettles` |
| `recursive_job` | 10 pages and budget 9, concurrency 2, a yield every 3 links, every outcome, cancellation at every await | `JobInv`, `RetiredInClaimOrder`, `ReturnsEveryPage`, `FoundOnParent`, `CancelledIsClean`, and under fairness `JobEnds` |
| `recursive_replay` | the same site, every page ok, two runs in a row | violation of `CompletionOrderIrrelevant` |
| `singleflight` | 6 requests for one page, of which 3 come at a time: two alike that read and write the cache, one that may not write, two with a document policy each, one that neither reads nor writes; cancellations and shutdown anywhere | `RegistryExact`, `NoOrphanWork`, `CachePolicyKept`, `WaitersProtected`, and under fairness `EveryRequestEnds` |
| `singleflight_late_joiner` | 2 requests | violation of `NoForeignCancellation` |
| `singleflight_shutdown` | 2 requests | violation of `ShutdownDrains` |
| `robots_policy` | 3 checks of 2 origins, one permit, one cache entry, two lifetimes, 2 ticks, a file that denies one path and allows the other and one beyond the rule limit; patterns and values up to 5 symbols, files up to 4 lines of 12 kinds (an empty `Disallow`, a value without a slash, another field, encoded octets), 5 paths | `RulesExact`, `PolicyInv`, `AllowsAreBacked`, and under fairness `EveryCheckEnds` |
| `request_path` | 3 requests for 2 slots, 2 of them for pages, 1 extraction permit with 1 or 2 threads under it, 1 runtime, threshold 1, cooldown 1 | `PathInv`, `WorkersBounded`, and under fairness `NothingLeaks` |
| `fetch_path` | 2 crawls, 2 page permits, 2 domains with one bucket between them, 1 redirect, 2 attempts, a deadline of 2 ticks | `FetchInv`, `BurstsKept`, `BrowserKept`, and under fairness `EveryFetchEnds` |
| `resumable_benchmark` | 7 pages in batches of 3, 4 crashes | `CommittedIsDurable`, `AlwaysResumable`, `ImplementsPageLog`, and under fairness `RunFinishes` |
| `service` | cache: 3 calls and 5 clients, cooldowns of 1 and 2 ticks, an overflow at the third failure in a row, one close. Map: 6 sitemaps, a cycle and a bomb among them, 5 to be fetched, 3 at once, 4 pages, 10 bytes, documents of at most 4 bytes in pieces of at most 2. Answer: 3 URLs of 3 sizes, 3 texts, plain and escaped, 2 sizes of everything else, a budget of 17 | `CacheInv`, `ClientsKept`, `BackoffHolds`, `MapBounded`, `OrderIndependent`, `TailReplaced`, and under fairness `MapEnds` |

Why the bounds suffice. *Frontier*: two hosts are what a turn needs, and two
URLs on one host what an order within a host needs; a third URL on the site
meets the page budget, and a second spelling, a second query and a host off site
meet each remaining reason for rejection. Priorities, ready times and the host
delay take two values each, which gives every comparison both outcomes and ties.
With two attempts per URL there is a retry, a last attempt and an exhausted one.
The two instances split what they vary: the first has no retries, the second no
priorities and no delays of its own; their product has the same cases but does
not fit. *RecursiveJob*: concurrency 2 is the least at which pages end out of
order; one page is reached on a shorter and on a longer path in either order;
one host has more links than a chunk, so that cancellation can arrive in the
middle of admission. *SingleFlight*: two like requests share a flight, a third
that differs in one permission or in its policy must not, and two policies meet a
request with the same permissions and none; a flight can be joined by a second
request in every state of the first. Each half of the key, dropped, is found out
(`FlightKeyNoWrite`, `FlightKeyAnyPolicy`). *RobotsPolicy*: two checks share a fetch while the third
competes for the permit and the cache entry; an entry can expire while another
lives. Two wildcards and a suffix, where a greedy matcher could go wrong, fit
in five symbols; two groups with a rule each, or a group that continues across a
line that makes no rule, fit in four lines. *RequestPath*: two slots are the least with one to wait for; one permit
and two pages make a queue, two threads make one that is not the last; one runtime and two calls make the late failure of
one meet the probe of the other, and the early lease of a runtime. *Fetcher*:
one bucket for two domains makes every eviction and the overflow bucket happen (with a
burst of 1 a refilled token is a whole burst; the theorem is about any burst);
two renders find one dead browser. *ResumableRun*: three batches, the last of
them shorter; each crash can be followed by a further one in the run that
resumed from it. *RedisCache*: one call fails late, while a second one connects
anew and a third waits for the lock. With five clients
some can be lost and calls still connect. *SiteMap*: `robots.txt` names more sitemaps
than a call may fetch, and `/sitemap.xml` is the index of a cycle; all documents
together exceed the byte budget, several at once. *Batch*: the budget holds some
pairs of results and not others, and all three notices.

`CHECK_DEADLOCK FALSE` stands in every configuration but those of the frontier:
jobs, requests, checks and runs end. The frontier itself never stops: rejected
admissions and the empty claim are steps.

### Fairness

* `FairFrontierSpec`: the caller keeps claiming, reports every lease, and time
  passes. That is what `_RecursiveCrawlJob.run` does. Admission, cancellation and `next_wake_at` are not fair.
  `WF` on all outcomes together suffices: which outcome comes is not constrained.
* `RecursiveJob`: weak fairness of the owner (the loop resumes a coroutine that
  can proceed) and of each page task (fetching, rendering and extraction have
  deadlines of their own). Nobody has to cancel.
* `SingleFlight`: weak fairness of every request's own step, of every flight's
  and of the end of shutdown. Cancellation and the start of shutdown are free.
* `RobotsPolicy`: every check's own step, every fetch's (a fetch has a timeout)
  and the end of close.
* `RequestPath`: every request's own step, its deadline (`Interrupted`: the
  middleware runs the application under one), and every thread (a parser or an
  HTTP call with a timeout ends). Arrivals, closing and time are free.
* `Fetcher`: every crawl's own step, and time. What a server answers is not fair:
  that a fetch ends rests on the deadline.
* `ResumableRun`: the run goes on, and is resumed when it is down. Crashes are
  free, and finitely many.
* `SiteMap` (in `service`): the owner's steps and the deadline. That a document
  arrives is not fair, nor is anything of the other two parts.

### What the violations show

* **Result order depends on timing** (`recursive_replay`). `docs/ARCHITECTURE.md:154`:
  "Completion order cannot reorder the final result list." Results are retired
  in claim order, but the next claim is made as soon as a task slot is free, from
  the links that retirement has admitted by then. Two runs over the same site
  return different orders; with a page budget smaller than the site, different
  sets.
* **A client nobody cancelled is aborted** (`singleflight_late_joiner`). The last
  waiter cancels its flight, which stays registered until it has cleaned up; a
  request that arrives in between joins it and receives its `CancelledError`.
* **Shutdown misses a crawl** (`singleflight_shutdown`). Admission is tested
  before the cache read; a request suspended there starts a flight after
  shutdown took its snapshot of the registry.

### What no run shows

Observations made on the way, stated here so that nobody takes the models for
more than they say.

* **A fallback group joins the crawler's own.** `parse_robots_txt` says that "The
  `*` groups are used only when there is no exact group". A user-agent line starts
  a new group only after a rule, and an empty `Disallow:` makes none
  (`robots.py:265`). So in `User-agent: clusycrawler / Disallow: / User-agent: * /
  Disallow: /` the rule of `*` joins the group of the crawler, and denies it
  everything its own group allows. `RulesExact` covers such files and says what the
  code does with them: `NamedFor` gives a rule to all agents named since the last
  line that *made a rule*.
* **The cache's breaker gives up after 1024 failures in a row.** The cooldown is
  a float times a power of two (`cache/__init__.py:150`), which raises
  `OverflowError` before `_retry_after` is set: from then on every call tries to
  connect. `RecordFailure` has this step; `BackoffHolds` is about the failures before.
* **An answer can exceed its budget by the receipt.** `serialized_size` measures
  the results and their envelope; the router then adds `service_identity`
  (`routers/crawl.py:45`).
* **A failed result can lose its error to the budget.** `docs/ARCHITECTURE.md:147`
  says that "rich payloads are removed from the tail while result cardinality and
  explicit errors are retained". Cardinality is retained; but a result of the tail
  that failed has its `error` overwritten by "response output budget exceeded" like
  any other (`crawler.py:2220`), so what had gone wrong with its page is lost.
  `docs/ARCHITECTURE.md:237` ("replace rich tail payloads with explicit errors") and
  the comment at `crawler.py:2224` use the word for the notice itself, so the
  sentence can be read either way, and no run is made of it. `TailReplaced` follows
  the code: it lets the error of a replaced result become the notice.
* `_glob_matches`, "where only `*` has special meaning", takes a literal `*` in the
  *value* (a URL's path) for the pattern's own: `/a*c*` does not match `/a*bc`.
  `RulesAssumption` leaves `*` out of paths, and nothing else; the theorem about the
  matcher needs it to.
* If `add_init_script` fails, the context just opened is returned to nobody
  (`renderer.py:153`), and `stop` closes the browser without its lock
  (`renderer.py:459`).

## 4. Proofs

Every theorem holds for every value of the constants that its assumptions admit;
TLC evaluates the assumptions in the runs.

### The frontier

The first part of `RecursiveJobProofs` proves, from the assumptions
`DataAssumption` and `SeedAssumption` of `Frontier` alone, that is for every set
of hosts, URLs and spellings, every configuration, every argument a caller
passes, any number of retries and unbounded time:

* `FrontierTypeCorrect`: `FrontierSpec => []TypeOK`
* `BudgetsHold`: `FrontierSpec => []WithinBudgets`
* `HeapsAreIndexes`: `FrontierSpec => []HeapsIndexPending`
* `WakeTimesAreExact`: `FrontierSpec => []WakeTimeExact`
* `ClaimsAreFair`: `FrontierSpec => ClaimIsFair`
* `FinalIsFinal`: `FrontierSpec => TerminalIsFinal`
* `LeasesAreStable`: `FrontierSpec => LeaseStable`
* `FrontierImplementsQueue`: `FrontierSpec => ImplementsQueue`

The assumptions say what the constants are (`Canonical` is a function, URLs and
so hosts in use are finitely many, host names are totally ordered, the
configuration is made of natural numbers) and that the constructor accepted the
seeds. TLC evaluates them in every run of the frontier and of the job.

**The invariant.** All of them follow from `FrontierInvariant`:
`FrontierSpec => []FrontierInv`. None is inductive alone. That a claim keeps the
attempts of a URL within its budget needs the URL it takes to be *pending*; the
claim takes whatever is on top of a ready heap, so one has to know that the top,
after `_peek_ready`, is the live item of a pending URL. This in turn needs the
heap to have a first item and the order of items to be strict and total.
`FrontierInv` therefore adds to `TypeOK`, `WithinBudgets` and `CountersExact`:

* `HeapsSound`: a host's heaps are finite and hold items of admitted URLs of
  that host, none newer than the URL's record, and never two of the same
  generation, in one heap or across both;
* `HeapsComplete`: every pending URL of a host has a live item in one of its
  heaps, and the live items carry the keys of the records (`HeapsIndex`);
* `OrdersDistinct`: admission numbers are distinct and at most `admitted`;
* `InFlightAttempted`: a URL in flight has been attempted (its backoff,
  `2^(attempts - 1)`, is a number);
* `LeasesAnswered`: of the leases of a URL, the outcome of each but the one it is
  in flight under has been taken, in order.

**The argument.** Every operation but two moves heap items without adding any:
`HeapsAdvance` says that the waiting heap only shrinks and that a ready item was
there before or has left the waiting heap; `HeapsKeep`, that no live item of a
URL that stays pending is dropped. `AdvancedHeaps` shows that this keeps
heaps sound, and `QuietStep` that such a step with records that only advance
(`RecordAdvances`) preserves the invariant; claims, outcomes that settle a URL,
cancellation and `next_wake_at` are instances of it. The two that push an item,
admission and re-queueing, are covered by `PushedHeaps`: the new item is newer
than everything the heaps hold for its URL. `ReadyOrder`, `TopIsFirst`,
`ScannedTop`, `SelectedIsFirst` and `LeasedUrl` are the facts about claims: the
`CHOOSE`s of the model (the top of a heap, the selected host) are well defined,
by `FiniteMinimum` of `Facts`, and what they choose is what the code's
tuple comparison chooses. Completeness turns this into `ClaimsAreFair`: what is
due on a host is exactly what its scanned ready heap holds, so the first item is
the most urgent due URL, and a host that could be served is a candidate. The same
equality gives `WakeTimesAreExact`. That the counters are sums over the records
(`CountersExact`) is an induction on finite sets: `SumChange` and `SumAdd` of
`Facts` say what one changed and one added record do to a sum. `FinalIsFinal` and
`LeasesAreStable` rest on the invariant and on two facts about single steps,
`OnlyOutcomesMoveRecords` and `OutcomeMovesItsRecord`. For `LeaseStable` a record
carries one history field, `answered`: the lease, named by the caller, whose
outcome was taken last. It is what lets the property say that a leased record is
moved by the outcome of its *current* lease, still outstanding, and neither by a
cancellation nor by a late answer to an earlier lease; the code has no such field
and no step of the model reads it.

**The refinement.** `FrontierImplementsQueue` brings these together: every step of
the frontier is a step of `CrawlQueue` or a stutter. `QueueReads` and
`QueueBudgets` read the abstract state off the records: the sums over attempts that
bound leases are the counters (`CountersExact`), and a host can be served
when `Claimable` says so, hence when it is a candidate. `PagesTerminated` maps the
termination of records to the settling of pages; then there is one lemma per
operation. `LeaseIsLease`, the longest, takes the order of the claim from
`LeaseIsFair` and shows that the same hosts are drained and that both clocks move as
the queue says; `NothingIsNoLease` needs the converse, that without candidates no
host can be served, and `RetryIsTryAgain` that `Retry-After` only lengthens a
backoff (`RetryWaits`). That a settled page stays settled, and that a leased one
moves only with its own outcome, follow from the shape of `CrawlQueue`;
`FinalIsFinal` and `LeasesAreStable` say so of whole records.

### Shared flights

`SingleFlightProofs` proves, from `AskAssumption` (the requests are finitely many
and each asks for something), for any number of pages, requests and flights:

* `FlightTypeCorrect`: `Spec => []TypeOK`
* `CoalescingIsExact`: `Spec => []RegistryExact`
* `NoWorkIsOrphaned`: `Spec => []NoOrphanWork`
* `CachePolicyHolds`: `Spec => []CachePolicyKept`
* `WaitersAreProtected`: `Spec => WaitersProtected`

They follow from `FlightInvariant`: `Spec => []FlightInv`. The waiter count of a
flight is exact only if the request that starts it is alone with it: its number
is new, and `RequestsKeyed` says that requests refer to flights that exist, of
their own key. Leaving cancels a flight at count one, which is the last waiter
because the count is the number of requests that wait, and that is all
`NoOrphanWork` and `WaitersProtected` need; the count of a registered flight has
to be exact even when the flight is over, for a stillborn flight stays
registered and can be joined. `StillbornAtShutdown` is what lets a flight end
without retiring its entry although `registry = Active` before shutdown.
`ReadersPermitted` and `WritersPermitted` carry the cache permissions from the
test to the use; with keys that name the permissions and the policy, they give
`CachePolicyKept`: requests that one flight serves have the key of that flight.
There is one lemma per way a step can touch a flight: it is joined
(`JoinRegistered`, `JoinNew`), left (`LeaveRegistered`, `LeaveRetired`), or moves
by itself (`FlightMoves`).

### The recursive job

The second part of `RecursiveJobProofs` builds on the frontier's invariant. From `JobAssumption`
(positive budgets, a site that is a function from URLs to links, the limits the
job gives its frontier) it proves, for every site, every outcome of its pages,
every page budget and every concurrency:

* `LeasesMatchTasks`: `Spec => []JobInv`
* `TasksAreBounded`: `Spec => []TasksBounded`
* `RetirementIsOrdered`: `Spec => []RetiredInClaimOrder`
* `DiscoveryIsSound`: `Spec => []FoundOnParent`
* `CancellationIsClean`: `Spec => []CancelledIsClean`
* `EveryPageIsReturned`: `Spec => []ReturnsEveryPage`

All but the last follow from `JobInvariant`: `Spec => []JobIInv`. Its parts need each other:
that the drain closes every record needs each lease in flight to have a task at
the moment of the cancellation (`Matched`, which also has to survive an owner
suspended in the middle of admission, whose page is live but no longer leased);
that the page whose links are admitted is a sound parent needs it to be terminal
and succeeded (`RetiringSound`); that the head of the reorder buffer is the next
result needs claims numbered without a gap (`Ordered`); that the owner resolves
its lease, and not a stale one, needs the one attempt of the frontier's budget
(`OneAttempt`). What a call of the frontier does to the rest is stated once per
call (`DropEffect`, `LeaseEffect`, `FinishEffect`, `AdmitEffect`); the steps of
the owner that leave its buffer alone are instances of `OwnerMoves`, and the
others append to the results (`AppendKeeps`) or settle a lease (`SettleKeeps`).

`EveryPageIsReturned` needs more, `PagesIInv`: a job that returns saw a claim that
found nothing, and one has to know that then nothing was pending. `Timeless` says
that in a job nothing waits for a time. `PendingHasBudget` says that no budget is
exhausted while a page is pending, although the fetch budget is no larger than the
number of pages: each URL is attempted at most once, so a pending URL makes the
sum of attempts (`CountersExact`) less than the number of admitted URLs. Hence a
pending page makes its host a candidate (`NothingPending`), and no page is ever
dropped for a budget (`NothingDropped`). `ResultsSound` and `ResultsComplete` say
that the results and the live tasks are the records that are no longer pending.

### The request path

`RequestPathProofs` proves, for any number of requests, slots, permits and
runtimes, any threshold and cooldown:

* `PathIsSound`: `Spec => []PathInv`
* `AnsweredAtMostOnce`: `Spec => []AnsweredOnce`
* `CancellationFloodsAreBounded`: `Spec => []WorkersBounded`

The invariant is one part per component, `LimitInv /\ PermitInv /\ QualityInv`,
and `PathSound` for their composition; most steps change one part and a lemma
(`LimitsUnchanged`, `PermitsUnchanged`, `QualityUnchanged`) keeps the others.
`AnswersExact` adds where a request is to how often it was answered. `LineSound`
says that who waits for a permit has no thread, and who awaits its work at least
one. `Busy`, the pages with a thread, changes with the first and the last of them
only (`StartThreadsKeeps`, `LastThreadEndsKeeps`). `Balance` adds to the counts
that the pool of runtimes repeats none, and `Paired` and `Cancellable` say how a
call, its worker and the runtime between them are related: that the I/O of a call
that left has been cancelled (`OrphansCancelled`) needs the runtime to remember
whose I/O it runs, from before it is submitted.

### Fetching

`FetcherProofs` proves, for any number of crawls, domains, buckets, pages, hops
and attempts, `FetchingIsSound`: `Spec => []FetchInv`, and `BurstsAreKept`:
`Spec => []BurstsKept`, and `LiveBrowsersAreKept`: `Spec => BrowserKept`. The second is not inductive without `RegistryExact` (a
bucket in use is in the registry) and without what eviction tests, that a
discarded bucket is drained (`BurstInv`). `HopsCleared` is inductive once it says
what a crawl that awaits the policy has been through: the step from there records
the second half of what it asks of an attempt, and a redirect goes back before the
first. `Facts` has what the registry,
a sequence without repetition, needs: removing, appending, taking the head. The
third needs no invariant: whoever takes the launch lock tests the browser in the
same step, and no other step closes one.

### Resumable runs

`ResumableRunProofs` proves, for every number of pages, batch size and number of
crashes, `CheckpointsAreDurable`, `CrashesAreResumable`, `DoneMeansPublished`,
and `RunImplementsPageLog`: `Spec => ImplementsPageLog`. The invariant is about
all states the directory may still fall back to: none counts more rows than are
synced (`Durable`), none takes back what an earlier one said (`Forward`), and the
final name only ever stands for the whole artifact (`FinalIsWhole`); `Place` is
what the process knows at each step. A step of the run then maps to a commit, the
publication or a stutter of `PageLog`, and a crash to a stutter, because the log
is what the *oldest* state of the directory counts.

### The policy service

`RobotsPolicyProofs` proves, for any origins, checks, permits, lifetimes and size
of the cache, `PolicyIsSound`: `Spec => []PolicyInv`, and
`PagesAreAllowedByAnswers`: `Spec => AllowsAreBacked`. `ClosedStates` ties the
registry to `close`, which cancels what it finds and forgets it; `Placed` says
that a check which waits, or is about to release its fetch, has one; `Countable`,
that the waiters of a fetch are finitely many, without which a count says
nothing. A count is exact for the reason it is in `SingleFlightProofs`; here a
fetch retires its own entry, and `close` retires the rest. A page is allowed from
the cache or from a fetch, and `Remembered` says that what a fetch has said stays
what it said: an entry's fetch, its kind and the time it ended are the ones
`CacheSound` speaks of, so an entry that is fresh is younger than its lifetime.

### What a robots.txt file means

`RulesAreExact`: `Spec => []RulesExact`, where the bounds of `RulesExact` play no
part: it follows from two theorems about all patterns, values, files and paths.

`GreedyMatchIsExact`: for a value without a `*` in it, `GlobMatches` says whether
the pattern `Covers` the value. The scan is a recursion over places, which has a
solution since every step lowers `Rank`: it retries from further on, or passes a
later wildcard, or else has less of the value left (`RecursionExists` of `Facts`,
for any recursion on a bounded measure). `CoversFrom` says from where on the rest
of the pattern covers the rest of the value. What the scan finds from a place is
not only that but `FoundFrom`: or else, that what follows the last wildcard covers
the rest from some place not tried yet. That is why backing up to the *last*
wildcard suffices: such a cover, where it passes the place the scan has reached in
the pattern, is at or ahead of it in the value (`RetriesCoverAhead`), so a wildcard
passed later can take up all that an earlier one could still give
(`WildcardFound`, `MatchFound`). Where the value ends no retry helps (`EndFound`).

`FileDecides`: `Allows(ParsedRules(file), path)` is `AllowsAsWritten(file, path)`,
for every file and every path without a `*`. Four parts lead there. Collapsing wildcards changes neither what is covered nor the specificity
(`CollapsedMeansSame`), so the rule of a line matches what the line covers
(`RuleOfLine`); one symbol more adds one to the specificity, or nothing, or
takes one away when it completes an escape (`SpecificityAppend`). One pass over the rules decides by the longest that matches,
whatever their order (`LongestRuleWins`). One pass over the lines leaves groups
that say of every agent what the lines say of it (`GroupsSayWhatLinesSay`): the
invariant `ReadSoFar` is that the groups and the open one hold exactly the rules of
the lines read, that the open one's agents are those named for the next line, and
that it has a rule exactly if one was made since its last agent (`Ruled`). A
user-agent line, a line that makes a rule and one that makes none are a lemma each
(`AgentLineRead`, `RuleLineRead`, `OtherLineRead`). `RulesGathered` merges the
groups of one agent. Every pass is a fold; `FoldRun` turns a fold into a run of
steps, to which `NatSetInduction` applies.

### The result cache, the site map, the answer

`ServiceProofs` proves, for any number of calls and clients, any base and cap of
the cooldown, `CacheIsSound`: `CacheSpec => []CacheInv`, and `BackoffIsKept`:
`CacheSpec => BackoffHolds`, and
`ClientsAreKept`: `CacheSpec => ClientsKept`. A new client is nobody's, for it is
chosen outside what is open, closing or referred to (`Unused`). `Backs` says that as
long as there is no client, the time until `_retry_after` is no shorter than what is
left of the cooldown the last failure calls for, doubled as often as it has to be;
a success resets `quiet` but then there is a client. For `ClientsKept`, each step
names the clients it takes out of use or out of somebody's hands: a late failure
drops the client in use into its own hands, an attempt that fails keeps the one it
made until it is closed, and the rest is `GivenUp`. A cooldown is a number because
`PowerOfTwo`, a recursive function, has a solution (`PowersUnfold`,
`PowersPositive`).

`MapsAreBounded`: `MapSpec => []MapBounded`, for every site, every limit and
every order of arrival. Three things make it inductive. The bytes held and the
bytes that remain add up to no more than the budget: one piece changes one term of
a sum (`SumChange`), the deadline only lowers terms (`SumMonotone`), a new batch
adds zeros (`SumExtend`). Every URL taken into a batch is in `seen`, which has
exactly `fetched + Len(batch)` elements (`SeenCounted`); fetched sitemaps are
different members of `seen` (`FetchedOnce`, `BatchIsNew`), so there are no more of
them than the limit. And what loads was started last (`LoadsLast`), in a window as
wide as a batch. The documents of a batch are read by nested folds: one per document over
its locations, one over the documents. Each is a run of steps (`ReadDocumentRuns`,
`ReadBatchRuns`, `ReadHomeRuns`).

`MapsAreInOrder`: `MapSpec => []OrderIndependent`, for every site, every limit and
every order of arrival. The reference is `Traversal`, which fetches one sitemap at
a time. The invariant `OrderIInv` compares the two at every step: the sitemaps
taken so far (`Took`, those of the batch that loads included) are the first of the
traversal's, each taken once; the queue holds those that follow, in their order,
where a URL that is queued twice counts once (`Extended(Took, toParse, OnSite)`);
and the list is the traversal's, cut at its limit. While a batch loads nobody knows
which documents will arrive. So all of this is said of *every* set of documents
that agrees with what was read so far (`AgreesOn`), and reading a batch only makes
fewer sets agree. What a batch appends is then compared with what the traversal
appends for the same documents: location by location (`ReadLocMatches`), document
by document (`ReadDocumentMatches`), and for the batch (`ReadBatchMatches`); the
relation kept along the runs is `Matches`. That the limit on the list may be
applied early or late is `LimitedNoted`. At the end the documents that arrived are
one of the sets: no URL is taken twice, so none counts as arrived for the sake of
another fetch. For that set the traversal is where the call is, and stays there
(`TraversalSettles`): what follows on its list did not arrive, since it lists no URL
twice (`TraversalInjective`).

`AnswersFit`: `BatchSpec => []TailReplaced`, for any number of results, any sizes
and any budget. The invariant (`Progress`) says what the two loops have made of
the collected results when they stand at a position: `Cut`, everything behind it
replaced, or `Forgotten`, the URLs behind it gone as well, and that with one
result less replaced the answer did not fit. That the second loop ends with an
answer that fits (`NoticesFit`) needs the budget to hold the notices themselves,
which `BatchAssumption` takes from the least value the settings admit.

### Facts, and how induction is done

The library's induction theorems take a predicate as an operator, which no
installed prover instantiates. Where the property can be written as a *set*, the
same induction is first-order: `NatSetInduction` (a set of naturals with 0 and
closed under successor is all of them) and `SubsetInduction` (a family of finite
sets closed under adding an element) follow from the existence of least elements.
The sums (`SumRemove` to `SumMonotone`), the folds of the community modules
(`FoldExists`, `FoldRun`) and recursion on a bounded measure
(`RecursionExists`) are proved this way. What a fold computes is then an induction
along its run, so equalities of two recursions over data are within reach too. `SelectSeq` and `^` stay
opaque to the provers, so a cache entry is removed by position (`RemoveAt`), a
call leaves the queue by `RemoveFirst`, and powers of two are a function.

### Only model-checked

The liveness properties `EveryUrlSettles`, `JobEnds`, `EveryRequestEnds`,
`EveryCheckEnds`, `NothingLeaks`, `EveryFetchEnds`, `RunFinishes` and
`MapEnds`: liveness under fairness is out of the prover's reach. Every invariant
and every action property of the passing runs is proved.

## 5. Plan

The models the first plan named are written, and their safety is proved. What is
left is a shared-work specification that the singleflight and the policy service
both implement.

## 6. Not modelled

Most of the repository is the processing of documents, and measuring it: HTML,
Markdown and metadata extraction, the document IR with its receipts and
selection experiments, the native extension, the scoring of benchmarks and their
reports. These are pure functions with no state and no concurrency, whose
correctness is a matter of the data that these models abstract away: a model of
them would be a transliteration. The map therefore covers what has state,
order or a deadline, and a small share of all lines.

* **Crawl pipeline.** Routing of a page between extractors: what each of them
  awaits is in `RequestPath` and `Fetcher`; the decisions are pure functions.
* **Lifespan.** A line of steps; `shutdown_crawler`, `aclose` and `close` are in
  the models of their components. **Structured extraction.** One call under a
  semaphore and a timeout, in `Batch` an answer.
* **Routers, authentication, configuration and response models.** Validation and
  delegation.
* **`webis_benchmark.py`** has a checkpoint protocol of the same shape as the run
  that is modelled.
* Inside the modelled parts, metrics and log records are left out, and so are
  wall-clock durations: time is counted in the units the component compares.
  `canonicalize_url` and the textual trap tests are data to the frontier
  (`Canonical`, `Info`); address checks and content types are answers of the
  environment to the fetcher. The change of the event loop and `evict_idle` of
  the limiter (tests only, never called), page routing and `stop` of the
  renderer, and a second cancellation of a job that drains are not modelled.
