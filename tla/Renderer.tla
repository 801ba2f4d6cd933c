------------------------------ MODULE Renderer ------------------------------
(***************************************************************************)
(* Rendering in the browser: OptimizedRenderer.render of src/app/services/ *)
(* renderer.py.  A render holds one of MaxPages permits from before it     *)
(* looks for the browser until its context is closed; who finds the        *)
(* browser dead launches it again under a lock.                            *)
(***************************************************************************)
EXTENDS Integers

CONSTANTS
  Crawl,
  MaxPages     \* max_concurrent_pages

ASSUME RendererAssumption == 0 \notin Crawl /\ MaxPages \in Nat \ {0}

VARIABLES
  pages,       \* the value of _page_sem
  browser,     \* _browser: none, connected, or no longer so
  launcher,    \* who holds _browser_lock, or 0
  renders      \* per crawl: what its render awaits

renderVars == <<pages, browser, launcher, renders>>

Renders == {"none", "queued", "locking", "launching", "opening", "loading", "closing"}

RendererInit ==
  /\ pages = MaxPages
  /\ browser = "none" /\ launcher = 0
  /\ renders = [c \in Crawl |-> "none"]

Goes(c, at) == renders' = [renders EXCEPT ![c] = at]

Queue(c) ==
  /\ renders[c] = "none"
  /\ Goes(c, "queued")
  /\ UNCHANGED <<pages, browser, launcher>>

\* A permit, and the first look at the browser.
TakePage(c) ==
  /\ renders[c] = "queued"
  /\ pages > 0
  /\ pages' = pages - 1
  /\ Goes(c, IF browser = "connected" THEN "opening" ELSE "locking")
  /\ UNCHANGED <<browser, launcher>>

\* Mutant: the browser is not looked at again under the lock.
LaunchAlways == TRUE

MustLaunch == browser # "connected"

\* The second look, under the lock.  A dead browser is closed.
TakeLock(c) ==
  /\ renders[c] = "locking"
  /\ launcher = 0
  /\ IF MustLaunch
     THEN launcher' = c /\ browser' = "none" /\ Goes(c, "launching")
     ELSE Goes(c, "opening") /\ UNCHANGED <<launcher, browser>>
  /\ UNCHANGED pages

Launched(c) ==
  /\ renders[c] = "launching"
  /\ browser' = "connected"
  /\ launcher' = 0
  /\ Goes(c, "opening")
  /\ UNCHANGED pages

\* A context is opened; with the browser dead it is an error, see Abandon.
Opened(c) ==
  /\ renders[c] = "opening"
  /\ browser = "connected"
  /\ Goes(c, "loading")
  /\ UNCHANGED <<pages, browser, launcher>>

\* The page has loaded, failed, or used up the deadline of the render.
Loaded(c) ==
  /\ renders[c] = "loading"
  /\ Goes(c, "closing")
  /\ UNCHANGED <<pages, browser, launcher>>

\* The page and the context are closed, and the permit comes back.
Closed(c) ==
  /\ renders[c] = "closing"
  /\ pages' = pages + 1
  /\ Goes(c, "none")
  /\ UNCHANGED <<browser, launcher>>

\* An error, the deadline of the render or a cancellation, before there is a
\* context that is closed.
Abandon(c) ==
  /\ renders[c] \in {"queued", "locking", "launching", "opening"}
  /\ pages' = IF renders[c] = "queued" THEN pages ELSE pages + 1
  /\ launcher' = IF renders[c] = "launching" THEN 0 ELSE launcher
  /\ Goes(c, "none")
  /\ UNCHANGED browser

Crash ==
  /\ browser = "connected"
  /\ browser' = "dead"
  /\ UNCHANGED <<pages, launcher, renders>>
=============================================================================
