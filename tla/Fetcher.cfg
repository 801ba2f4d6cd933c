SPECIFICATION FairSpec
CONSTANTS
  Crawl = {1, 2}
  Domain = {"a", "b"}
  Caller = {1, 2}
  Burst = 1
  MaxDomains = 1
  MaxPages = 2
  MaxRedirects = 1
  MaxAttempts = 2
  Total = 2
  MaxPause = 1
INVARIANTS FetchInv BurstsKept
PROPERTIES BrowserKept EveryFetchEnds
CHECK_DEADLOCK FALSE
