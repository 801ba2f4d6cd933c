SPECIFICATION FairSpec
CONSTANTS
  Request = {1, 2, 3}
  Page = {1, 2}
  Call = {1, 2}
  MaxActive = 2
  MaxExtractions = 1
  Threads = {1, 2}
  MaxConcurrency = 1
  Threshold = 1
  Cooldown = 1
  MaxTime = 1
INVARIANTS PathInv WorkersBounded
PROPERTIES NothingLeaks
CHECK_DEADLOCK FALSE
