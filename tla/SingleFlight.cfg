SPECIFICATION FairSpec
CONSTANTS
  Request = {1, 2, 3, 4, 5, 6}
  Page = {"p"}
  Asks <- MCAsks
  Arrivals <- MCArrivals
INVARIANTS RegistryExact NoOrphanWork CachePolicyKept
PROPERTIES WaitersProtected EveryRequestEnds
CHECK_DEADLOCK FALSE
