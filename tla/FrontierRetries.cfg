SPECIFICATION FairFrontierSpec
CONSTANTS
  Host <- MCHost
  Url <- MCUrl
  Link <- MCLink
  Canonical <- MCCanonical
  Malformed = Malformed
  Info <- MCInfo
  Path = {"/", "/p"}
  Query = {"q1", "q2"}
  Calendar = {}
  None = None
  HostRank <- MCHostRank
  SubdomainOf <- MCSubdomainOf
  Config <- RetryConfig
  SeedLinks <- RetrySeedLinks
  SeedPriority = 0
  Depths = {1}
  Priorities = {0}
  Parents = {"a1"}
  ReadyDelays = {0}
  Reasons = {"PERMANENT_FAILURE"}
  RetryAfters <- MCRetryAfters
  MaxTime = 0
INVARIANTS FrontierInv
PROPERTIES LeaseStable ImplementsQueue EveryUrlSettles
