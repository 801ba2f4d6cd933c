SPECIFICATION FrontierSpec
CONSTANTS
  Host <- MCHost
  Url <- MCUrl
  Link <- MCLink
  Canonical <- MCCanonical
  Malformed = Malformed
  Info <- MCInfo
  Path = {"/", "/p"}
  Query = {"q1", "q2"}
  Calendar = {}
  None = None
  HostRank <- MCHostRank
  SubdomainOf <- MCSubdomainOf
  Config <- SchedulingConfig
  SeedLinks <- MCSeedLinks
  SeedPriority = 0
  Depths = {1, 2}
  Priorities = {0, 1}
  Parents = {"a1"}
  ReadyDelays = {0, 1}
  Reasons = {"PERMANENT_FAILURE"}
  RetryAfters = {None}
  MaxTime = 1
INVARIANTS HeapsIndexPending WakeTimeExact
PROPERTIES ClaimIsFair
