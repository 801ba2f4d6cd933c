SPECIFICATION FairSpec
CONSTANTS
  Host <- MCHost
  Url <- MCUrl
  Link <- MCLink
  Canonical <- MCCanonical
  Malformed = Malformed
  Info <- MCInfo
  Path = {"/"}
  Query = {}
  Calendar = {}
  None = None
  HostRank <- MCHostRank
  SubdomainOf = {}
  Config <- NinePages
  SeedLinks <- MCSeedLinks
  SeedPriority = 0
  Depths = {}
  Priorities = {}
  Parents = {}
  ReadyDelays = {}
  Reasons = {}
  RetryAfters = {}
  MaxTime = 0
  MaxPages = 9
  MaxConcurrent = 2
  LinkChunk = 3
  PageLinks <- MCPageLinks
  Outcomes <- AnyOutcome
INVARIANTS JobInv RetiredInClaimOrder ReturnsEveryPage FoundOnParent CancelledIsClean
PROPERTIES JobEnds
CHECK_DEADLOCK FALSE
