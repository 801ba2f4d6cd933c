SPECIFICATION ServiceSpec
CONSTANTS
  Caller = {1, 2, 3}
  Clients = 5
  Base = 1
  Cap = 2
  MaxExponent = 2
  Robots = "robots"
  Home = "home"
  Default = "main"
  Url <- SiteUrls
  Site <- TheSite
  XmlPath <- Sitemaps
  OnSite <- SameSite
  Wanted <- Matching
  PageLimit = 4
  MaxSitemaps = 5
  Concurrency = 3
  MaxBytes = 10
  MaxDocument = 4
  MaxChunk = 2
  UrlSize <- Urls
  Texts = {0, 2, 5}
  Riches = {0, 3}
  Escape = 2
  TextCap = 3
  MaxOutput = 17
  Envelope = 2
  Frame = 1
  Notice = 2
  Mark = 1
INVARIANTS CacheInv MapBounded OrderIndependent TailReplaced
PROPERTIES ClientsKept BackoffHolds MapEnds
CHECK_DEADLOCK FALSE
