SPECIFICATION FairSpec
CONSTANTS
  Product = "us"
  MaxRules = 2
  Check = {1, 2, 3}
  Asks <- MCAsks
  Origin = {"x", "y"}
  Path <- MCPath
  Files <- MCFiles
  Ttl <- MCTtl
  CacheEntries = 1
  MaxConcurrency = 1
  MaxTime = 2
  Octet = {"/", "a", "b", "%", "$"}
  Symbols = {"a", "b"}
  MaxPattern = 5
  MaxValue = 5
  Lines <- MCLines
  MaxLines = 4
  TestPaths <- MCTestPaths
INVARIANTS RulesExact PolicyInv
PROPERTIES AllowsAreBacked EveryCheckEnds
CHECK_DEADLOCK FALSE
