SPECIFICATION Spec
CONSTANTS
  Request = {1, 2}
  Page = {"p"}
  Asks <- MCAsks
  Arrivals = {{1, 2}}
INVARIANTS ShutdownDrains
CHECK_DEADLOCK FALSE
