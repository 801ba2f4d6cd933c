SPECIFICATION Spec
CONSTANTS
  Request = {1, 2}
  Page = {"p"}
  Asks <- MCAsks
  Arrivals = {{1, 2}}
INVARIANTS NoForeignCancellation
CHECK_DEADLOCK FALSE
