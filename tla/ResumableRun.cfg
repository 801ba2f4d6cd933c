SPECIFICATION FairSpec
CONSTANTS
  Pages = 7
  Batch = 3
  MaxCrashes = 4
INVARIANTS CommittedIsDurable AlwaysResumable
PROPERTIES ImplementsPageLog RunFinishes
CHECK_DEADLOCK FALSE
