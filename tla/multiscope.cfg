SPECIFICATION FairSpec
CONSTANTS
  Accounts = {"p1", "p2", "p3"}
  Lists <- AllOrTheSecond
  Types = {"bucket"}
  Pool = 2
  MaxRuns = 2
INVARIANT MergeIsUnion ScopeCollected
PROPERTY Ends
CHECK_DEADLOCK FALSE
