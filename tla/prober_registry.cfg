SPECIFICATION Spec
CONSTANTS
  Catalog <- ClusterCatalog
  Registered <- ClusterRegistered
  Inventory <- ClusterInventory
  Regions <- TwoRegions
  MaxHits = 1
  Failures = {"denied", "error"}
  Concurrency = 2
INVARIANT ProbedWhereRegistered
CHECK_DEADLOCK FALSE
