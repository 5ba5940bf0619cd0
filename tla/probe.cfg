SPECIFICATION ProbeSpec
CONSTANTS
  Catalog <- MixedCatalog
  Registered <- MixedRegistered
  Inventory <- MixedInventory
  Regions <- TwoRegions
  MaxHits = 1
  Failures = {"denied", "error"}
  Concurrency = 2
  Functions <- AllFunctions
  MaxThings = 2
  BatchSize = 2
  MaxCalls = 5
  FirstPages <- OnePage
  Overlooked <- Optional
INVARIANT Reconciled CoverageIsHonest CallsBounded
INVARIANT CountIsOnDisk NothingLeftUnread RefusedIsNotEmpty OneThingFailsNothing
PROPERTY EveryCallReturns
CHECK_DEADLOCK FALSE
