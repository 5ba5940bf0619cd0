SPECIFICATION Spec
CONSTANTS
  Tasks <- TwoStepTasks
  Seeds <- TwoSeeds
  Leaf <- TwoStepLeaf
  MaxRecs <- TwoStepRecs
  Child <- PathChild
  RowOf <- SharedRow
  Failures = {"error"}
  Concurrency = 2
INVARIANT SlotsConserved RunWaitsForAll IntegrityAtReturn NoHiddenGap CountersAgree
