SPECIFICATION FairSpec
CONSTANTS
  Tasks <- TwoStepTasks
  Seeds <- TwoSeeds
  Leaf <- TwoStepLeaf
  MaxRecs <- TwoStepRecs
  Child <- PathChild
  RowOf <- OwnRow
  Failures = {"error"}
  Concurrency = 2
PROPERTY KeepsCoveragePromise Terminates

