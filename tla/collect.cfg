SPECIFICATION Spec
CONSTANTS
  Seeds <- TwoSeeds
  Details <- OneDetail
  Parent <- OfChain
  Rank <- Sorted
  Facts = {"fact"}
  Failures = {"denied", "error"}
  MaxRuns = 3
INVARIANT FreshBundleExact NothingCollectedTwice CoverageIsBacked
PROPERTY ResumeOnlyAdds
CHECK_DEADLOCK FALSE
