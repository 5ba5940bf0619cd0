SPECIFICATION EngineSpec
CONSTANTS
  ArtifactPool <- Artifacts
  MaxArtifacts = 2
  FactPool <- Facts
  MaxFacts = 2
  AccountOf <- AccountSegments
  Permissions <- Evaluated
  Callers <- Collectors
  Flips <- Hashed
  Literals <- Estate
  MaxLiterals = 2
  GcpNodes <- GcpEstate
  LastSeg <- LastSegs
  Members <- GcpMembers
  GcpFactPool <- GcpFacts
  MaxGcpFacts = 5
  AzureNodes <- AzureEstate
  AzureFactPool <- AzureFacts
  MaxAzureFacts = 4
  Inputs <- Lists
  GraphNodes <- ExportNodes
  LastPart <- LastParts
  Ledgers <- Receipts
  FactLists <- FactsLeft
  EdgePool <- Written
  MaxEdges = 3
  Alike <- OneAlike
INVARIANT TrustCrossesAccounts
CHECK_DEADLOCK FALSE
