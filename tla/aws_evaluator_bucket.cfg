SPECIFICATION Spec
CONSTANTS
  Nodes <- SmallNodes
  Objects <- SmallObjects
  AccountOf <- Accounts
  FactPool <- SmallFacts
  MaxFacts = 4
  RequestTimeKeys <- Keys
  Requests <- SmallRequests
INVARIANT DenyWins
CHECK_DEADLOCK FALSE
