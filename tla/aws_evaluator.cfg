SPECIFICATION Spec
CONSTANTS
  Nodes <- SmallNodes
  Objects <- SmallObjects
  AccountOf <- Accounts
  FactPool <- SmallFacts
  MaxFacts = 5
  RequestTimeKeys <- Keys
  Requests <- SmallRequests
INVARIANT NothingPossibleMissed ActiveIsCertain
PROPERTY DenialsOnlyRemove
CHECK_DEADLOCK FALSE
