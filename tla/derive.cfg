SPECIFICATION FairSpec
CONSTANTS
  NodeType <- EstateTypes
  AccountOf <- EstateAccounts
  Inputs <- AllInputs
INVARIANT ExplicitEdgesKept StateIsWeakest Closed Supported
PROPERTY Terminates
CHECK_DEADLOCK FALSE
