SPECIFICATION FairSpec
CONSTANTS
  Workers = 3
  MaxTasks = 4
  MaxSessions = 2
INVARIANTS
  FunctionsRunEnabled
  StoreIsExact
PROPERTIES
  FuturesAreSet
  DisableReturns
