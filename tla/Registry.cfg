SPECIFICATION FairSpec
CONSTANTS
  h1 = h1
  Helper = {h1}
  Level = {0, 1}
  MaxHandlers = 3
  MaxSessions = 2
  MaxEvents = 1
  EndedBefore = "exit"
INVARIANTS
  TypeOK
  NobodySkipped
  FreshHandlers
  ApisAreSet
PROPERTIES
  BroadcastsEnd
