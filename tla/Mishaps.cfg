SPECIFICATION LoaderFairSpec
CONSTANTS
  p1 = p1
  p2 = p2
  NoPlugin = NoPlugin
  Plugin = {p1}
  Registered = {p1}
  MaxThreads = 4
  Commands <- LoadOrNot
  MaxRequests = 2
  MaxEvents = 1
  Mishaps = {"throw", "overrun", "list", "missing", "badSymbols", "duplicate"}
INVARIANTS
  IInv
PROPERTIES
  ListIsReleased
  ExitIsReached
CHECK_DEADLOCK FALSE
