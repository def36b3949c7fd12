SPECIFICATION FairSpec
CONSTANTS
  p1 = p1
  p2 = p2
  NoPlugin = NoPlugin
  Plugin = {p1, p2}
  Registered = {p1}
  MaxThreads = 3
  Commands <- CrashCommand
  MaxRequests = 2
  MaxEvents = 1
  Mishaps = {"throw"}
INVARIANTS
  EnabledIsBound
  LibrariesOwned
PROPERTIES
  CrashIsHandled
  TasksAreServed
  EntranceIsCalled
