SPECIFICATION Spec
CONSTANTS
  p1 = p1
  p2 = p2
  NoPlugin = NoPlugin
  Plugin = {p1, p2}
  Registered = {p1}
  MaxThreads = 5
  Commands <- EveryCommand
  MaxRequests = 3
  MaxEvents = 1
  Mishaps = {"missing"}
INVARIANTS
  TypeOK
  NoUseAfterUnload
  DestroyedAfterExit
  ShutdownIsClean
  IInv
PROPERTIES
  LifecycleSpec
