SPECIFICATION Spec
CONSTANTS
  p1 = p1
  p2 = p2
  NoPlugin = NoPlugin
  Plugin = {p1}
  Registered = {p1}
  MaxThreads = 4
  Commands <- ReloadCommand
  MaxRequests = 1
  MaxEvents = 1
  Mishaps = {"throw"}
PROPERTIES
  CrashedThreadIsDown
