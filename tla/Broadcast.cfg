SPECIFICATION FairSpec
CONSTANTS
  p1 = p1
  p2 = p2
  Plugin = {p1, p2}
  MaxEvents = 3
  Torn = Torn
INVARIANTS
  NeverOlder
  SameEvents
PROPERTIES
  EveryPluginHandles
