SPECIFICATION Spec
CONSTANTS
  p1 = p1
  p2 = p2
  Plugin = {p1, p2}
  MaxEvents = 2
  Torn = Torn
INVARIANTS
  ReadsItsEvent
