\* Two ordinary containers, started and restarted one after the other; no failure.
SPECIFICATION Spec
CONSTANTS
  Container = {c1, c2}
  Static = {}
  Custom = {}
  Sequential = TRUE
  Faults = {}
  MaxStarts = 5
INVARIANT IdentifiedMacIsDeterministic
CHECK_DEADLOCK FALSE
