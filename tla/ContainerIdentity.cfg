\* Two containers, one with a MAC of its own, one with a hostname of its own,
\* started concurrently, and one of them restarted; calls to Docker may fail.
SPECIFICATION Spec
CONSTANTS
  Container = {c1, c2}
  Static = {c1}
  Custom = {c2}
  Sequential = FALSE
  Faults = {"listen", "list", "lease", "start", "inspect", "setmac"}
  MaxStarts = 2
INVARIANTS TypeOK IdentifiedMacIsIntended CachedIsOwn
CHECK_DEADLOCK FALSE
