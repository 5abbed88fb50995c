\* One call at a time, no crash, no fault: a reconciliation overlaps a Join.
SPECIFICATION Spec
CONSTANTS
  Endpoint = {e1}
  Faults = {}
  MaxCrashes = 0
  Caller = "ordered"
INVARIANT AttachedStaysCached
