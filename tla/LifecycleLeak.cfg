\* One call at a time, no crash, no fault: Leave right after Join is enough.
SPECIFICATION Spec
CONSTANTS
  Endpoint = {e1}
  Faults = {}
  MaxCrashes = 0
  Caller = "ordered"
INVARIANT DeletedIsForgotten
