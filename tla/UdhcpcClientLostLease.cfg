\* One event, no deadline: the goroutines of GetIP are enough.
SPECIFICATION Spec
CONSTANT MaxLines = 1
INVARIANT BoundIsReturned
CHECK_DEADLOCK FALSE
