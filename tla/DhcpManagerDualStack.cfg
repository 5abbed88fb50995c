\* A manager made by Join, no failure; the first IPv4 lease is enough.
SPECIFICATION Spec
CONSTANTS
  Lease <- TwoServers
  First <- Server1
  Origins = {"join"}
  MaxExits = 0
  MaxEvents = 1
  MaxLeases = 1
  MaxRefused = 0
INVARIANT DualStackFollowsLease
CHECK_DEADLOCK FALSE
