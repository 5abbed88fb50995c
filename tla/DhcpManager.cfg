\* A manager made by Join, with both families; one udhcpc exits by itself; three events
\* (enough for a back-off after collisions), the first two of which may be leases; in one
\* renewal the kernel may refuse calls.  A stopped manager does nothing more: no deadlock
\* check.
SPECIFICATION FairSpec
CONSTANTS
  Lease <- TwoServers
  First <- Server1
  Origins = {"join"}
  MaxExits = 1
  MaxEvents = 3
  MaxLeases = 2
  MaxRefused = 1
INVARIANTS TypeOK ClientIsSupervised AddressFollowsLease
PROPERTIES AgreementLasts StopEndsAll ClientReplaced SupervisedV4 SupervisedV6
CHECK_DEADLOCK FALSE
