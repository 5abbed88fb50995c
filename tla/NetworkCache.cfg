\* Three networks that want the same bridge, created at the same time if Docker likes, one
\* of an earlier version with options that cannot be decoded; an endpoint on the first;
\* one plugin crash, one failed write of the file, an unreadable file, failing lists.
SPECIFICATION FairSpec
CONSTANTS
  n1 = n1
  n2 = n2
  n3 = n3
  e1 = e1
  br0 = br0
  Network = {n1, n2, n3}
  Endpoint = {e1}
  Home <- OneHome
  Bridge <- SameBridge
  Undecodable = {n3}
  Overlap = TRUE
  Faults = {"list", "check", "load"}
  MaxCrashes = 1
  MaxUnsaved = 1
INVARIANTS TypeOK DiskIsCurrent OnlyUnseenShare
PROPERTIES AttachedIsKept OptionsAreKept ExistingGetsCached GoneIsForgotten
CHECK_DEADLOCK FALSE
