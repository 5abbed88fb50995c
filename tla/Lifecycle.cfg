\* One endpoint, Docker at its most demanding, one crash, every ignored error.
SPECIFICATION FairSpec
CONSTANTS
  Endpoint = {e1}
  Faults = {"save", "list", "link"}
  MaxCrashes = 1
  Caller = "forced"
INVARIANTS TypeOK NoDoubleStop SingleOwner ClientIsReachable SparedIsForgotten NoLeakedVeth
PROPERTY GhostsPruned
