\* Two endpoints, Docker leaves the plugin the time to finish what it started; the
\* two contend for createMu and for Recover.  No symmetry: a liveness property.
SPECIFICATION FairSpec
CONSTANTS
  Endpoint = {e1, e2}
  Faults = {}
  MaxCrashes = 1
  Caller = "spaced"
INVARIANTS DeletedIsForgotten
PROPERTY CallsAreAnswered
