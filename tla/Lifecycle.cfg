\* Two requests, two keys, one crash.
SPECIFICATION Spec
CONSTANTS
  r1 = r1
  r2 = r2
  k1 = k1
  k2 = k2
  Requests   <- MCRequests
  Keys       <- MCKeys
  Jitters    <- MCJitters
  Period     = 1
  MaxTime    = 1
  MaxFailures = 1
  MaxCrashes = 1
INVARIANTS
  OneAtATime
  OneFingerprint
  FileIsStore
PROPERTIES
  FileKeepsThePeriod
  EveryRequestGoesOn
