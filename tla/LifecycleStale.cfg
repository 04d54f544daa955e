\* The look at the time is taken without the lock: a second round of pre-requests.
SPECIFICATION Spec
CONSTANTS
  r1 = r1
  r2 = r2
  k1 = k1
  k2 = k2
  Requests   <- MCRequests
  Keys       <- MCKeys
  Jitters    <- MCJitters
  Period     = 1
  MaxTime    = 1
  MaxFailures = 1
  MaxCrashes = 1
PROPERTIES
  SentOnlyWhenDue
