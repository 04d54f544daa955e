\* All histories of up to 4 items of a Chat or Responses client, or 4 blocks of a
\* Messages client.
SPECIFICATION RequestsSpec
CONSTANTS
  Ids = {c1, c2}
  MaxItems = 4
SYMMETRY IdSymmetry
INVARIANTS
  PairingInvariants
  ContentKept
  LegalUntouched
  LossTold
  ResultsFollowCalls
  MediaFollowsResults
  BreakpointPlaced
  CacheGrows
\* The history is complete at some point.
CHECK_DEADLOCK FALSE
