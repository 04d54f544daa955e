\* A session lives two or three hours; a list is kept for three, and a fetch takes up to two.
SPECIFICATION StoresSpec
CONSTANTS
  k1 = k1
  k2 = k2
  c1 = c1
  c2 = c2
  SessionKeys  <- MCSessionKeys
  ModelKeys    <- MCModelKeys
  Callers      <- MCCallers
  Duration     = 2
  Jitter       = 2
  ModelsTTL    = 3
  FetchTimeout = 2
INVARIANTS
  ModelsFresh
PROPERTIES
  SessionPeriod
  ExpiredEntriesGo
