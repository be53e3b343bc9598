SPECIFICATION FairSpec
CONSTANTS
  k1 = k1
  k2 = k2
  p1 = p1
  Keys = {k1, k2}
  Values = {v1, v2}
  Patterns = {p1}
  Matching <- MCMatching
  RequestedTTL = 0
  DefaultTTL = 2
  Period = 3
  None = None
INVARIANTS TypeOK CloseIsIdempotent
PROPERTIES ImplementsTTLCache ExpiredEntriesAreFreed CleanerStops
