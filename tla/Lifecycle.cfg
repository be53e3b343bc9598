SPECIFICATION FairSpec
CONSTANTS
  Rpcs = {r1, r2}
  Requests = {h1}
INVARIANTS TypeOK CallsHaveTheirResources HandlersCutOnlyLate StopIsClean
PROPERTY StopEnds
CHECK_DEADLOCK FALSE
