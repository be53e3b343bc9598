SPECIFICATION FairSpec
CONSTANTS
  Calls = {u1, u2}
  MaxRetries = 1
  MaxRequests = 1
  FailureRatio = 60
  MaxLoad = 1
  None = None
INVARIANTS TypeOK CountsAccountForCalls OnlyStoredMoodsAnnounced AloneUpdateAgrees
PROPERTIES ImplementsRetriedCall UpdatesEnd BreakerRecovers
CHECK_DEADLOCK FALSE
