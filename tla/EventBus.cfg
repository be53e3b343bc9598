SPECIFICATION FairSpec
CONSTANTS
  Types = {"rule_updated", "mood_changed"}
  Handlers = {h1}
  Calls = {c1}
  MaxSubscribers = 2
INVARIANTS TypeOK SyncAnswersForAll NoSendAfterClose
PROPERTIES PublishNeverWaits PublishSyncReturns HandlersRun
