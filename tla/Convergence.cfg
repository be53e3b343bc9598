SPECIFICATION FairSpec
CONSTANTS
  RuleSets <- FlatRuleSets
  NoRules <- MCNoRules
  VersionOf <- FlatVersionOf
  Edits <- FlatEdits
  Keys = {k1}
  Extras = {e1}
  Requests = {q1}
  Handlers = {h1}
  Main = main
  MaxNotices = 2
  OneAtATime = FALSE
  ReadsMayFail = FALSE
  None = None
INVARIANT VersionReadAfterRules
PROPERTIES ReloadConverges CacheConverges
