SPECIFICATION Spec
CONSTANTS
  RuleSets <- FlatRuleSets
  NoRules <- MCNoRules
  VersionOf <- FlatVersionOf
  Edits <- FlatEdits
  Keys = {k1}
  Extras = {e1}
  Requests = {q1}
  Handlers = {h1}
  Main = main
  MaxNotices = 1
  OneAtATime = TRUE
  ReadsMayFail = FALSE
  None = None
INVARIANT FlushedCacheIsFresh
