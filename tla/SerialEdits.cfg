SPECIFICATION Spec
CONSTANTS
  RuleSets <- MCRuleSets
  NoRules <- MCNoRules
  VersionOf <- MCVersionOf
  Edits <- RaisingEdits
  Keys = {k1}
  Extras = {e1}
  Requests = {q1, q2}
  Handlers = {h1}
  Main = main
  MaxNotices = 1
  OneAtATime = TRUE
  ReadsMayFail = TRUE
  None = None
INVARIANTS TypeOK EngineVersionNamesRules CurrentKeyIsFresh AnswersNotOlderThanKey
PROPERTY EngineNeverStepsBack
CHECK_DEADLOCK FALSE
