SPECIFICATION Spec
CONSTANTS
  RuleSets <- MCRuleSets
  NoRules <- MCNoRules
  VersionOf <- MCVersionOf
  Edits <- RaisingEdits
  Keys = {k1}
  Extras = {e1, e2}
  Requests = {q1, q2}
  Handlers = {h1}
  Main = main
  MaxNotices = 1
  OneAtATime = TRUE
  ReadsMayFail = FALSE
  None = None
INVARIANT AnswerForOwnContext
