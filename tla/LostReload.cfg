SPECIFICATION FairSpec
CONSTANTS
  RuleSets <- MCRuleSets
  NoRules <- MCNoRules
  VersionOf <- MCVersionOf
  Edits <- RaisingEdits
  Keys = {k1}
  Extras = {e1}
  Requests = {q1}
  Handlers = {h1, h2}
  Main = main
  MaxNotices = 2
  OneAtATime = FALSE
  ReadsMayFail = FALSE
  None = None
PROPERTY ReloadConverges
