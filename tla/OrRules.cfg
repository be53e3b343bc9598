SPECIFICATION Spec
CONSTANTS
  RuleLists <- MCRuleLists
  Contexts <- MCContexts
  Products <- MCProducts
  Moods = {"happy", "sad"}
  Ceiling = 9
  None = None
  UsesOr = TRUE
INVARIANT MatchingRulesFound
