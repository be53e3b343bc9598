SPECIFICATION FairSpec
CONSTANTS
  noRules = noRules
  set1 = set1
  set2 = set2
  a = a
  b = b
  c = c
  RuleSets = {noRules, set1, set2}
  Versions = {0, 1, 2}
  Loads <- MCLoads
  NoRules = noRules
  MoodRules <- MCMoodRules
  AnyRules <- MCAnyRules
  Count <- MCCount
  Rules = {a, b, c}
  Readers = {r1, r2}
  Loaders = {l1}
  MaxAny = 2
  None = None
  Nobody = Nobody
INVARIANT TypeOK
PROPERTIES ImplementsRuleSnapshot ReloadsFinish ReadsFinish
