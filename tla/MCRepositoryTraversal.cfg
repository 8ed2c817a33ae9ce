CONSTANTS
  top = top
  file = file
  rule = rule
  dir = dir
  git = git
  below = below
  link = link
  target = target
  out = out
  Root = top
  Paths <- MCPaths
  Parent <- MCParent
  Ancestors <- MCAncestors
  Rank <- MCRank
  GitNames = {git}
  DefaultExcluded = {target, out}
  ArtifactOutput = {out}
  IgnoreRules = {rule}
  GlobsOut = {rule}
  Trees <- MCTrees
  Possible <- MCPossible
  Answers <- MCAnswers
  OptionSets <- MCOptionSets
  MaxBytes = 1
  MaxChanges = 1
  MaxFaults = 1
  Outside = outside
  None = none
SPECIFICATION RepositorySpec
INVARIANTS ReportIsConsistent CompleteIsWhole LimitsAreCanonical
CHECK_DEADLOCK FALSE
