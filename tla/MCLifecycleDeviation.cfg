SPECIFICATION Spec
CONSTANTS
  c1 = c1
  c2 = c2
  Configs <- MCConfigs
  BuildKey <- MCBuildKey
  Envs = {e1, e2}
  Params = {p}
  Metrics = {m1, m2}
  Options <- MCOptions
  MaxCalls = 2
  Crashes = TRUE
  None = None
  Partial = Partial
SYMMETRY Interchangeable
CHECK_DEADLOCK FALSE
INVARIANTS
  DeviationIsNeverCitable
