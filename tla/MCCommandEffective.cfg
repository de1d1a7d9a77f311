SPECIFICATION Spec
CHECK_DEADLOCK FALSE
CONSTANTS
  None = None
  Partial = Partial
  MaxCalls = 3
  Pipelines <- MCPipelines
  Configs <- MCConfigs
  Baselines <- MCBaselines
  Treated = {"n"}
  Allowed = {"y"}
  Required = {"n"}
INVARIANT EffectiveIsOwn
