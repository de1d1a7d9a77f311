SPECIFICATION Spec
CHECK_DEADLOCK FALSE
CONSTANTS
  None = None
  k1 = k1
  k2 = k2
  w1 = w1
  w2 = w2
  c1 = c1
  c2 = c2
  Keys = {k1, k2}
  Workdirs = {w1, w2}
  Containers = {c1, c2}
  Chunks <- MCChunks
  Shards <- MCShards
  Target <- MCTarget
  Modes = {"process", "subprocess"}
  MaxSessions = 3
  MaxRuns = 4
INVARIANTS
  TypeOK
  PopulatedIsBuilt
  PassedIsBuilt
