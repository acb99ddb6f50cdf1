\* One goroutine, so that copies come one after the other, and one restart.
CONSTANTS
  n1 = n1
  n2 = n2
  t1 = t1
  t2 = t2
  w1 = w1
  w2 = w2
  w3 = w3
  Node = {n1, n2}
  Task = {t1}
  Worker = {w1}
  NoTask = NoTask
  AgentOf <- MCAgentOf
  NodeOf <- MCNodeOf
  Lifetime <- MCShort
  CPKey <- MCCPKey
  AgentKey <- MCAgentKey
  Offset <- MCOffset
  Second = 2
  MaxAge = 3
  SkewTolerance = 1
  MaxPause = 0
  StartTime = 1
  MaxBuilt = 1
  LastBuild = 2
  MaxRestarts <- MCOneRestart
  MaxTime = 9
SPECIFICATION Spec
INVARIANT NoDuplicateExecution
CHECK_DEADLOCK FALSE
