\* Copies of one request in n1's two handlers; nothing restarts.
CONSTANTS
  n1 = n1
  n2 = n2
  t1 = t1
  t2 = t2
  w1 = w1
  w2 = w2
  w3 = w3
  Node = {n1, n2}
  Task = {t1}
  Worker = {w1, w2}
  NoTask = NoTask
  AgentOf <- MCAgentOf
  NodeOf <- MCNodeOf
  Lifetime <- MCShort
  CPKey <- MCCPKey
  AgentKey <- MCAgentKey
  Offset <- MCOffset
  Second = 2
  MaxAge = 3
  SkewTolerance = 1
  MaxPause = 0
  StartTime = 1
  MaxBuilt = 1
  LastBuild = 2
  MaxRestarts <- MCNoRestart
  MaxTime = 9
SPECIFICATION Spec
INVARIANT AtMostOnce
CHECK_DEADLOCK FALSE
