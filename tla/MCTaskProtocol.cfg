\* Tasks that live as long as MaxAge; a second is two ticks, and a goroutine
\* may stall for one.
CONSTANTS
  n1 = n1
  n2 = n2
  t1 = t1
  t2 = t2
  w1 = w1
  w2 = w2
  w3 = w3
  Node = {n1, n2}
  Task = {t1, t2}
  Worker = {w1, w2, w3}
  NoTask = NoTask
  AgentOf <- MCAgentOf
  NodeOf <- MCNodeOf
  Lifetime <- MCShort
  CPKey <- MCCPKey
  AgentKey <- MCAgentKey
  Offset <- MCOffset
  Second = 2
  MaxAge = 4
  SkewTolerance = 1
  MaxPause = 1
  StartTime = 1
  MaxBuilt = 1
  LastBuild = 1
  MaxRestarts <- MCOneRestart
  MaxTime = 11
SPECIFICATION Spec
INVARIANTS TypeOK NonceRemembered OnceUnlessRaced
PROPERTIES StartsOnlyValidTasks LateCopiesRefused ImplementsLedger
SYMMETRY Symmetry
CHECK_DEADLOCK FALSE
