\* All three start together, and two things fail on the way.
CONSTANTS
  p1 = p1
  p2 = p2
  p3 = p3
  Process = {p1, p2, p3}
  Release <- MCRelease
  MaxFaults = 2
SPECIFICATION StartSpec
INVARIANTS AppliedOnce AppliedInOrder ServingIsReady
PROPERTY EventuallyServes
CHECK_DEADLOCK FALSE
