\* Two addresses; the ttl, like the code's, exceeds a full refill.
CONSTANTS
  Key = {k1, k2}
  Burst = 2
  Period = 2
  TTL = 6
  Window = 4
  MaxTime = 16
SPECIFICATION Spec
INVARIANT RateIsBounded
PROPERTY ImplementsBucket
CHECK_DEADLOCK FALSE
