\* Two backups, one restore; each backup task may be executed twice.
CONSTANTS
  Request = {r1, r2}
  Restore = {q1}
  Path = {p1, p2}
  Copies = 2
  None = None
SPECIFICATION FairSpec
INVARIANTS TypeOK CompletedIsWhole RestoresWhole
PROPERTY Settles
CHECK_DEADLOCK FALSE
