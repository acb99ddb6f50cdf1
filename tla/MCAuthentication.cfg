\* Requests of one account overlap at will.
CONSTANTS
  User = {u1}
  Session = {s1}
  Enrolment = {e1, e2}
  CodeCount = 2
  Worker = {w1, w2}
  None = None
SPECIFICATION Spec
INVARIANTS TypeOK BarredNeverServed NoLockout CodesGenuine FactorsGenuine  RowConsistent
SYMMETRY Symmetry
CHECK_DEADLOCK FALSE
