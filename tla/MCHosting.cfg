\* Everything may overlap; a3 is an account of the node.
CONSTANTS
  c1 = c1
  c2 = c2
  c3 = c3
  c4 = c4
  c5 = c5
  a1 = a1
  a2 = a2
  a3 = a3
  Creation = {c1, c2, c3, c4, c5}
  Account = {a1, a2, a3}
  UserOf <- MCUserOf
  Foreign = {a3}
  None = None
SPECIFICATION Spec
INVARIANTS TypeOK HomesArePrivate NothingUnowned
SYMMETRY Symmetry
CHECK_DEADLOCK FALSE
