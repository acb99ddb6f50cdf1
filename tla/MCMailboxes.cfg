\* Four tasks, any two of which overlap, and two faults.
CONSTANTS
  c1 = c1
  c2 = c2
  c3 = c3
  a1 = a1
  a2 = a2
  Create = {c1, c2, c3}
  Delete = {d1, d2}
  Address = {a1, a2}
  AddressOf <- MCAddressOf
  None = None
  MaxTasks = 4
  MaxUnderWay = 2
  MaxFaults = 2
SPECIFICATION Spec
INVARIANTS TypeOK CreatedIsUsable GoneWithRow IndexFollows
SYMMETRY Symmetry
CHECK_DEADLOCK FALSE
