\* The lists of the source.
SPECIFICATION Spec
INVARIANT RegistersOnlyAllowed
CHECK_DEADLOCK FALSE
