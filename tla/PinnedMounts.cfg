SPECIFICATION Spec
CONSTANTS
  None = None
INVARIANTS MountsVisible
CHECK_DEADLOCK FALSE
