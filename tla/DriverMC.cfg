CONSTANTS
  Base = {"f", "g", "h"}
  AOut = aout
  MaxArgs = 3
SPECIFICATION Spec
INVARIANTS Cleaned Delivered InputsKept
CHECK_DEADLOCK FALSE
