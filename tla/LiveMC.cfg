CONSTANTS
  N = 3
  Reg = {x}
SPECIFICATION Spec
INVARIANTS IInv Exact
PROPERTIES ImplementsLiveness
CHECK_DEADLOCK FALSE
