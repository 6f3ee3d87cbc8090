CONSTANTS
  N = 4
SPECIFICATION LoopSpec
INVARIANTS LoopIInv Dominance LoopBodies InnerIsDeeper
PROPERTIES LoopTerminates
CHECK_DEADLOCK FALSE
