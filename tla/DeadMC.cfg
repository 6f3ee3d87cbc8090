CONSTANTS
  CC = cc
  rx = rx
  ry = ry
  Reg = {rx, ry, cc}
  Len = 4
  Insns <- MCInsns
SPECIFICATION Spec
INVARIANTS RangesExact InterfExact
INVARIANTS KillsOnlyUseless KillsAllUseless Pessimistic
PROPERTIES Terminates
CHECK_DEADLOCK FALSE
