CONSTANTS
  None = None
  a = a
  b = b
  Pseudo = {a, b, c, d}
  Phys = {p, q}
  Colors = {p, q}
  Occurring = {p}
  Costs = {6}
  NCopies = 2
  Class <- OneClass
  Size <- Sizes
SPECIFICATION AllocSpec
INVARIANTS IInv SpilledIsBlocked NoNeedlessSpill Coalesced StaysSimple
CHECK_DEADLOCK FALSE
