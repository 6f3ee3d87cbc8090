CONSTANTS
  Lines <- AllLines
  Main = "main"
  SyncWindow = 2
  MaxLines = 6
  MaxFiles = 2
SPECIFICATION SpecBoth
INVARIANTS CopiesActive Located
CHECK_DEADLOCK FALSE
