SPECIFICATION Spec
CONSTANTS
  MaxTs = 4
  PageSize = 1
  Stored = {1, 2, 3, 4}
  Unsynced = {}
  Features = {"goto", "page"}
  Budget = 2
INVARIANT SettledWhole
CHECK_DEADLOCK FALSE
