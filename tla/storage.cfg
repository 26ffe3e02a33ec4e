SPECIFICATION FairSpec
CONSTANTS
  Depth = 3
  MaxRun = 3
  MaxDrop = 1
  MaxUi = 1
  MaxTacky = 1
  MaxFocus = 1
INVARIANTS StatusTrue GateIsTrue OpenIsTold
PROPERTIES BusyEnds
CHECK_DEADLOCK FALSE
