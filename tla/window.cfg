SPECIFICATION Spec
CONSTANTS
  MaxTs = 4
  PageSize = 1
  Stored = {1, 2}
  Unsynced = {}
  Features = {"page", "goto", "cull", "reset", "edit", "send", "relocate", "fail", "stream", "foreign", "link"}
  Budget = 2
INVARIANTS
  TypeOK GapsHaveACause OneRequest QuietFailure FailureIsTold
  RealRows SettledTail NothingStuck
CHECK_DEADLOCK FALSE
