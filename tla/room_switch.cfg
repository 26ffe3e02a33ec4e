SPECIFICATION Spec
CONSTANTS
  Nil = nil
  Depth = 2
  MaxDrop = 1
  Rooms = {r1, r2}
  Keys = {k1}
  Full = 1
INVARIANT OfThisRoom
CHECK_DEADLOCK FALSE
