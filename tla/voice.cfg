SPECIFICATION Spec
CONSTANTS
  a1 = a1
  a2 = a2
  out = out
  in = in
  Calls = {out, in}
  Accounts = {a1, a2}
  AccountOf <- BothEnds
  Placed = {out}
  Legs = {}
  Keyed = {}
  Room = 2
  MaxDrop = 1
  MaxOff = 1
INVARIANTS RowsTrue
PROPERTIES ForwardOnly
CHECK_DEADLOCK FALSE
