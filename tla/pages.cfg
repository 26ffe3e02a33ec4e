SPECIFICATION Spec
CONSTANTS
  Nil = nil
  Depth = 2
  MaxDrop = 1
  Values = {u, v}
  MaxAsks = 2
  Hosts = {h1, h2}
  Names = {a, b}
  Blank = blank
  MaxTries = 2
  Options = {x, y}
  Default = x
INVARIANTS SettingsTrue SignUpTrue
PROPERTIES WaitsEnd
CHECK_DEADLOCK FALSE
