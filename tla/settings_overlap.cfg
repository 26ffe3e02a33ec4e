SPECIFICATION Spec
CONSTANTS
  Nil = nil
  Depth = 2
  MaxDrop = 1
  Values = {u, v}
  MaxAsks = 2
  Hosts = {h1, h2}
  Names = {a, b}
  Blank = blank
  MaxTries = 2
  Options = {x}
  Default = x
INVARIANT SavedIsSaved
CHECK_DEADLOCK FALSE
