SPECIFICATION PartsSpec
CONSTANTS
  Rooms = {own, hosted}
  Own = own
  NoRoom = none
  Asks = TRUE
  Room = 3
  Scenes <- TwoScenes
  in = in
  leg = leg
  account = account
  Calls = {in, leg}
  Accounts = {account}
  Placed = {}
  Legs = {leg}
  Keyed = {in}
  Frames = 2
  MaxDrop = 1
  MaxOff = 1
INVARIANTS CallTrue OutIsQuiet RowsTrue
PROPERTIES LeftStaysLeft JoinSettles EndsAreShown
CHECK_DEADLOCK FALSE
