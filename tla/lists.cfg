SPECIFICATION Spec
CONSTANTS
  Nil = nil
  Depth = 1
  MaxDrop = 1
  MaxJid = 3
  MaxOrder = 1
  Chats = {r1, r2}
  NoRoom = noroom
  Senders = {s1, s2}
  Own = own
  Peer = peer
  This = this
  Other = other
  Hers = hers
  NoDevice = nodevice
  Rooms = {room}
  People = {p1, p2, p3}
  Full = 2
  Jids = {a, b}
  Keys = {k1, k2}
  None = none
  MaxAlerts = 4
  MaxIds = 4
  Bus = 3
  Sids = {c1, c2}
  Posted = 2
  MaxInvites = 2
  Faces = {p1, p2}
  Hashes = {h1}
  NoHash = nohash
  Loads = {1, 2}
  Quoting = {m1, m2}
  OwnMessage = ours
  Taps = {1}
  Newline = newline
  Base = 2
  Longest = 2
  MaxFrame = 2
  MaxSent = 3
  MaxOpened = 2
INVARIANTS
  ListsTrue TrustTrue RoomTrue MediaTrue FramesWhole AlertsTrue PhoneTrue
CHECK_DEADLOCK FALSE
