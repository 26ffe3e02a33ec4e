SPECIFICATION Spec
CONSTANTS
  Nil = nil
  Depth = 3
  MaxDrop = 1
  Views = {newest, above}
  Newest = newest
  MaxHolds = 2
  Words = {space, word, nick}
  Space = space
  Nick = nick
  Messages = {m1, m2}
  None = none
  Files = {file}
  MaxQueue = 2
  Chats = {all, room}
  Everywhere = all
  Archives = {room}
  Queries = {q1, q2}
  NoQuery = noquery
  Pages = 2
  Accts = {acc1, acc2}
  Services = {s1, s2}
  NoOne = noone
  Typed = typed
INVARIANTS OpenTold ViewKept PadlockTrue OneQuestion
PROPERTIES DraftComesBack ViewComes
CHECK_DEADLOCK FALSE
