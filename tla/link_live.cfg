SPECIFICATION LiveSpec
CONSTANTS
  Cap = 5
  SockBuf = 1
  MaxConn = 3
  MaxLife = 2
  MaxAsk = 2
  MaxEvents = 1
  MaxSelf = 0
PROPERTIES EveryRequestSettles
CHECK_DEADLOCK FALSE
