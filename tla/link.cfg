SPECIFICATION Spec
CONSTANTS
  Cap = 2
  SockBuf = 1
  MaxConn = 3
  MaxLife = 2
  MaxAsk = 2
  MaxEvents = 1
  MaxSelf = 1
INVARIANTS LinkTrue
PROPERTIES AnsweredOnce ReplacementStays
CHECK_DEADLOCK FALSE
