SPECIFICATION Spec
CONSTANTS
  Scripts <- Orders
  OUTBUF_SIZE = 4
  DownSpace = 3
  AllocMayFail = FALSE
  MaxNotices = 0
  RECVBUF_SIZE = 3
  UpSpace = 2
INVARIANT EndOfInputIsGraceful
CHECK_DEADLOCK FALSE
