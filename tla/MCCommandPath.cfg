SPECIFICATION PathSpec
CONSTANTS
  Bytes <- MCBytes
  CR = "cr"
  LF = "lf"
  INBUF_SIZE = 3
  MaxBytes = 8
  BUFFER_SIZE = 4
  MaxTyped = 7
  TooLong = TooLong
INVARIANTS IndInv ReadHasRoom NothingMissed SegmentationIndependent InputHasRoom CommandsArrive
CHECK_DEADLOCK FALSE
