SPECIFICATION FairSpec
CONSTANTS
  Scripts <- MCScripts
  OUTBUF_SIZE = 4
  DownSpace = 3
  AllocMayFail = TRUE
  MaxNotices = 2
  RECVBUF_SIZE = 3
  UpSpace = 2
INVARIANTS TypeOK LinesWhole OutputScheduled QuitIsGraceful
PROPERTIES QuitCompletes WritesFinish
CHECK_DEADLOCK FALSE
