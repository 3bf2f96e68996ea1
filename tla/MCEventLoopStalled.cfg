SPECIFICATION FairSpec
CONSTANTS
  c1 = c1
  c2 = c2
  c3 = c3
  Clients <- TwoClients
  Fds <- TwoFds
  NoClient = NoClient
  Listener = 3
  MIN_CAPACITY = 2
  MAX_EVENTS = 3
  MaxLines <- OneLineEach
  Endless <- OneEndless
  Window = 1
  AllocMayFail = FALSE
  SignalsArrive = FALSE
PROPERTY NoClientStallsAnother
CHECK_DEADLOCK FALSE
