SPECIFICATION Spec
CONSTANTS
  c1 = c1
  c2 = c2
  c3 = c3
  Clients <- ThreeClients
  Fds <- TwoFds
  NoClient = NoClient
  Listener = 3
  MIN_CAPACITY = 2
  MAX_EVENTS = 2
  MaxLines <- OneLine
  Endless <- Nobody
  Window = 2
  AllocMayFail = TRUE
  SignalsArrive = TRUE
SYMMETRY SilentSymmetry
INVARIANTS TypeOK TableMatchesSockets NoLostEdge NoOrphanFilter ShutdownClosesAll
CHECK_DEADLOCK FALSE
