SPECIFICATION Spec
CONSTANTS
  c1 = c1
  c2 = c2
  c3 = c3
  Clients <- TwoClients
  Fds <- OneFd
  NoClient = NoClient
  Listener = 3
  MIN_CAPACITY = 2
  MAX_EVENTS = 3
  MaxLines <- Silent
  Endless <- Nobody
  Window = 2
  AllocMayFail = FALSE
  SignalsArrive = FALSE
INVARIANT OnlyLeaversAreClosed
CHECK_DEADLOCK FALSE
