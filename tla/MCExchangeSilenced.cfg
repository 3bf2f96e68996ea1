SPECIFICATION Spec
CONSTANTS
  n1 = n1
  n2 = n2
  MaxClients = 3
  NoConnection = NoConnection
  Names <- MCNames
  NoName = NoName
  Amounts <- MCAmounts
  IntWidth = 5
  Fds <- MCFds
  NoFd = NoFd
  NoOrder = NoOrder
  Listings <- OneListing
  Quantities <- MCQuantities
  MaxOrders = 2
  FILLS_INITIAL_CAPACITY = 1
  AllocMayFail = FALSE
SYMMETRY NameSymmetry
INVARIANT NobodyIsSilenced
CHECK_DEADLOCK FALSE
