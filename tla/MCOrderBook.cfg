SPECIFICATION Spec
CONSTANTS
  fd1 = fd1
  fd2 = fd2
  Fds <- MCFds
  NoFd = NoFd
  NoOrder = NoOrder
  Listings <- TwoInstruments
  Quantities <- MCQuantities
  MaxOrders = 4
  FILLS_INITIAL_CAPACITY = 1
  AllocMayFail = FALSE
SYMMETRY FdSymmetry
INVARIANTS IndInv NeverLocked Conservation ReportComplete
PROPERTIES NoOvertaking OrphansStay ImplementsMatching
