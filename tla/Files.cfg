CONSTANTS
  c1 = c1
  c2 = c2
  w1 = w1
  w2 = w2
  NoTask = NoTask
  Clients <- TwoClients
  Workers <- OneWorker
  Silent <- NoClient
  Requests <- PagesAndFiles
  MaxConnections = 1
  FdLimit = 2
  Faults <- Interrupt
SPECIFICATION Spec
INVARIANT
  NoAssertionFails
