CONSTANTS
  c1 = c1
  c2 = c2
  w1 = w1
  w2 = w2
  NoTask = NoTask
  Clients <- TwoClients
  Workers <- TwoWorkers
  Silent <- NoClient
  Requests <- PageOnly
  MaxConnections = 1
  FdLimit = 2
  Faults <- Interrupt
SPECIFICATION Spec
SYMMETRY Symmetry
INVARIANTS
  TypeOK
  ExclusiveAccess
  RunnersOwned
  WatchedHaveDescriptors
  ConnectionHeldUntilAnswered
  TwoRunnables
PROPERTY
  ImplementsLife
