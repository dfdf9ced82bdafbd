CONSTANTS
  c1 = c1
  c2 = c2
  w1 = w1
  w2 = w2
  NoTask = NoTask
  Clients <- OneClient
  Workers <- OneWorker
  Silent <- NoClient
  Requests <- PageOnly
  MaxConnections = 1
  FdLimit = 2
  Faults <- Interrupted
SPECIFICATION FairSpec
PROPERTY
  ShutdownCompletes
