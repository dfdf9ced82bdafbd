CONSTANTS
  c1 = c1
  c2 = c2
  w1 = w1
  w2 = w2
  NoTask = NoTask
  Clients <- TwoClients
  Workers <- TwoWorkers
  Silent <- SecondClient
  Requests <- PageOnly
  MaxConnections = 1
  FdLimit = 2
  Faults <- Interrupt
SPECIFICATION PoliteSpec
PROPERTIES
  Answered
  ClosedAfterAnswer
  ShutdownCompletes
