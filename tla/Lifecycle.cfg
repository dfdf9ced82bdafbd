CONSTANTS
  Cores = {0, 1, 3, 4}
  UnsignedMax = 5
  MaxSignals = 3
SPECIFICATION FairSpec
INVARIANTS
  WorkersSeeLiveObjects
  NothingLeftBehind
PROPERTIES
  LeftServerEnds
  
