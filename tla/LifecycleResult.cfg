CONSTANTS
  Cores = {0, 1, 3, 4}
  UnsignedMax = 5
  MaxSignals = 0
SPECIFICATION Spec
INVARIANTS
  ResultReturned
