CONSTANTS
  t1 = t1
  t2 = t2
  t3 = t3
  a = a
  b = b
  Free = Free
  Threads <- ThreeThreads
  Items <- TwoItems
SPECIFICATION FairSpec
INVARIANTS
  TakesWhatItSaw
  NoLostWakeup
PROPERTIES
  ImplementsAtomic
  SleeperServed
