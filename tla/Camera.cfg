SPECIFICATION FairSpec
CONSTANTS
  Callers = {c1}
  PoolSize = 2
  MaxReads = 3
INVARIANTS IdleTimerArmed NothingForgotten
PROPERTIES CallersFreed EveryReadStarts
