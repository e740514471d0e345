SPECIFICATION FairSpec
CONSTANTS
  Capacity = 2
  Threads = {t1, t2}
  MaxBlocks = 3
  SourceStatus = {"ok", "stale"}
  GcHosts = {"app", "producer"}
INVARIANTS
  NothingLost
  SourceClosedOnce
  FinalizerKept
PROPERTIES
  ImplementsFeed
  ReleaseReachesSource
  BlockedConsumerFreed
  ProducerEnds
