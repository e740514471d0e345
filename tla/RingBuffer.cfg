SPECIFICATION MCSpec
CONSTANTS
  Capacity = 3
  Consumers = {c1, c2}
  Pushed <- MCPushed
  MaxDiscarded = 3
INVARIANTS
  WindowInv
  NoLostWakeup
PROPERTIES
  ImplementsQueue
  SleeperServed
