SPECIFICATION FairSpec
CONSTANTS
  Adapters = 2
  Behaviours <- MCBehaviours
  CommandLines <- MCCommandLines
PROPERTIES ReadBounded
CHECK_DEADLOCK FALSE
