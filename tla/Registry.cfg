SPECIFICATION Spec
CONSTANTS
  Callers = {c1, c2}
  NumAdapters = 2
  Priority <- MCPriority
  Malformed <- MCMalformed
  Stem <- MCStem
  SensorIds <- MCSensorIds
  Results <- MCResults
  Clock = {0, 1}
  MaxListings = 2
  MaxReadings = 2
INVARIANTS ReadingsOrdered Routable ShutdownComplete
SYMMETRY Symmetry
