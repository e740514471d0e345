SPECIFICATION InputsSpec
CONSTANTS
  NumAdapters = 3
  Priority <- MCPriority
  Malformed <- MCMalformed
  Stem <- MCStem
  Ids <- MCIds
  OddIds <- MCOddIds
  Plain <- MCPlain
  Broken <- MCBroken
  Infos <- MCInfos
  MaxRecords = 4
INVARIANTS EverySensorListed IdsDistinct OwnerHasSensor AcceptedServable
