SPECIFICATION Spec
CONSTANTS
  Enumerators = {e1}
  Readers = {r1}
  Records <- MCRecords
  Reports <- MCReports
  Minted <- MCMinted
  ReadIds <- MCReadIds
  MaxRequests = 3
INVARIANTS ReadingFromItsSensor
