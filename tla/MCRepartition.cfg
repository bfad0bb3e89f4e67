CONSTANTS
  Inputs = {0, 1}
  Outputs = {0, 1}
  Owner = Owner
  Writers = {0, 1, Owner}
  Pools <- MCPools
  InputChoices <- MCInputChoices
  Size <- MCSize
  MaxFileSize = 1
  MayFail = {1}
  MayDrop = {1}
SPECIFICATION FairSpec
INVARIANT ReservationBalanced
INVARIANT MarkerHasBatch
INVARIANT NothingLost
INVARIANT OrderKept
PROPERTY OutputsEnd
