SPECIFICATION Spec
CONSTANTS
  Advance = 14
  LineHeight = 26
  AssetNames <- MCAssetNames
  Entries <- MCEntries
  Requests <- MCRequests
  AssetData <- MCAssetData
INVARIANT FirstFrameFits
CHECK_DEADLOCK TRUE
