SPECIFICATION Spec
CONSTANTS
  Advance = 14
  LineHeight = 26
  AssetNames <- MCAssetNames
  Entries <- MCEntries
  Requests <- MCRequests
  AssetData <- MCAssetData
INVARIANTS
  TypeOK
  BlocksMeet
  InkApart
  RowsOnce
  FieldsExact
  ControlsInPlace
  
PROPERTIES
  WordsKept
  LinesFit
  CellsLineUp
  RequestEnds
CHECK_DEADLOCK TRUE
