SPECIFICATION FairSpec
CONSTANTS
  Configs <- MCConfigs
  Name <- MCName
  Busy = {"kitchen"}
  Size = 3
  NetworkTimeout = 2
  StatusTimeout = 1
INVARIANTS
  TypeOK
  SentWhole
  NothingLeftOpen
  InTime
  ListingTrue
PROPERTIES
  CallsEnd
  KeepsContract
CHECK_DEADLOCK TRUE
