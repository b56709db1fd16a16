SPECIFICATION FairSpec
INVARIANTS
  QuietStart
  IsrFindsItsHandle
  WaitsEnd
PROPERTIES
  PadsAfterFirmware
  StartsUp
