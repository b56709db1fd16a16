SPECIFICATION FairSpec
CONSTANTS
  PktBytes = 2
  FifoSize = 3
  MaxOwed = 2
INVARIANTS
  SendsAsDriver
  WriteAccepted
  WaitsEnd
  CrcOfStablePacket
  CrcOfWholeReply
PROPERTY
  KeepsPolling
