SPECIFICATION FairSpec
CONSTANTS
  SendGap = 2
  AnnounceGap = 0
  ConnectGap = 5
  OffGap = 0
  BootLimit = 1
  IdleScanGap = 6
  BusyScanGap = 9
  CleanupGap = 0
  CleanupDelay = 0
  ScanPeriod = 1
  MaxLoop = 1
  Wrap = 256
INVARIANTS RadioExclusive
PROPERTIES  PowersOff
