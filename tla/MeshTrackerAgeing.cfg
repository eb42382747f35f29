SPECIFICATION Spec
CONSTANTS
  Handle = {1}
  Heap = {1, 2}
  OwnAnnounce = 0
  MessageIds = {m1, m2}
  OwnIds = {m1}
  AnnounceHashes = {a0}
  SelfHashes = {a0}
  MaxTtl = 3
  RxTtls = {1, 3}
  RxTimes = {0, 7}
  BuildTime = 5
  MessageTimeout = 1
  TenMinutes = 2
  Wrap = 64
  MaxUptime = 1
INVARIANTS TypeOK NoDangling QueuedOnce
PROPERTIES ImplementsPacketLife
