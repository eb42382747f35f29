SPECIFICATION FairSpec
CONSTANTS
  Handle = {1, 2}
  Heap = {1, 2}
  OwnAnnounce = 0
  MessageIds = {m1}
  OwnIds = {m1}
  AnnounceHashes = {a0}
  SelfHashes = {a0}
  MaxTtl = 3
  RxTtls = {3}
  RxTimes = {9}
  BuildTime = 5
  MessageTimeout = 1
  TenMinutes = 2
  Wrap = 64
  MaxUptime = 0
INVARIANTS AnnouncePerSession 
PROPERTIES QueueDrains EveryoneAnnouncedTo LeavesInOrder
