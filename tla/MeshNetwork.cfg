SPECIFICATION FairSpec
CONSTANTS
  a = a
  b = b
  c = c
  Node = {a, b, c}
  Link <- Triangle
  Message <- OneMessage
  MaxTtl = 2
  Timeout = 0
  TenMinutes = 0
  BuildTime = 1
  Clock <- OneHasTheTime
  MaxEvents = 1
  MaxFloods = 0
INVARIANTS HopsSpent NoTimeInvented
PROPERTIES ImplementsFlood TimeReachesAll StormEnds

