SPECIFICATION FairSpec
CONSTANTS
  MaxMinute = 1
  MaxEdges = 3
INVARIANTS SmokeNotLost BootFirst
PROPERTIES SmokeReported
