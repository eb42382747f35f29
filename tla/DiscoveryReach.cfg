SPECIFICATION RadioFairSpec
CONSTANTS
  Peer = {1, 2}
  Repeaters = {1, 2}
  Random = {}
  Self = 9
  Handle = {1, 2}
  Faults = FALSE
PROPERTIES NeighbourReached
