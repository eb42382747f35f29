SPECIFICATION FairSpec
CONSTANTS
  Peer = {1, 2}
  Repeaters = {1}
  Random = {2}
  Self = 9
  Handle = {1, 2}
  Faults = TRUE
INVARIANTS StackAgrees
PROPERTIES FoundInTheEnd
