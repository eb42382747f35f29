SPECIFICATION FairSpec
CONSTANTS
  Handle = {1, 2}
  MaxRaw = 2
INVARIANTS TypeOK NewestAsked FreshHasData
PROPERTIES QuietsDown
