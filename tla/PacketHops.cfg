SPECIFICATION Spec
CONSTANTS
  Bytes <- MCBytes
  MaxItems = 10
  Page = 256
  Sector = 4096
  PhonePackets <- MCPhonePackets
  OwnName = "node"
  OwnId = "id17"
  OwnChannel = "smoke"
  OwnContents = {"booted", "alive"}
  AppPackets <- MCAppPackets
  OwnTtl = 3
INVARIANTS TypeOK  OwnMessageIntact OwnReadable IdentitySurvives KeyEnforced
 
