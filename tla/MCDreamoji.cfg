SPECIFICATION Spec
CONSTANTS
  self = self
  alice = alice
  emoji = emoji
  Self = self
  Others <- OneOther
  Kinds <- NftAndFt
  Prices <- OnePrice
  Spacings = {1, 2, 4, 8, 16, 32, 64}
  One = 16
  Mantissa = 256
  MaxCreated = 2
  MaxNft = 2
  MaxLicence = 1
  MaxIssued = 2
  MaxBatch = 2
  MaxChildren = 1
  MaxRows = 2
CHECK_DEADLOCK FALSE
INVARIANTS
  TypeOK
  Conservation
  
  FeesAddUp
PROPERTIES
  IdsNeverReused
  LockedStaysPut
