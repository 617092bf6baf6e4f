SPECIFICATION FairSpec
CONSTANTS
  Accounts <- MCAccounts
  Names <- MCNames
  Trxs <- MCTrxs
  Genesis <- MCGenesis
  Activatable = {"replace_deferred", "no_duplicate"}
  Privileged = {}
  NoSender = "none"
  AccountBytes = 1
  PermissionBytes = 1
  LinkBytes = 1
  GtoBytes = 1
  Window = 1
  MaxGto = 2
  MaxTime = 5
INVARIANTS RamIsAccounted AuthorizationIntact RetiredOnce
PROPERTIES GrowthWithinLimit EveryGeneratedEnds
CHECK_DEADLOCK TRUE
