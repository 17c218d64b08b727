SPECIFICATION CSpec
CONSTANTS
  MAX_KEY_SLOTS = 2
  CRL_MAX_REVOKED = 2
  MaxKeys = 2
  MaxSerials = 2
  MaxCrls = 1
  ExternalKeys = {100}
  MaxEvents = 6
  MaxFaults = 1
  None = None
  Empty = Empty
INVARIANTS
  CTypeOK
  IssuedIsOnRecord
  WipeTakesKeysFirst
  ChainGivesUpOnlyOnCycle
PROPERTIES
  KeysOnlyLostOnPurpose
  FlagsOnlyGrow
  RevocationsReachCrl
  CrlNumberKeepsUp
  BootCompletesCert
CHECK_DEADLOCK FALSE
