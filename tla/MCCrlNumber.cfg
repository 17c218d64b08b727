SPECIFICATION CSpec
CONSTANTS
  MAX_KEY_SLOTS = 1
  CRL_MAX_REVOKED = 2
  MaxKeys = 1
  MaxSerials = 1
  MaxCrls = 2
  ExternalKeys = {100}
  MaxEvents = 4
  MaxFaults = 0
  None = None
  Empty = Empty
INVARIANTS
  CrlNumberTellsApart
CHECK_DEADLOCK FALSE
