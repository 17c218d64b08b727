SPECIFICATION PSpec
CONSTANTS
  Words = {red4, yellow3}
  HostSeqs = {red4}
  INVALID = INVALID
  NoSeq = NoSeq
  SEQ_UNLOCK_DEFAULT = red4
  SEQ_LOCK = yellow3
  SEQ_PAIRING_TRIGGER = red4
  SEQ_CHANGE_SEQ_TRIGGER = yellow3
  SEQ_CONFIRM = yellow3
  SEQ_REHEARSE_PROTECT = red4
  SEQ_REHEARSE_RESET = red4
  GESTURE_REHEARSAL = FALSE
  RESET_REQUIRES_UNLOCK = FALSE
  RATE_LIMIT_THRESHOLD = 0
  FlashMayFail = FALSE
  MaxFailures = 1
  BootVolumes = {"VALID", "MISMATCH"}
  BootRecovery = {FALSE}
INVARIANTS
  PTypeOK
  Rendezvous
CHECK_DEADLOCK FALSE
PROPERTIES
  ImplementsApproval
  CommandEnds
