SPECIFICATION GSpec
CONSTANTS
  red4 = red4
  red = red
  orange2 = orange2
  yellow3 = yellow3
  own = own
  blue2 = blue2
  cyan2 = cyan2
  hostOnly = hostOnly
  Words <- MCWords
  HostSeqs <- MCHostSeqs
  INVALID = INVALID
  NoSeq = NoSeq
  SEQ_UNLOCK_DEFAULT = red4
  SEQ_LOCK = red
  SEQ_PAIRING_TRIGGER = orange2
  SEQ_CHANGE_SEQ_TRIGGER = yellow3
  SEQ_CONFIRM = yellow3
  SEQ_REHEARSE_PROTECT = blue2
  SEQ_REHEARSE_RESET = cyan2
  GESTURE_REHEARSAL = TRUE
  RESET_REQUIRES_UNLOCK = FALSE
  RATE_LIMIT_THRESHOLD = 1
  FlashMayFail = FALSE
  MaxFailures = 3
INVARIANTS
  TypeOK
  PromptBacked
  PromptTapsAreFresh
  UnlockedOnlyAfterSequence
  LockoutMatchesCount
  FlashAgreesWithRam
PROPERTIES
  RampOnlyClearedByUnlock
CHECK_DEADLOCK FALSE
