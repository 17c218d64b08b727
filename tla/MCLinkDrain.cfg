CONSTANTS
  RING = 2
  MaxOpens = 1
  MaxRequests = 2
  None = None
SPECIFICATION LinkSpec
INVARIANT DrainIsSafe
CHECK_DEADLOCK FALSE
