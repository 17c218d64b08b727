CONSTANTS
  RING = 2
  MaxOpens = 2
  MaxRequests = 3
  None = None
SPECIFICATION LinkSpec
INVARIANTS LinkTypeOK AnswersItsRequest
PROPERTIES OrderedChannel FreshHandshakeWorks DeviceComesBack
CHECK_DEADLOCK FALSE
