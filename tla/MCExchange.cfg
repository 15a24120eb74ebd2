SPECIFICATION ServerSpec
CONSTANTS
  NONE = NONE
  MALFORMED = MALFORMED
  Services <- MCServices
  AttributeBytes <- MCAttributeBytes
  Cont <- MCCont
  Offset <- MCOffset
  PageLengths = {6, 9}
  RESPONSE_TIMEOUT = 1
  Pieces = {3}
INVARIANTS Lockstep OkIsAdvertised
PROPERTIES ImplementsServer DroppedAfterError
