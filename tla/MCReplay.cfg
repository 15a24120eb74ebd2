SPECIFICATION ReplaySpec
CONSTANTS
  NONE = NONE
  MALFORMED = MALFORMED
  Services <- TestedServices
  RESPONSE_TIMEOUT = 1
  Pieces = {5, 100}
INVARIANTS RequestsAsCaptured
PROPERTIES EndsAsTested
