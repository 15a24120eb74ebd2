SPECIFICATION Spec
CONSTANTS
  RESPONSE_TIMEOUT = 2
  RequestLengths = {0, 2}
  Pdus <- MCPdus
  MaxPdus = 2
  MaxCalls = 2
INVARIANTS BoundedByResponseTimeout
