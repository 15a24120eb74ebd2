SPECIFICATION Spec
CONSTANTS
  MAX_CONNECT_ATTEMPTS = 5
  RETRY_DELAY = 200
  MaxConnectTime = 2
INVARIANTS TypeOK AttemptsSpaced GivesUpLate ReturnsInTime
PROPERTIES ConnectEnds
