SPECIFICATION QueryFairSpec
CONSTANTS
  pbap = pbap
  browse = browse
  torn = torn
  Services <- MCServices
  Channels <- MCChannels
  NONE = NONE
  MALFORMED = MALFORMED
  Replies = {}
  DecodeChannels <- MCDecode
  TidModulus = 3
  MaxPages = 0
  AttributeBytes <- MCAttributeBytes
  Cont <- MCCont
  Offset <- MCOffset
  PageLengths = {1, 2}
  Addresses = {paired, garbage}
  ValidAddresses = {paired}
  MAX_CONNECT_ATTEMPTS = 5
  RETRY_DELAY = 2
  MaxConnectTime = 1
  RESPONSE_TIMEOUT = 1
INVARIANTS ErrorTellsStage QueryBounded
PROPERTIES QueryPromiseKept EndsUnlessConnectHangs
