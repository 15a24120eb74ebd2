SPECIFICATION ServerSpec
CONSTANTS
  pbap = pbap
  browse = browse
  torn = torn
  Services <- MCServices
  Channels <- MCChannels
  NONE = NONE
  MALFORMED = MALFORMED
  Replies = {}
  DecodeChannels <- MCDecode
  TidModulus = 3
  MaxPages = 0
  AttributeBytes <- MCAttributeBytes
  Cont <- MCCont
  Offset <- MCOffset
  PageLengths = {5, 8}
INVARIANTS ChannelOfFirstRecord
