SPECIFICATION Spec
CONSTANTS
  Services = {pbap, map}
  Channels <- MCChannels
  NONE = NONE
  MALFORMED = MALFORMED
  Replies <- MCReplies
  DecodeChannels <- MCDecode
  TidModulus = 3
  MaxPages = 4
INVARIANTS TypeOK RequestFollowsPages EncodeNeverFails OkMeansComplete
