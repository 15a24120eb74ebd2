SPECIFICATION Spec
CONSTANTS
  NONE = NONE
  MALFORMED = MALFORMED
  Leaves <- MCRecordLeaves
  Widths = {1}
  MaxLeaves = 5
  MaxClosed = 3
  States <- MCStates
  Junk <- MCJunk
INVARIANTS NothingTruncated ChannelIsAdvertised
