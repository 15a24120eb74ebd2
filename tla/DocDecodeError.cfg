SPECIFICATION Spec
CONSTANTS
  NONE = NONE
  MALFORMED = MALFORMED
  Leaves <- MCLeaves
  Widths = {1, 2, 4}
  MaxLeaves = 1
  MaxClosed = 1
  States <- MCStates
  Junk <- MCJunk
INVARIANTS MalformedIsDecodeError
