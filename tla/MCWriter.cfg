SPECIFICATION Spec
CONSTANTS
  NONE = NONE
  MALFORMED = MALFORMED
  Leaves <- MCLeaves
  Widths = {1, 2, 4}
  MaxLeaves = 2
  MaxClosed = 2
  States <- MCStates
  Junk <- MCJunk
INVARIANTS RoundTrip CompleteOrMalformed PageRoundTrip RequestRoundTrip
