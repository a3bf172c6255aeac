CONSTANTS
  Streams = {p1, p2, p3}
  None = None
  STAT_COUNT = 2
  block_size = 2
  nr_sects = 19
  THRESHOLD_STEP = 2
  MAX_STEP = 3
  BLOCK_COUNT = 4
SYMMETRY MCSymmetry
SPECIFICATION Spec
INVARIANTS OneRecordPerStream ClaimsAreBacked WindowFollowsPattern WindowIsAhead
