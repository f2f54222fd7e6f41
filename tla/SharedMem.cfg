SPECIFICATION Spec
CONSTANTS
  Pids = {p1, p2}
  MAX_SHMS = 2
  MAX_MEM = 5
  Sizes = {2}
  Lens = {2}
  IdMod = 2
  QNodes = 2
SYMMETRY Symmetry
INVARIANT SegmentsDisjoint
INVARIANT MembersCounted
INVARIANT WriteStaysInSegment
PROPERTY SegmentsKept
CHECK_DEADLOCK FALSE
