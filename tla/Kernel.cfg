\* Idle and two processes, whose PCBs are reused.  Both counters wrap around,
\* level 3 is out of range, and the rest of the system has a share of two
\* nodes, of which it holds one at first.
CONSTANTS
  MAX_PROCS = 3
  MAX_SHMS = 1
  FUDGE_FACTOR = 1
  BUF_SIZE = 1
  QUANTUM_DEFAULT = 1
  TICKS_PER_SECOND = 1
  PidMod = 4
  TimeMod = 2
  TimeBound = 2
  LentBound = 7
  SleepArgs = {1}
  LevelArgs = {0, 3}
SPECIFICATION Spec
INVARIANTS
  NoPanic
  OnePlace
  StatusFitsPlace
  NothingLost
  PrivateStacks
