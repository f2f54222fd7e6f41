\* Idle and two processes; the tick counter wraps after 3 ticks.  The rest of
\* the system takes up to two nodes more than its share, and _cleanup may find
\* none; input is not buffered, so every read() blocks.
CONSTANTS
  MAX_PROCS = 3
  MAX_SHMS = 1
  FUDGE_FACTOR = 0
  BUF_SIZE = 0
  QUANTUM_DEFAULT = 1
  TICKS_PER_SECOND = 1
  PidMod = 4
  TimeMod = 3
  TimeBound = 3
  LentBound = 3
  SleepArgs = {1, 2}
  LevelArgs = {0}
SPECIFICATION FairSpec
PROPERTIES
  NoSleeperMissed
  HandlersReturn
  HighLevelRuns
  SleeperLeaves
  KilledReadyReaped
