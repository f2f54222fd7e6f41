\* A sleeper is killed before its time comes.
CONSTANTS
  MAX_PROCS = 3
  MAX_SHMS = 1
  FUDGE_FACTOR = 0
  BUF_SIZE = 1
  QUANTUM_DEFAULT = 1
  TICKS_PER_SECOND = 1
  PidMod = 4
  TimeMod = 100
  TimeBound = 3
  LentBound = 1
  SleepArgs = {1}
  LevelArgs = {1}
SPECIFICATION Spec
PROPERTIES
  KilledStaysDead
