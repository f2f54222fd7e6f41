SPECIFICATION LiveSpec
CONSTANTS
  Procs = {p1, p2}
  Cmds = {"read", "write", "other"}
  Lbas = {0, 8, 64}
  MaxRequests = 3
  RD_MAX_LBA = 2
  DISK_BLOCK_SIZE = 4
  Base = 64
  Word = 256
  TICKS_PER_SECOND = 2
  QNodes = 4
INVARIANT QueuedRequestsWait
INVARIANT BlockedWaitForRead
PROPERTY WritesComplete
CHECK_DEADLOCK FALSE
