\* Two processes, calls for one or two blocks, one failed command.
SPECIFICATION LiveSpec
CONSTANTS
  Procs = {p1, p2}
  Lbas = {254, 255}
  Counts = {1}
  Blocks = {1, 2}
  MaxCalls = 3
  MaxRacing = 2
  MaxErrors = 1
  QNodes = 2
INVARIANTS
  CurrentRequestInDriver
  HandlerDoesNotSpin
PROPERTIES
  NullOnlyIfOvertaken
  ReturnsWhenServed
  Completes
CHECK_DEADLOCK FALSE
