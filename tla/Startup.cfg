SPECIFICATION Spec
CONSTANTS
  FuncBits = 1
  SlotBits = 2
  BusBits = 1
  Buses = 2
  Slots = 15
  Funcs = 7
  Words = {"ffff", "24db", "8086"}
  Stray = {6}
  MaxRaise = 5
  Spaces <- MCSpaces
  IdeId <- Wanted
INVARIANT NothingInService
INVARIANT ControllerFound
PROPERTY RequestsServed
CHECK_DEADLOCK FALSE
