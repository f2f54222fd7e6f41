\* Buffers of two cells are filled, emptied, overfilled and overrun.
CONSTANTS
  BUF_SIZE = 2
  Chars = {"a", "cr", "lf"}
  Readers = {p1, p2}
  RxDepth = 1
  MaxIn = 3
  MaxOut = 2
SPECIFICATION FairSpec
CHECK_DEADLOCK FALSE
INVARIANTS
  EventToCome
PROPERTIES
  ImplementsSerial
  OutputSent
  FirstReaderServed
