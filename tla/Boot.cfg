SPECIFICATION BootSpec
CONSTANTS
  Word = 16
  Para = 4
  Sec = 8
  Limit = 55
  SPT = 2
  Heads = 2
  Tracks = 2
  Retries = 3
  Stack = {24, 25, 26, 27}
  Space = 7
  NInfo = 12
  Lengths = {0, 5, 8, 20}
  Places <- MCPlaces
  MaxProgs = 3
INVARIANT LoadsAll
INVARIANT StaysBelowLimit
PROPERTY LoaderEnds
CHECK_DEADLOCK FALSE
