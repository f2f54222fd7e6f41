\* Two columns and three rows; region of two rows at the start, others of all
\* sizes, a single cell included.
SPECIFICATION ConsoleSpec
CONSTANTS
  Width = 2
  Height = 3
  Top = 1
  Bits = 8
  Chars = {"a", "nl", "cr"}
  Args = {0, 1, 2}
  Fields <- MCFields
  FixedFields <- MCFixedFields
  MaxChars = 3
  MaxCalls = 2
  Feeds = 12
INVARIANTS
  ShowsText
  CursorRecovers
  PrintsArguments
PROPERTIES
  RegionKeptApart
CHECK_DEADLOCK FALSE
