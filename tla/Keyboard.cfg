\* A buffer of three cells, which holds two characters, and a screen of one
\* line; one process reads lines.
SPECIFICATION FairSpec
CONSTANTS
  Readers = {p1}
  Keys = {"d", "enter", "f1"}
  Sizes = {1, 2, 3}
  C_BUFSIZE = 3
  MaxScans = 6
  Width = 2
  Height = 1
  Top = 0
  Feeds = 6
PROPERTIES
  ImplementsQueue
  LineEnds
CHECK_DEADLOCK FALSE
