SPECIFICATION RioSpec
CONSTANTS
  Total = 6
  Newlines = {2, 3}
  RIO_BUFSIZE = 2
  Room = 3
  MaxLens = {2, 3, 5}
  MaxIntr = 2
INVARIANT Conserved
PROPERTIES WholeLines Delivers
CHECK_DEADLOCK FALSE
