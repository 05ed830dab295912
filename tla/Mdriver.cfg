CONSTANTS
  Ids = {1, 2, 3, 130}
  Sizes = {1, 5}
  MaxOps = 4
  NumTraces = 2
  Packages = {"next", "first", "best", "list", "any", "libc"}
  Endless = {"next", "best", "list"}
  AnyHeap = 8
  AnyOps = 3
  LibcOps = 2
  Methods = {"gettod", "itimer", "fcyc", "comp"}
  kbest = 2
  maxsamples = 4
  Epsilon = 2
  Runs = 2
  Word = 4
  Usec = 4
  Tick = 5
  Ticks = {0, 2}
  MAX_ETIME = 30
  Starts = {0, 3, 13}
  Durations = {1, 3, 6}
  MaxHeap = 20
  ExplicitHeap = 30
  ExplicitChunk = 12
  ListHeap = 36
  ListChunk = 30
  CHUNKSIZE = 8
  SizeMod = 64
SPECIFICATION Spec
CHECK_DEADLOCK FALSE
INVARIANTS HeapConsistent OverlapsOnlyAround Measured
PROPERTIES NoFalseAlarm Implements ImplementsBlocks
