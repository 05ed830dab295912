CONSTANTS
  a = a
  b = b
  big = big
  Objects = {a, b, big}
  NoObject = none
  Size <- Sizes
  Failing = {}
  Malformed = {}
  Leaving = {}
  StaleStack = FALSE
  MAXLINE = 3
  MAX_OBJECT_SIZE = 6
  CACHE_LINE_NUM = 2
  MaxConns = 5
  MaxLive = 3
  Loads <- Mixed
SPECIFICATION Spec
INVARIANTS ReadersWriters NoTornLine Undisturbed NoDuplicate
PROPERTIES EvictsLRU
CHECK_DEADLOCK FALSE
