CONSTANTS
  a = a
  b = b
  big = big
  Objects = {a, b}
  NoObject = none
  Size <- Sizes
  Failing = {}
  Malformed = {}
  Leaving = {}
  StaleStack = FALSE
  MAXLINE = 2
  MAX_OBJECT_SIZE = 6
  CACHE_LINE_NUM = 1
  MaxConns = 3
  MaxLive = 3
  Loads <- Race
SPECIFICATION Spec
INVARIANTS HitIsOfRequest
CHECK_DEADLOCK FALSE
