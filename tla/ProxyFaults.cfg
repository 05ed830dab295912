CONSTANTS
  a = a
  b = b
  big = big
  Objects = {a, b}
  NoObject = none
  Size <- Sizes
  Failing = {a}
  Malformed = {b}
  Leaving = {1}
  StaleStack = TRUE
  MAXLINE = 2
  MAX_OBJECT_SIZE = 6
  CACHE_LINE_NUM = 1
  MaxConns = 3
  MaxLive = 2
  Loads <- Pairs
SPECIFICATION Spec
PROPERTIES Completes
CHECK_DEADLOCK FALSE
