CONSTANTS
  Addrs = {1, 2, 3, 4, 5, 6, 7}
  NULL = 0
  Free = Free
  NoQueue = NoQueue
  s1 = s1
  s2 = s2
  Strings = {s1, s2}
  Commands <- Session
  BIG_QUEUE = 1
  Levels = {4}
  MaxSize = 3
  MaxLines = 4
  MaxSources = 2
  MaxTimeouts = 1
SPECIFICATION QtestSpec
CHECK_DEADLOCK FALSE
INVARIANTS ErrorsCounted Accounted Restored
PROPERTIES ImplementsDeque
