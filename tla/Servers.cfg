CONSTANTS
  Clients = {a, b}
  Threads = {t1, t2}
  Main = Main
  None = None
  Kinds = {"iterative", "process", "thread", "prethreaded", "select", "tiny"}
  Pieces = 4
  SBUFSIZE = 1
  FD_SETSIZE = 2
  Rude = {{}, {b}}
SPECIFICATION Spec
CHECK_DEADLOCK FALSE
INVARIANTS Echoes Counted Owned
PROPERTIES Served Reaped
