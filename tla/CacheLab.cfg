SPECIFICATION LabSpec
CONSTANTS
  s = 1
  E = 2
  b = 1
  Addresses = {0, 1, 2, 5, 7, 8, 10}
  NoLine = NoLine
  TagMod = 8
  MaxTime = 5
  Jobs <- AllJobs
INVARIANT Evaluated
PROPERTIES ImplementsLru
CHECK_DEADLOCK FALSE
