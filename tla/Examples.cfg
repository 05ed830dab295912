SPECIFICATION Spec
CONSTANTS
  MaxTasks = 4
  MaxKeys = 2
  Programs <- AllPrograms
INVARIANTS AsPromised LastWord
PROPERTY Ends
CHECK_DEADLOCK FALSE
