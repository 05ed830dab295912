CONSTANTS
  MAXJOBS = 2
  Lines <- Typed
  Pids = {1, 2, 3}
  MaxTyped = 1
SPECIFICATION Spec
INVARIANTS OneForeground Tracked
PROPERTIES PromptReturns
CHECK_DEADLOCK FALSE
