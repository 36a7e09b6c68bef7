SPECIFICATION Spec
CONSTANTS
  Half = 8
  Deadlines = {14, 25}
  IpiWords = {1, 2}
  MaxTime = 42
INVARIANTS TimeReadIsCurrent NoEarlyTimer TimerKeepsDeadline
CHECK_DEADLOCK FALSE
