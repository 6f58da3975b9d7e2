CONSTANTS
  MaxOverrides = 2
  Sessions = {s1}
  Setups <- MCSetups
  MaxKeywords = 2
  MaxFaults = 1
  None = None
SPECIFICATION Spec
INVARIANTS TypeOK StatusIsTrue StopIsHeeded ToldIsRecorded
PROPERTY QueuedIsResolved
CHECK_DEADLOCK FALSE
