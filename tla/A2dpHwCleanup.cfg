SPECIFICATION HwSpec
CONSTANTS
  BufSize = 3
  MaxWrite = 2
  MaxRetries = 1
  Scenarios = {{"standby", "disable"}}
INVARIANT LibValid
CHECK_DEADLOCK FALSE
