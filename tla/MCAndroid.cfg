SPECIFICATION MCSpec
CONSTANTS
  Controls = {"STOP", "INIT", "QUIT"}
  BufSize = 3
  MaxWrite = 2
  MaxRetries = 1
  Scenarios = {{"standby", "suspend", "disable", "enable", "stall", "hang", "close"}}
INVARIANTS Consistent HwSafe
PROPERTIES CallsEnd HwWaitsEnd
