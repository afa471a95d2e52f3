SPECIFICATION AllSpec
CONSTANTS
  Has = {"headset", "sink", "control"}
  AutoConnect = TRUE
  Environment = {"link", "incoming", "nosession", "own"}
INVARIANTS DeviceSafe A2dpSafe
PROPERTIES ModeEnds Rediscovers Documented DeviceAnswered
