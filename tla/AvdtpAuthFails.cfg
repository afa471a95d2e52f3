SPECIFICATION Spec
CONSTANTS
  Seps = {1}
  SinkSeps = {}
  EndpointSeps = {}
  PeerInUse = {}
  Repeats = {}
  GetCap = "GET_CAPABILITIES"
  UsersRelease = TRUE
  AuthResults = {"busy", "failed"}
  MaxUsers = 1
  MaxQueue = 1
INVARIANT LocalRefOnly
