SPECIFICATION MCSpec
CONSTANTS
  Seps = {1}
  SinkSeps = {1}
  EndpointSeps = {}
  PeerInUse = {1}
  Repeats = {}
  GetCap = "GET_ALL_CAPABILITIES"
  UsersRelease = TRUE
  AuthResults = {"ok", "busy"}
  MaxUsers = 2
  MaxQueue = 1
INVARIANTS SessionSafe AcceptorSafe
PROPERTIES AbortFirst StreamsEnd
