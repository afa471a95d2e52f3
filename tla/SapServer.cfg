SPECIFICATION FairSpec
CONSTANTS
  SAP_BUF_SIZE = 2
  MsgSizes = {1, 2, 3}
  AddrReadsConnected = FALSE
INVARIANTS GuardTimerRuns SimHeldIffSession NoStuckRequest
PROPERTIES AnsweredOnce GracefulEnds
CHECK_DEADLOCK FALSE
