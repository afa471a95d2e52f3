SPECIFICATION Spec
CONSTANTS
  SAP_BUF_SIZE = 2
  MsgSizes = {1, 2, 3}
  AddrReadsConnected = FALSE
INVARIANT GetPropertiesTellsConnected
CHECK_DEADLOCK FALSE
