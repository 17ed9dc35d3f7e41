SPECIFICATION Spec
CONSTANTS
  RecvBufLen = 6
  MaxStream = 8
INVARIANTS TypeOK MessagesArriveWhole DisconnectionIsReal
