SPECIFICATION Spec
CONSTANTS
  RecvBufLen = 5
  MaxStream = 7
INVARIANT ReceivedMeansSubmitted
