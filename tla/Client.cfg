SPECIFICATION ClientFair
CONSTANTS
  Names <- MCNames
  Key <- MCKey
  Begins <- MCBegins
  NameLen <- MCNameLen
  NameMax = 50
  Home = "home"
  Msgs <- MCMsgs
  MsgBytes <- MCMsgBytes
  MaxBytes = 2
  Topics = {}
  LongTopics = {}
  NSlots = 2
  None = None
  Channels <- MCChannels
  ServerLines <- MCServerLinesBad
  UserLines <- MCUserLines
  MaxSent = 2
  MaxStream = 2
  MaxTyped = 2
INVARIANTS ServerLinesFlow UserLinesFlow
PROPERTIES ServerLinesAreHandled UserLinesAreHandled QuitEnds
