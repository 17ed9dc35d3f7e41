SPECIFICATION HandlersSpec
CONSTANTS
  Names <- MCNames
  Key <- MCKey
  Begins <- MCBegins
  NameLen <- MCNameLen
  NameMax = 5
  Home = "home"
  Msgs <- MCMsgs
  MsgBytes <- MCMsgBytes
  MaxBytes = 2
  Topics = {"short", "long"}
  LongTopics = {"long"}
  NSlots = 3
  None = None
  Channels <- MCChannels
  ServerLines <- MCServerLines
  UserLines <- MCUserLines
  MaxSent = 3
INVARIANT TabsEndInSlots
