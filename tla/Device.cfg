SPECIFICATION DeviceSpec
CONSTANTS
  a = a
  b = b
  NoHost = NoHost
  Hosts <- MCHosts
  ServerLists <- MCServerLists
  Transports = {"udp", "tcp"}
  RzIds = {1, 2, 3}
  FirstId = 1
  Taken <- MCTaken
  MaxTroubles = 2
  MaxNet = 2
  PrimaryScreens <- MCScreens
  NoScreen = NoScreen
  CounterMax = 2
  MaxScreenChanges = 1
  MaxCaptureErrors = 1
  MaxProcs = 2
INVARIANT
  RzTypeOK
PROPERTIES
  MCServersFollowed
  MCOneExitsAllExit
  MCRegistered
  MCFramesFlow
  MCServiceFollows
CHECK_DEADLOCK FALSE
