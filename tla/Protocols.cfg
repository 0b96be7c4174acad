SPECIFICATION ProtocolsSpec
CONSTANTS
  t1 = t1
  t2 = t2
  NFiles = 2
  Size <- MCSize
  Directions = {"upload", "download"}
  MaxVersion = 1
  MaxJobs = 2
  MaxQueue = 2
  IoErrors = TRUE
  MaxRounds = 4
  TermConns <- MCTermConns
  Terminals = {1}
  MaxServices = 1
  MaxSessions = 1
  MaxExits = 1
  MaxActions = 2
  ChannelSize = 1
  KeyConns = {k1}
  RdevKeys = {r}
  ControlKeys = {s}
  CharKeys = {x}
  HotKeys = {w}
  FunctionKeys = {f}
  Modifiers = {r}
  NoKey = NoKey
  MaxInputs = 2
INVARIANTS
  StateOfNewestRound
PROPERTIES
  MCJobEnds
  MCSupersededEnd
  MCClosedEnd
  MCRegistryIsUnlocked
  MCShellsEnd
  MCKeysComeUp
CHECK_DEADLOCK FALSE
