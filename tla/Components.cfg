SPECIFICATION ComponentsSpec
CONSTANTS
  c1 = c1
  c2 = c2
  h1 = h1
  h2 = h2
  NoConn = NoConn
  NoCursor = NoCursor
  Conns <- MCConns
  Toggles <- Flags
  Cursors <- MCCursors
  MaxCursors = 1
  Screens = {1, 2}
  MaxAnswers = 2
  Tests = {t1, t2}
  NFiles = 2
  Size <- MCSize
  Directions = {"upload", "download"}
  MaxVersion = 2
  MaxJobs = 2
  MaxQueue = 2
  IoErrors = TRUE
  TermConns <- MCConns
  Terminals = {1}
  MaxServices = 2
  MaxSessions = 2
  MaxExits = 1
  MaxActions = 3
  ChannelSize = 1
  PrivacyConns <- MCConns
  NoOwner = NoOwner
  Amyuni = TRUE
  Chunks = 2
  MaxDownloads = 2
  MaxLogins = 2
  MaxData = 2
  MaxPfQueue = 2
INVARIANTS
  ComponentsTypeOK
  GrantedAreSubscribed
  NoneOutlivesItsPermission
  IdsAreKnown
  SubscribersUpToDate
  DisplaysKnown
  EffectsHaveOwner
  NoShellIsForgotten
  OnlineInStep
  ForwardsCleanly
PROPERTY
  Delivers
CHECK_DEADLOCK FALSE
