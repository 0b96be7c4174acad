SPECIFICATION Spec
CONSTANTS
  c1 = c1
  c2 = c2
  Conns <- MCConns
  AckConns <- MCAckConns
  Settings = {}
  WaitSlices = 2
  MaxQueue = 2
  MaxUnacked = 1
PROPERTY BreakMeansReceived
CHECK_DEADLOCK FALSE
