SPECIFICATION ThreadSpec
CONSTANTS
  c1 = c1
  c2 = c2
  Conns <- MCConns
  AckConns = {}
  Settings = {}
  WaitSlices = 1
  MaxQueue = 1
  MaxUnacked = 1
PROPERTIES
  WaitEnds
  EventuallyDecodes
  RefreshServed
CHECK_DEADLOCK FALSE
