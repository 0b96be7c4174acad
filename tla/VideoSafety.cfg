SPECIFICATION Spec
CONSTANTS
  c1 = c1
  c2 = c2
  Conns <- MCConns
  AckConns <- MCAckConns
  Settings = {"codec", "privacy", "display"}
  WaitSlices = 1
  MaxQueue = 1
  MaxUnacked = 1
INVARIANTS
  TypeOK
  OneMapEach
  AllOrNoneDecode
  EntryOnlyWhileWaiting
  ClosedNotSubscribed
CHECK_DEADLOCK FALSE
