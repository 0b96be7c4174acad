SPECIFICATION SessionsSpec
CONSTANTS
  c1 = c1
  c2 = c2
  d1 = d1
  r1 = r1
  r2 = r2
  v1 = v1
  AuthConns <- MCAuthConns
  RemoteConns <- MCRemoteConns
  CameraConns <- MCCameraConns
  Resolutions = {"native", "small"}
  Native = "native"
  NoRecord = "none"
  Conns = {c1, c2}
  Displays = {d1}
  AvgDelays = {40, 120, 400, 500}
  FpsOptions = {20, 200}
  Qualities = {0}
  Bitrates = {50, 4000}
  EnableAbr = TRUE
SYMMETRY Symmetry
VIEW PartView
INVARIANTS
  TypeOK
  AuthedTypeOK
  QosUsersAuthed
  CleanedUp
  LoneStepSetsWakeLock
  DelayedThrottles
  RatioInRange
PROPERTY
  RaisedOnlyWhenAllGood
CHECK_DEADLOCK FALSE
