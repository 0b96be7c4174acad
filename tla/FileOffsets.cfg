SPECIFICATION FileSpec
CONSTANTS
  NFiles = 2
  Size <- MCSize
  Directions = {"upload", "download"}
  MaxVersion = 1
  MaxJobs = 3
  MaxQueue = 2
  IoErrors = FALSE
PROPERTY OffsetsReachWriter
CHECK_DEADLOCK FALSE
