SPECIFICATION FairSpec
CONSTANTS
  c1 = c1
  c2 = c2
  Conns = {c1, c2}
  Displays = {}
  AvgDelays = {40}
  FpsOptions = {}
  Qualities = {}
  Bitrates = {}
  EnableAbr = FALSE
PROPERTY Recovers
