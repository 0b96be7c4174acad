SPECIFICATION PfSpec
CONSTANTS
  MaxLogins = 2
  MaxData = 2
  MaxPfQueue = 2
INVARIANT
  RepliesStayFramed
CHECK_DEADLOCK FALSE
