SPECIFICATION FairSpec
CONSTANTS
  c1 = c1
  c2 = c2
  w1 = w1
  w2 = w2
  Clients <- MCOneClient
  Workers <- MCWorkers
  Versions = {"a", "b"}
  MaxItems = 2
  Limit = 2
  MaxRetries = 0
  Watched = TRUE
  Hazards = {}
PROPERTIES WaitEnds
CHECK_DEADLOCK FALSE
