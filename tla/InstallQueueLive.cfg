SPECIFICATION FairSpec
CONSTANTS
  c1 = c1
  c2 = c2
  w1 = w1
  w2 = w2
  Clients <- MCOneClient
  Workers <- MCWorkers
  Versions = {"a", "b"}
  MaxItems = 2
  Limit = 2
  MaxRetries = 1
  Watched = TRUE
  Hazards = {"history"}
INVARIANT NothingGetsLost
PROPERTIES QueueMovesOn
CHECK_DEADLOCK FALSE
