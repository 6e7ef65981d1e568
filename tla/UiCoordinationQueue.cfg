SPECIFICATION FairSpec
CONSTANTS
  Jobs = {"a1", "a2", "b1", "b2"}
  Sessions = {"kept", "owned"}
  SessionOf <- MCSessionOf
  ClassOf <- MCClassOf
  Owned = {"owned"}
  History = 2
CHECK_DEADLOCK FALSE
INVARIANTS TypeOK TurnAccounted LineIsKept
PROPERTIES EveryJobEnds
