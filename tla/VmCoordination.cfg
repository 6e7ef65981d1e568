SPECIFICATION FairSpec
CONSTANTS
  p1 = p1
  p2 = p2
  old = old
  Procs <- MCProcs
  OldProcs <- MCOldProcs
  VMs <- MCVMs
INVARIANTS
  LocksMatch
  WorksAlone
  WaitsAreBounded
PROPERTIES
  EveryJobEnds
