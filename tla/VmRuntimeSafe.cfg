SPECIFICATION Spec
CONSTANTS
  MaxSessions = 2
  Ports <- TwoPorts
  Caches = {c1, c2}
  Readers = {r1}
  InitFwd <- Prepared
  MaxEdits = 1
  Hazards = {"edit", "docker", "rollback", "io", "crash", "forget", "retry"}
INVARIANT TypeOK
INVARIANT PortsOwned
INVARIANT ConflictsAreFailed
PROPERTY StoppedIsFinal
SYMMETRY MCSymmetry
