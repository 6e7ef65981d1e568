SPECIFICATION Spec
CONSTANTS
  MaxSessions = 3
  Ports <- TwoPorts
  Caches = {c1}
  Readers = {r1}
  InitFwd <- Prepared
  MaxEdits = 0
  Hazards = {"docker"}
INVARIANT RecreationsAlone
