SPECIFICATION Spec
CONSTANTS
  MaxSessions = 2
  Ports <- OnePort
  Caches = {c1}
  Readers = {r1}
  InitFwd <- OnlyPrepared
  MaxEdits = 0
  Hazards = {}
INVARIANT AdoptedForwardingRestored
