SPECIFICATION Spec
CONSTANTS
  MaxSessions = 2
  Ports <- TwoPorts
  Caches = {c1}
  Readers = {r1}
  InitFwd <- UserOnFirst
  MaxEdits = 0
  Hazards = {"retry"}
INVARIANT SecondStopQuiet
