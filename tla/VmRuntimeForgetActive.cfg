SPECIFICATION Spec
CONSTANTS
  MaxSessions = 2
  Ports <- OnePort
  Caches = {c1}
  Readers = {r1, r2}
  InitFwd <- UserOnFirst
  MaxEdits = 0
  Hazards = {"docker", "forget"}
PROPERTY ForgetSparesActive
