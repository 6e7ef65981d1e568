SPECIFICATION Spec
CONSTANTS
  c1 = c1
  c2 = c2
  w1 = w1
  w2 = w2
  Clients <- MCClients
  Workers <- MCWorkers
  Versions = {"a", "b"}
  MaxItems = 2
  Limit = 2
  MaxRetries = 1
  Watched = FALSE
  Hazards = {"crash", "disk"}
SYMMETRY MCSymmetry
INVARIANTS TypeOK OneInstall CurrentIsInstalling
PROPERTIES OutcomeIsFinal
