SPECIFICATION HostSpec
CONSTANTS
  Procs = {p1}
  Tasks = {t1, t2, t3}
  MaxRecords = 2
  Concurrent = FALSE
  Savers = {v1, v2}
  Prefs = {l1}
  MaxUserEdits = 1
  Total = 3
  MaxReplacements = 2
  Calls = {c1, c2}
  Retained = {c1}
  Ports = {q1, q2}
  Certificates = {z1, z2}
  MaxReports = 2
  Short = {c2}
  Stops = {s1, s2}
  Reconnects = {k1, k2}
  MaxMonitors = 3
  Relays = {h1, h2}
  Askers = {a1}
  RelayStops = {d1}
  TestCommands = {m1, m2}
  Suites <- MCSuites
  Scopes = {g1}
  Lanes = 2
  Earlier = {y1}
  Retention = 1
  Kin = {j1}
  CaptureLimit = 1
  PipeSize = 1
  MaxWrites = 2
  Budget = 10
  Directories <- MCDirectories
  Projects <- MCProjects
  MaxScans = 2
  MaxFileChanges = 2
  MaxMoves = 1
  Nowhere = no
INVARIANTS
  HostTypeOK HistoryIsTrue BothOrNeither OneReleaseOnDisk AnswersAreTrusted
  SessionIsKept OneRelayToTheEnd EvidenceIsSound CommandsEndCleanly ListIsCurrent
VIEW MCView
CHECK_DEADLOCK FALSE
