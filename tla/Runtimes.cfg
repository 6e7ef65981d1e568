SPECIFICATION RuntimesSpec
CONSTANTS
  MaxSessions = 4
  Ports <- TwoPorts
  Caches = {c1}
  Readers = {r1}
  InitFwd <- Prepared
  MaxEdits = 1
  Hazards = {"edit"}
  Workers = {w1, w2}
  Finalizers = {f1, f2}
  Status = st
  Observers = {o1, o2}
  Stoppers = {x1, x2}
  Builders = {b1, b2}
  MaxChanges = 1
  MaxBuilds = 3
  MaxTries = 2
  MaxPlans = 3
  Refreshers = {r1, r2}
  Installers = {i1, i2}
  Seeders = {e1}
INVARIANTS
  RuntimesTypeOK VmIsSharedSafely FinalizedAlone StoppedOnce PortableIsKept
  LaunchAnswersForItsStudio NoStaleList RetiredIsKnown
PROPERTIES
  DeferredForwardingRemoved OwnershipKept ReopenedByItsFinalizer StoresAreKept
VIEW MCView
CHECK_DEADLOCK FALSE
