CONSTANTS
  d1 = d1
  a = a
  port = port
  NoDoc = NoDoc
  Docs = {d1}
  AddJobs = {}
  Emf = {d1}
  Mapped = {}
  Clients = {a}
  Port = port
  Keep = FALSE
  Failures = {}
  MinIds = 3
  MaxIds = 3
  MaxCrashes = 3
SPECIFICATION Spec
INVARIANTS
  PoisonDiscardedAtOnce
CHECK_DEADLOCK FALSE
