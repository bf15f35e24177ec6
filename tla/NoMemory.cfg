CONSTANTS
  d1 = d1
  d2 = d2
  a = a
  b = b
  port = port
  NoDoc = NoDoc
  Docs = {d1, d2}
  AddJobs = {}
  Emf = {}
  Mapped = {}
  Clients = {a, b}
  Port = port
  Keep = FALSE
  Failures = {"ReallocJobIdMap"}
  MinIds = 2
  MaxIds = 2
  MaxCrashes = 0
SPECIFICATION Spec
INVARIANTS
  SpoolFileIntact
CHECK_DEADLOCK FALSE
