CONSTANTS
  d1 = d1
  a = a
  b = b
  port = port
  NoDoc = NoDoc
  Docs = {d1}
  AddJobs = {d1}
  Emf = {}
  Mapped = {}
  Clients = {a, b}
  Port = port
  Keep = FALSE
  Failures = {}
  MinIds = 3
  MaxIds = 3
  MaxCrashes = 0
SPECIFICATION Spec
INVARIANTS
  NoIdLeak
CHECK_DEADLOCK FALSE
