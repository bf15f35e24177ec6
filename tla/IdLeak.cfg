CONSTANTS
  d1 = d1
  a = a
  port = port
  NoDoc = NoDoc
  Docs = {d1}
  AddJobs = {}
  Emf = {}
  Mapped = {}
  Clients = {a}
  Port = port
  Keep = FALSE
  Failures = {"SpoolThisJob"}
  MinIds = 3
  MaxIds = 3
  MaxCrashes = 0
SPECIFICATION Spec
INVARIANTS
  NoIdLeak
CHECK_DEADLOCK FALSE
