CONSTANTS
  d1 = d1
  a = a
  port = port
  NoDoc = NoDoc
  Docs = {d1}
  AddJobs = {}
  Emf = {}
  Mapped = {}
  Clients = {a}
  Port = port
  Keep = FALSE
  Failures = {}
  MinIds = 3
  MaxIds = 3
  MaxCrashes = 0
SPECIFICATION Spec
INVARIANTS
  HandlesKeepJobs
CHECK_DEADLOCK FALSE
