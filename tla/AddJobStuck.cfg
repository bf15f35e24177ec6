CONSTANTS
  d1 = d1
  d2 = d2
  a = a
  port = port
  NoDoc = NoDoc
  Docs = {d1, d2}
  AddJobs = {d1}
  Emf = {}
  Mapped = {}
  Clients = {a}
  Port = port
  Keep = FALSE
  Failures = {}
  MinIds = 3
  MaxIds = 3
  MaxCrashes = 0
SPECIFICATION Spec
INVARIANTS
  AddJobsRunDown
CHECK_DEADLOCK FALSE
