CONSTANTS
  d1 = d1
  d2 = d2
  a = a
  b = b
  port = port
  NoDoc = NoDoc
  Docs = {d1, d2}
  AddJobs = {d1, d2}
  Emf = {}
  Mapped = {}
  Clients = {a, b}
  Port = port
  Keep = FALSE
  Failures = {"AddJob", "CreateJobEntry"}
  MinIds = 4
  MaxIds = 4
  MaxCrashes = 0
SPECIFICATION Spec
SYMMETRY Symmetry
INVARIANTS
  SpoolFileIntact
  AddJobsRunDown
CHECK_DEADLOCK FALSE
