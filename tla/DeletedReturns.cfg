CONSTANTS
  d1 = d1
  a = a
  b = b
  port = port
  NoDoc = NoDoc
  Docs = {d1}
  AddJobs = {}
  Emf = {d1}
  Mapped = {}
  Clients = {a, b}
  Port = port
  Keep = FALSE
  Failures = {}
  MinIds = 3
  MaxIds = 3
  MaxCrashes = 1
SPECIFICATION Spec
PROPERTIES
  DeletedStaysDeleted
CHECK_DEADLOCK FALSE
