CONSTANTS
  d1 = d1
  a = a
  port = port
  NoDoc = NoDoc
  Docs = {d1}
  AddJobs = {}
  Emf = {d1}
  Mapped = {}
  Clients = {a}
  Port = port
  Keep = FALSE
  Failures = {"DevQueryPrint"}
  MinIds = 3
  MaxIds = 3
  MaxCrashes = 1
SPECIFICATION Spec
PROPERTIES
  BlockedSurvives
CHECK_DEADLOCK FALSE
