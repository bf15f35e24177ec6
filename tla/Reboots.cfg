CONSTANTS
  d1 = d1
  a = a
  port = port
  NoDoc = NoDoc
  Docs = {d1}
  AddJobs = {}
  Emf = {d1}
  Mapped = {d1}
  Clients = {a}
  Port = port
  Keep = TRUE
  Failures = {"SpoolThisJob", "CreateJobEntry", "ReallocJobIdMap", "DevQueryPrint"}
  MinIds = 2
  MaxIds = 2
  MaxCrashes = 4
SPECIFICATION Spec
INVARIANTS
  PoisonDiscarded
PROPERTIES
  AcknowledgedSurvives
CHECK_DEADLOCK FALSE
