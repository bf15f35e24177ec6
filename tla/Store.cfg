CONSTANTS
  d1 = d1
  d2 = d2
  a = a
  b = b
  port = port
  NoDoc = NoDoc
  Docs = {d1, d2}
  AddJobs = {}
  Emf = {}
  Mapped = {}
  Clients = {a, b}
  Port = port
  Keep = FALSE
  Failures = {}
  MinIds = 2
  MaxIds = 4
  MaxCrashes = 1
SPECIFICATION Spec
SYMMETRY Symmetry
INVARIANTS
  TypeOK
  JobIdsUnique
  NoIdLeak
  SpoolFileIntact
  NoFileLeak
PROPERTIES
  AcknowledgedSurvives
  DeletedStaysDeleted
CHECK_DEADLOCK FALSE
