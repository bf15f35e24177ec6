CONSTANTS
  Jobs = {j1}
  Ports = {p1}
  Clients = {c1}
  Scheduler = s
  NoJob = NoJob
  NoPort = NoPort
  NoThread = NoThread
  Attributes = {"QUEUED", "KEEPPRINTEDJOBS"}
  SpoolerSettings = {}
  Commands = {"DELETE"}
  Lengths = {1}
  MaxCommands = 1
  Failures = {}
  Priority <- SamePriority
  Required <- NoEMF
  TotalMemoryForRendering = 2
  DwordModulus = 4
SPECIFICATION Spec
CHECK_DEADLOCK FALSE
PROPERTIES
  DeletionIsFinal
