CONSTANTS
  Jobs = {j1, j2}
  Ports = {p1}
  Clients = {c1, c2}
  Scheduler = s
  NoJob = NoJob
  NoPort = NoPort
  NoThread = NoThread
  Attributes = {"QUEUED"}
  SpoolerSettings = {}
  Commands = {"CHAIN", "DELETE"}
  Lengths = {}
  MaxCommands = 2
  Failures = {}
  Priority <- SamePriority
  Required <- NoEMF
  TotalMemoryForRendering = 2
  DwordModulus = 4
SPECIFICATION Spec
CHECK_DEADLOCK FALSE
INVARIANTS
  RefCountExact
