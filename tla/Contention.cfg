CONSTANTS
  Jobs = {j1, j2}
  Ports = {p1}
  Clients = {c1}
  Scheduler = s
  NoJob = NoJob
  NoPort = NoPort
  NoThread = NoThread
  Attributes = {}
  SpoolerSettings = {}
  Commands = {}
  Lengths = {2}
  MaxCommands = 0
  Failures = {}
  Priority <- SamePriority
  Required <- NoEMF
  TotalMemoryForRendering = 2
  DwordModulus = 4
SPECIFICATION FairSpec
CHECK_DEADLOCK FALSE
PROPERTIES
  SpooledJobPrints
