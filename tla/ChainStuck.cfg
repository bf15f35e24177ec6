CONSTANTS
  Jobs = {j1, j2, j3}
  Ports = {p1, p2}
  Clients = {c1}
  Scheduler = s
  NoJob = NoJob
  NoPort = NoPort
  NoThread = NoThread
  Attributes = {"QUEUED"}
  SpoolerSettings = {}
  Commands = {"CHAIN"}
  Lengths = {}
  MaxCommands = 1
  Failures = {}
  Priority <- SamePriority
  Required <- AllEMF
  TotalMemoryForRendering = 2
  DwordModulus = 4
SPECIFICATION Spec
CHECK_DEADLOCK FALSE
INVARIANTS
  PortJobHasThread
SYMMETRY Symmetry
