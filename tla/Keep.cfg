CONSTANTS
  Jobs = {j1}
  Ports = {p1}
  Clients = {c1, c2}
  Scheduler = s
  NoJob = NoJob
  NoPort = NoPort
  NoThread = NoThread
  Attributes = {"KEEPPRINTEDJOBS", "ENABLE_DEVQ"}
  SpoolerSettings = {}
  Commands = {"UNBLOCK", "RESTART", "PAUSE", "RESUME"}
  Lengths = {2, 3}
  MaxCommands = 2
  Failures = {"OpenPrintProcessor", "StartDocPort"}
  Priority <- SamePriority
  Required <- NoEMF
  TotalMemoryForRendering = 2
  DwordModulus = 4
SPECIFICATION Spec
CHECK_DEADLOCK FALSE
SYMMETRY Symmetry
INVARIANTS
  PrintedImpliesRead
  RefCountExact
