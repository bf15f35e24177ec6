CONSTANTS
  Jobs = {j1, j2}
  Ports = {p1, p2}
  Clients = {c1}
  Scheduler = s
  NoJob = NoJob
  NoPort = NoPort
  NoThread = NoThread
  Attributes = {"QUEUED"}
  SpoolerSettings = {}
  Commands = {"RESTART", "DELETE", "CANCEL"}
  Lengths = {}
  MaxCommands = 1
  Failures = {}
  Priority <- SamePriority
  Required <- OneTooLarge
  TotalMemoryForRendering = 3
  DwordModulus = 4
SPECIFICATION SpooledSpec
CHECK_DEADLOCK FALSE
SYMMETRY JobsDiffer
INVARIANTS
  OnePortPerJob
  PortCounts
  NoDangling
  ClaimedJobsDespool
  PortHandshake
  TypeOK
PROPERTIES
  MemoryAccounted
