CONSTANTS
  Jobs = {j1}
  Ports = {p1}
  Clients = {c1, c2}
  Scheduler = s
  NoJob = NoJob
  NoPort = NoPort
  NoThread = NoThread
  Attributes = {"QUEUED"}
  SpoolerSettings = {}
  Commands = {"PAUSE", "RESUME", "RESTART", "DELETE", "CANCEL", "ABORT"}
  Lengths = {1}
  MaxCommands = 2
  Failures = {}
  Priority <- SamePriority
  Required <- NoEMF
  TotalMemoryForRendering = 2
  DwordModulus = 4
SPECIFICATION FairSpec
CHECK_DEADLOCK FALSE
INVARIANTS
  RefCountExact
  DeletingNotRestarting
PROPERTIES
  DeletionIsFinal
  DeletionCompletes
