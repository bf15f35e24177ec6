CONSTANTS
  d1 = d1
  d2 = d2
  s1 = s1
  s2 = s2
  c1 = c1
  Devices = {d1, d2}
  Servers = {s1}
  Clients = {c1}
  Manager = m
  Timer = w
  NoDevice = NoDevice
  NoThread = NoThread
  Uses <- TwoDevices
  HoldingTimes <- HeldAWhile
  Failures = {"LockDevice"}
  TimerBeatsCaller = FALSE
  MaxNest = 1
  MaxItems = 2
  MaxUnloads = 1
SPECIFICATION FairSpec
INVARIANTS
  TypeOK
  OwnerExact
  HolderHasPort
PROPERTIES
  OneHolder
  UnloadsAlone
  IdlePortsClose
CHECK_DEADLOCK FALSE
