CONSTANTS
  d1 = d1
  d2 = d2
  s1 = s1
  s2 = s2
  c1 = c1
  Devices = {d1}
  Servers = {s1, s2}
  Clients = {}
  Manager = m
  Timer = w
  NoDevice = NoDevice
  NoThread = NoThread
  Uses <- OneServed
  HoldingTimes <- HeldBriefly
  Failures = {"UnlockDevice"}
  TimerBeatsCaller = FALSE
  MaxNest = 1
  MaxItems = 2
  MaxUnloads = 1
SPECIFICATION Spec
INVARIANT HolderHasPort
CHECK_DEADLOCK FALSE
