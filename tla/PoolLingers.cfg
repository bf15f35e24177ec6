CONSTANTS
  d1 = d1
  NoDoc = NoDoc
  Docs = {d1}
  Pages = 1
  Rendered = {}
  Rapid = {}
  Large = {}
  Mapped = {}
  PrinterBad = FALSE
  Ports = 1
  MaxFiles = 1
  Items <- Numbers
  Failures = {"CreateJobEntry"}
  MaxCrashes = 0
SPECIFICATION FairSpec
PROPERTIES
  PoolDrains
CHECK_DEADLOCK FALSE
