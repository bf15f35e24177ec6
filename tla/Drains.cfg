CONSTANTS
  d1 = d1
  d2 = d2
  NoDoc = NoDoc
  Docs = {d1, d2}
  Pages = 1
  Rendered = {}
  Rapid = {}
  Large = {}
  Mapped = {d2}
  PrinterBad = FALSE
  Ports = 1
  MaxFiles = 2
  Items <- Numbers
  Failures = {"CreateSplWriter"}
  MaxCrashes = 0
SPECIFICATION FairSpec
PROPERTIES
  PoolDrains
CHECK_DEADLOCK FALSE
