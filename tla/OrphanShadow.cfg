CONSTANTS
  d1 = d1
  d2 = d2
  NoDoc = NoDoc
  Docs = {d1, d2}
  Pages = 1
  Rendered = {d1, d2}
  Rapid = {}
  Large = {}
  Mapped = {}
  PrinterBad = TRUE
  Ports = 1
  MaxFiles = 0
  Items <- Numbers
  Failures = {}
  MaxCrashes = 1
SPECIFICATION Spec
INVARIANTS
  SpoolingNotAccepted
CHECK_DEADLOCK FALSE
