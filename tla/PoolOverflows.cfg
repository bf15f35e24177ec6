CONSTANTS
  d1 = d1
  d2 = d2
  NoDoc = NoDoc
  Docs = {d1, d2}
  Pages = 1
  Rendered = {}
  Rapid = {}
  Large = {}
  Mapped = {}
  PrinterBad = FALSE
  Ports = 1
  MaxFiles = 1
  Items <- Numbers
  Failures = {}
  MaxCrashes = 0
SPECIFICATION Spec
INVARIANTS
  FreeWithinMaxFiles
CHECK_DEADLOCK FALSE
