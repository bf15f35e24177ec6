CONSTANTS
  d1 = d1
  d2 = d2
  NoDoc = NoDoc
  Docs = {d1, d2}
  Pages = 1
  Rendered = {d1}
  Rapid = {d1}
  Large = {d1}
  Mapped = {}
  PrinterBad = FALSE
  Ports = 1
  MaxFiles = 1
  Items <- Numbers
  Failures = {"CreateJobEntry"}
  MaxCrashes = 1
SPECIFICATION Spec
INVARIANTS
  TypeOK
  ItemsOwned
  FreeFilesReady
  JobsKeepTheirData
  ReadsInOrder
  WritesInOrder
CHECK_DEADLOCK FALSE
