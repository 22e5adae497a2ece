SPECIFICATION Spec
CONSTANTS
  a = a
  b = b
  c1 = c1
  c2 = c2
  c3 = c3
  report = report
  Session = {a, b}
  Chunk = {c1, c2, c3}
  File <- TwoFiles
  Name <- OneName
  Copy = {1, 2}
  MaxQueueLength = 3
  AcceptedName = {report}
  Timeout = 1
  MaxTime = 2
  DiskMayFail = TRUE
  NoStream = NoStream
  NoFile = NoFile
  Torn = Torn
INVARIANTS
  TypeOK
  WrittenIsPrefix
  FileIntact
  WaitsOnlyForMissing
PROPERTIES
  WedgedNeverDelivers
  NothingSavedAfterTimeout
