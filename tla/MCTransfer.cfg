SPECIFICATION TransferSpec
CONSTANTS
  a = a
  b = b
  c1 = c1
  c2 = c2
  c3 = c3
  report = report
  odd = odd
  Session = {a, b}
  Chunk = {c1, c2, c3}
  File <- TwoFiles
  Name <- TwoNames
  Copy = {1}
  MaxQueueLength = 2
  AcceptedName = {report}
  Timeout = 0
  MaxTime = 1
  DiskMayFail = TRUE
  SendMayFail = TRUE
  NetMayLose = TRUE
  MaxDuplicates = 0
  MaxRestarts = 1
  NoStream = NoStream
  NoFile = NoFile
  Torn = Torn
INVARIANTS
  TransferTypeOK
  NothingLostMeansDelivered
PROPERTIES
  EventuallyDecided
