SPECIFICATION TransferSpec
CONSTANTS
  a = a
  b = b
  c1 = c1
  c2 = c2
  c3 = c3
  report = report
  odd = odd
  Session = {a, b}
  Chunk = {c1, c2, c3}
  File <- TwoFiles
  Name <- TwoNames
  Copy = {1, 2}
  MaxQueueLength = 4
  AcceptedName = {report}
  Timeout = 0
  MaxTime = 0
  DiskMayFail = FALSE
  SendMayFail = FALSE
  NetMayLose = FALSE
  MaxDuplicates = 1
  MaxRestarts = 0
  NoStream = NoStream
  NoFile = NoFile
  Torn = Torn
INVARIANT
  NothingLostMeansDelivered
