SPECIFICATION TestsSpec
\* The tests end.
CHECK_DEADLOCK FALSE
CONSTANTS
  good = good
  tooLong = tooLong
  testFilename = testFilename
  testFilenameRepeated = testFilenameRepeated
  wrongFilename = wrongFilename
  Session = {good, tooLong}
  Chunk = {1, 2, 3, 4, 5, 99}
  File <- NoFiles
  Name <- TestNames
  Copy = {0, 1, 2, 3, 4, 5}
  MaxQueueLength = 3
  AcceptedName = {testFilename}
  Timeout = 1
  MaxTime = 4
  DiskMayFail = FALSE
  NoStream = NoStream
  NoFile = NoFile
  Torn = Torn
INVARIANTS
  EveryTestPasses
