SPECIFICATION SharedSpec
\* The clients end.
CHECK_DEADLOCK FALSE
CONSTANTS
  k1 = k1
  k2 = k2
  k3 = k3
  i1 = i1
  i2 = i2
  log = log
  report = report
  Client = {k1, k2, k3}
  Id = {i1, i2}
  Chunk <- Chunks
  Source <- TwoSources
  Name <- TwoNames
  MaxQueueLength = 4
  NoFile = NoFile
SYMMETRY IdSymmetry
INVARIANTS
  ReceivedIsSent
