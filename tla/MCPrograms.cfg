SPECIFICATION Spec
\* The programs end.
CHECK_DEADLOCK FALSE
CONSTANTS
  Word <- MCWord
  Garbage <- MCGarbage
  MaxWords = 3
  Frames = 2
  Signals = 1
  Faults = {"port in use", "socket error", "exception", "no such file", "send error"}
INVARIANTS
  ParsedAsWritten
  NumbersFit
  ZeroMeansUsable
  ZeroMeansStoppedServing
PROPERTIES
  InterruptEnds
  FailureIsReported
