SPECIFICATION Spec
\* The programs end.
CHECK_DEADLOCK FALSE
CONSTANTS
  Word <- MCWord
  Garbage <- MCGarbage
  MaxWords = 1
  Frames = 1
  Signals = 1
  Faults = {}
PROPERTY
  StoppingMeansEnding
