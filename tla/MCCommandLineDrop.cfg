SPECIFICATION ParseSpec
CONSTANTS
  Word <- MCWord
  Garbage <- MCGarbage
  MaxWords = 3
INVARIANTS
  DropMeansDrop
CHECK_DEADLOCK FALSE
