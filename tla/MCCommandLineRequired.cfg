SPECIFICATION ParseSpec
CONSTANTS
  Word <- MCWord
  Garbage <- MCGarbage
  MaxWords = 3
INVARIANTS
  RequiredGiven
CHECK_DEADLOCK FALSE
