SPECIFICATION ClientSpec
CONSTANTS
  Timers = {"free", "deadline"}
  Period = 2
  Late = 3
  Lengths = {0, 1, 3}
  MaxSends = 1
  MaxTime = 3
  SendMayFail = TRUE
INVARIANTS
  CompleteMeansSent
CHECK_DEADLOCK FALSE
