SPECIFICATION ClientSpec
CONSTANTS
  Timers = {"free", "deadline"}
  Period = 2
  Late = 3
  Lengths = {0, 1, 3}
  MaxSends = 2
  MaxTime = 3
  SendMayFail = FALSE
INVARIANTS
  EverySessionStartsAtOne
CHECK_DEADLOCK FALSE
