SPECIFICATION ClientSpec
CONSTANTS
  Timers = {"deadline"}
  Period = 2
  Late = 0
  Lengths = {0, 1, 3}
  MaxSends = 1
  MaxTime = 3
  SendMayFail = FALSE
INVARIANTS
  OnePeriodApart
CHECK_DEADLOCK FALSE
