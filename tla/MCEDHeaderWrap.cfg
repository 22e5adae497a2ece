SPECIFICATION HeaderSpec
CONSTANTS
  Base = 2
  Frames = 18
  Window = 2
  Session = {5, 15}
INVARIANTS
  AllArrivedIsComplete
CHECK_DEADLOCK FALSE
