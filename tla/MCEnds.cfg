SPECIFICATION Spec
\* The client, run() and the file of the rewrapper end.
CHECK_DEADLOCK FALSE
CONSTANTS
  Timers = {"free", "deadline"}
  Period = 2
  Late = 3
  Lengths = {0, 1, 3}
  MaxSends = 2
  MaxTime = 3
  SendMayFail = TRUE
  ClientMtu = {500, 576, 1500, 32768, 65535}
  ServerMtu = {576, 1500, 32767, 65535}
  SocketBuffer = 2
  MaxSent = 4
  Faults = {"socket error", "exception"}
  Bit = {0}
  Opening <- MCOpening
  Chunk <- MCChunk
  MaxFrames = 4
  Key <- MCKey
  ValidHeader = {TRUE, FALSE}
  NoFrame = NoFrame
INVARIANTS
  NeverAheadOfRate
  FirstSendIsWhole
  OneFlaggedFrameEndsACall
  WholeIfMtuFits
  HandedOverOnce
  RefusedOnlyFor
  CompleteIsSource
PROPERTIES
  EachIsHandled
  GrowsByTheChunk
  RewrappableCompletes
