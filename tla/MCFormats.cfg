SPECIFICATION Spec
\* The transfers, names and texts end, and so do the clients.
CHECK_DEADLOCK FALSE
CONSTANTS
  Base = 2
  Frames = 18
  Window = 2
  Session = {5, 15}
  Names <- MCNames
  Length <- MCLength
  Special <- Punctuation
  MaxSislLength = 65
  MaxFilenameLength = 1000
  Numeral = {"7", "long", "rounded"}
  Long = {"long"}
  k1 = k1
  k2 = k2
  k3 = k3
  i1 = i1
  i2 = i2
  log = log
  report = report
  Client = {k1, k2, k3}
  Id = {i1, i2}
  Chunk <- Chunks
  Source <- TwoSources
  Name <- TwoNames
  MaxQueueLength = 4
  NoFile = NoFile
SYMMETRY IdSymmetry
INVARIANTS
  HeadersReadBack
  WrittenInPlace
  StuckOnlyAtWrap
  NoThirdName
  NameSurvives
  ReadsBack
  ReachIsLoop
  MixedInPlaceOnly
