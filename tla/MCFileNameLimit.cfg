SPECIFICATION NameSpec
CONSTANTS
  Names <- MCNames
  Length <- MCLength
  Special <- Punctuation
  MaxSislLength = 65
  MaxFilenameLength = 1000
  Numeral = {}
  Long = {}
INVARIANTS
  NameOf65Kept
CHECK_DEADLOCK FALSE
