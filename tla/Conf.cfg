SPECIFICATION ConfSpec
CONSTANTS
  a = a
  b = b
  Names = {a, b}
  NoName = NoName
  MaxNr = 2
  MaxSettings = 5
SYMMETRY NameSymmetry
INVARIANTS
  ConfTypeOK
  ReleasedTwice
  LeftBehind
  LoadedIsUsable
CHECK_DEADLOCK FALSE
