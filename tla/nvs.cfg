SPECIFICATION NvsSpec
CONSTANTS
  Ids = {a, b}
  Data = {x, y}
  NewData = {x, y, Nothing}
  Nothing = Nothing
  SectorCount = 2
  SectorSize = 7
  Faults = {"write","close"}
INVARIANTS
  AlwaysMounts
  ReadsWhatSurvives
  FitsInOneSector
PROPERTIES
  ImplementsKvStore
CHECK_DEADLOCK FALSE
