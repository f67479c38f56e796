SPECIFICATION NvsSpec
CONSTANTS
  Ids = {a, b}
  Data = {x}
  NewData = {x, Nothing}
  Nothing = Nothing
  SectorCount = 2
  SectorSize = 6
  Faults = {"close", "low_close"}
INVARIANT RecoversLastAte
CHECK_DEADLOCK FALSE
