SPECIFICATION SettingsSpec
CONSTANTS
  Names = {n1, n2, n3, n4}
  Vals = {x, y}
  None = None
  MaxId = 3
INVARIANTS
  OnePlace
  RefusedMeansFull
PROPERTIES
  ImplementsKvStore
