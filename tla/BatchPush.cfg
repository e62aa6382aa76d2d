\* Two items and an open station.
CONSTANTS
  Item = {i1, i2}
  Portion = 1
  Limit = 1
  MaxStops = 0
SPECIFICATION Spec
INVARIANT PushKept
