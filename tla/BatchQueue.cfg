\* Three items, portions of one, and any two closes, exceptions or
\* restarts.
CONSTANTS
  Item = {i1, i2, i3}
  Portion = 1
  Limit = 2
  MaxStops = 2
SPECIFICATION FairSpec
INVARIANTS TypeOK  
PROPERTIES HandedOnce  Drained
