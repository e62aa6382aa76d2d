\* The center closes and starts again.
CONSTANTS
  Station = {s1}
  Pool = pool
  Known = {s1}
  Told = {s1}
  MaxTask = 2
  MaxFault = 2
SPECIFICATION Spec
INVARIANT StartsAll
CHECK_DEADLOCK FALSE
