\* A base station and one that is stopped or not, and any two of a failed
\* initialization, a poll that ends early and a command.
CONSTANTS
  Business = {b1, b2}
  Base = {b1}
  Vote = {}
  Slot = {1, 2}
  MaxMishaps = 2
SPECIFICATION FairSpec
INVARIANTS TypeOK RunCounted OneRuns StartWaits CloseWaits
 
CHECK_DEADLOCK FALSE
