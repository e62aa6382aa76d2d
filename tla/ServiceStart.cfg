\* A base station and a vote station, and nothing that goes wrong.
CONSTANTS
  Business = {b1, b2}
  Base = {b1}
  Vote = {b2}
  Slot = {1, 2}
  MaxMishaps = 0
SPECIFICATION FairSpec
PROPERTY StartReturns
CHECK_DEADLOCK FALSE
