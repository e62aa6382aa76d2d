\* Three instances of a station and two of: a command, a bind that fails, a poll that
\* fails, the close of the center.
CONSTANTS
  Instance = {i1, i2, i3}
  MaxEvent = 2
SPECIFICATION FairSpec
INVARIANTS TypeOK Registered JoinFree
PROPERTIES StopEnds CenterEnds
\* A station may end, and a close or a destructor may wait for ever.
CHECK_DEADLOCK FALSE
