\* Two stations, of which the center knows one, and the connection pool; a station has a
\* second task when it restarts.
CONSTANTS
  Station = {s1, s2}
  Pool = pool
  Known = {s2}
  Told = {s1}
  MaxTask = 2
  MaxFault = 2
SPECIFICATION FairSpec
INVARIANTS TypeOK OneLoop NoStalePost Listed
PROPERTIES EndsAll  CloseEnds
\* The application ends, and the code has closes and starts that wait for ever.
CHECK_DEADLOCK FALSE
