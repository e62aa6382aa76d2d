\* One plan under every disturbance: any two of a late answer, a WAITING
\* report, a lost execution, a management command and a crash.
CONSTANTS
  p1 = p1
  Week = 4
  Day = 2
  Days = {0, 1, 2, 3, 4, 5, 6, 7, 8}
  Years = {2023, 2024}
  Plans = {p1}
  Requests <- RaceRequests
  Answers = {"runing", "fault"}
  Reports = {"ok", "bug", "wait"}
  SendOutcomes = {"sent", "unfit"}
  Commands = {"skip", "pause", "reset", "close", "remove"}
  SkipArg = 2
  ExecTimeout = 2
  MaxTime = 4
  MaxMishaps = 2
SPECIFICATION Spec
INVARIANTS TypeOK CountBacked OverlapBounded
CHECK_DEADLOCK FALSE
