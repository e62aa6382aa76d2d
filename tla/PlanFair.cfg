\* The kinds of plan, with one crash, late answer or lost execution, fairly
\* scheduled.
CONSTANTS
  p1 = p1
  Week = 4
  Day = 2
  Days = {0, 1, 2, 3, 4, 5, 6, 7, 8}
  Years = {2023, 2024}
  Plans = {p1}
  Requests <- FairRequests
  Answers = {"runing", "ok"}
  Reports = {"ok", "planerr"}
  SendOutcomes = {"sent"}
  Commands = {}
  SkipArg = 2
  ExecTimeout = 2
  MaxTime = 4
  MaxMishaps = 1
SPECIFICATION FairSpec
INVARIANTS WeeklyIsNext WeeklyAgrees 
PROPERTIES  LostIsRetried
CHECK_DEADLOCK FALSE
