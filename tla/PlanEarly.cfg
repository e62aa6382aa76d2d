\* A plan of type time that is due later, and nothing that goes wrong.
CONSTANTS
  p1 = p1
  Week = 4
  Day = 2
  Days = {0, 1, 2, 3, 4, 5, 6, 7, 8}
  Years = {2023, 2024}
  Plans = {p1}
  Requests <- LateRequest
  Answers = {"runing"}
  Reports = {"ok"}
  SendOutcomes = {"sent"}
  Commands = {}
  SkipArg = 2
  ExecTimeout = 2
  MaxTime = 4
  MaxMishaps = 0
SPECIFICATION Spec
PROPERTY NotBeforeItsTime
CHECK_DEADLOCK FALSE
