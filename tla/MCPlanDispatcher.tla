------------------------- MODULE MCPlanDispatcher -------------------------
(* Instances of PlanDispatcher for TLC: the requests of each run.  The      *)
(* calendar is checked by the run of the kinds of plan.                     *)
EXTENDS PlanDispatcher, PlanCalendar

CONSTANT p1

Req(type, value, repet, noSkip, skip, time) ==
  [plan_type |-> type, plan_value |-> value, plan_repet |-> repet,
   no_skip |-> noSkip, skip_set |-> skip, plan_time |-> time]

TwiceASecond == Req("delay", 1, 2, FALSE, 0, 0)   \* two runs, a second apart
EveryOther   == Req("delay", 2, -1, TRUE, 0, 1)   \* without end, every slot
SkipOne      == Req("delay", 1, -1, FALSE, 2, 1)  \* passes its first slots over
OnceAtTwo    == Req("time", 0, 1, FALSE, 0, 2)
Weekly       == Req("week", 3, -1, FALSE, 0, 1)
NoSuchDay    == Req("week", 7, -1, FALSE, 0, 1)

RaceRequests == {TwiceASecond, SkipOne}
FairRequests == {TwiceASecond, EveryOther, OnceAtTwo, Weekly, NoSuchDay}
LateRequest  == {Req("time", 0, 1, FALSE, 0, 4)}
OneRequest   == {TwiceASecond}

(* The calendar does not depend on the state: it is checked in the first.   *)

(* A weekly plan runs next at the first moment of its weekday and second    *)
(* that is not past (check_week, zero_plan.cpp:146-174).                    *)
WeeklyIsNext == Init => WeekIsNext

(* PlanMessage, whose week is a number of seconds, agrees with the calendar *)
(* on the time of every weekly plan (zero_plan.cpp:146-174).                *)
WeeklyAgrees == Init => WeekAgrees

(* A monthly plan of a day up to the 28th runs next at the first moment of  *)
(* its day and second that is not past, any other at a date that has not    *)
(* passed or does not exist (check_month, zero_plan.cpp:111-141).           *)
MonthlyIsNext == Init => MonthIsNext
=============================================================================
