--------------------------- MODULE PlanCalendar ---------------------------
(***************************************************************************)
(* The calendar of weekly and monthly plans (rpc/zero_plan.cpp): on which   *)
(* day a plan runs next, given the day it names, the second of the day it   *)
(* was made for and the clock.  PlanMessage has the rules that need no      *)
(* calendar, and a week without days, which WeekAgrees justifies.           *)
(*                                                                          *)
(* Days are counted from 1 January 1970, a Thursday, in the week, and are   *)
(* those of a year and a month in the month.                                *)
(***************************************************************************)
EXTENDS Integers

CONSTANTS
  Day,           \* the length of the day in seconds; a small number for TLC
  Days,          \* the days, since 1970, of the weekly clock
  Years          \* the years of the monthly clock

ASSUME CalendarAssumption ==
  /\ Day \in Nat \ {0} /\ Days \subseteq Nat /\ Years \subseteq Nat

Second == 0..(Day - 1)

-----------------------------------------------------------------------------
(* The week.                                                                *)

Clock == [day : Days, second : Second]

Weekday(day) == (day + 4) % 7

Passed(t, now) == t.day < now.day \/ (t.day = now.day /\ t.second < now.second)

On(day, second) == [day |-> day, second |-> second]

MutantCheckWeek(plan_value, second, now) ==
  LET wk == Weekday(now.day)
  IN On(IF wk <= plan_value THEN now.day + plan_value - wk ELSE now.day + 7 + plan_value - wk,
        second)

check_week(plan_value, second, now) ==
  LET wk    == Weekday(now.day)
      today == On(now.day, second)
  IN IF wk = plan_value THEN IF Passed(today, now) THEN On(now.day + 7, second) ELSE today
     ELSE IF wk < plan_value THEN On(now.day + plan_value - wk, second)
     ELSE On(now.day + 7 + plan_value - wk, second)

-----------------------------------------------------------------------------
(* The month.                                                               *)

Leap(y) == y % 4 = 0 /\ (y % 100 # 0 \/ y % 400 = 0)

EndOfMonth(y, m) ==
  IF m = 2 THEN IF Leap(y) THEN 29 ELSE 28
  ELSE IF m \in {4, 6, 9, 11} THEN 30 ELSE 31

IsDate(t) == t.day \in 1..EndOfMonth(t.year, t.month)

Dates == {t \in [year : Years, month : 1..12, day : 1..31, second : Second] : IsDate(t)}

Earlier(t, u) ==
  \/ t.year < u.year
  \/ t.year = u.year /\ t.month < u.month
  \/ t.year = u.year /\ t.month = u.month /\ t.day < u.day
  \/ t.year = u.year /\ t.month = u.month /\ t.day = u.day /\ t.second < u.second

NextMonth(now) == [year  |-> IF now.month = 12 THEN now.year + 1 ELSE now.year,
                   month |-> IF now.month = 12 THEN 1 ELSE now.month + 1]

At(month, day, second) ==
  [year |-> month.year, month |-> month.month, day |-> day, second |-> second]

(* The day of this month a plan means; a value of zero or less counts from  *)
(* its end, but for vl <= max.                                              *)
DayOf(plan_value, now) ==
  LET max == EndOfMonth(now.year, now.month)
  IN IF plan_value > 0 THEN IF plan_value > max THEN max ELSE plan_value
     ELSE IF 0 - plan_value <= max THEN 1 ELSE max + plan_value

MutantCheckMonth(plan_value, second, now) ==
  LET day == DayOf(plan_value, now)
  IN At(IF day < now.day THEN NextMonth(now) ELSE now, day, second)

(* A date that does not exist makes the constructor of its date throw.      *)
check_month(plan_value, second, now) ==
  LET day == DayOf(plan_value, now)
  IN At(IF day < now.day \/ (day = now.day /\ second < now.second) THEN NextMonth(now) ELSE now,
        day, second)

-----------------------------------------------------------------------------
(* WeekIsNext: a weekly plan runs next at the first moment, not before the  *)
(* clock, that has its weekday and its second of the day.                   *)
WeekIsNext ==
  \A plan_value \in 0..6, second \in Second, now \in Clock :
    LET next == check_week(plan_value, second, now)
    IN /\ Weekday(next.day) = plan_value /\ next.second = second /\ ~Passed(next, now)
       /\ \A day \in now.day..(next.day - 1) :
            Weekday(day) = plan_value => Passed(On(day, second), now)

(* WeekAgrees: the week of PlanMessage, which is a number of seconds and    *)
(* begins on a Thursday, gives every weekly plan the same time.             *)
InWeek == INSTANCE PlanMessage WITH Week <- 7 * Day

Seconds(t) == t.day * Day + t.second

WeekAgrees ==
  \A plan_value \in 0..6, second \in Second, now \in Clock :
    LET value == ((plan_value + 3) % 7) * Day + second
    IN InWeek!CheckWeek([InWeek!Blank EXCEPT !.plan_value = value], Seconds(now)).m.plan_time
         = Seconds(check_week(plan_value, second, now))

(* MonthIsNext: a monthly plan of a day every month has runs next at the    *)
(* first moment, not before the clock, that has this day and its second.    *)
(* For the days 29 to 31, and those counted from the end of the month,      *)
(* check_month does not keep that, but a date that exists has not passed.   *)
MonthIsNext ==
  \A plan_value \in -31..31, second \in Second, now \in Dates :
    LET next == check_month(plan_value, second, now)
    IN /\ IsDate(next) => ~Earlier(next, now)
       /\ plan_value \in 1..28 =>
            /\ IsDate(next) /\ next.day = plan_value /\ next.second = second
            /\ \/ At(next, 1, 0) = At(now, 1, 0)
               \/ /\ At(next, 1, 0) = At(NextMonth(now), 1, 0)
                  /\ Earlier(At(now, plan_value, second), now)
=============================================================================
