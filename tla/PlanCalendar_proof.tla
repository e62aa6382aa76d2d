------------------------ MODULE PlanCalendar_proof ------------------------
(***************************************************************************)
(* Proofs about the calendar of weekly and monthly plans, for every length  *)
(* of the day and every clock:                                              *)
(*                                                                          *)
(*   WeekNext          WeekIsNext                                           *)
(*   WeekSeconds       WeekAgrees                                           *)
(*   MonthNext         MonthIsNext                                          *)
(*                                                                          *)
(* None of them speaks of a state, so they hold in every state of the plan  *)
(* dispatcher, which is what the run checks:                                *)
(*                                                                          *)
(*   WeeklyRunsNext    Spec => []WeeklyIsNext                               *)
(*   WeeksAgree        Spec => []WeeklyAgrees                               *)
(*   MonthlyRunsNext   Spec => []MonthlyIsNext                              *)
(***************************************************************************)
EXTENDS MCPlanDispatcher, TLAPS

LEMMA SecondNat == Second \subseteq Nat
BY CalendarAssumption DEF Second

LEMMA WeekdayStep ==
  ASSUME NEW day \in Nat, NEW k \in 0..7
  PROVE  /\ Weekday(day) \in 0..6
         /\ Weekday(day + k) = IF Weekday(day) + k < 7 THEN Weekday(day) + k
                               ELSE Weekday(day) + k - 7
BY DEF Weekday

(* The first day from day on, or from the next day on, with a weekday.      *)
LEMMA WeekdayOnce ==
  ASSUME NEW day \in Nat, NEW k \in 1..7, NEW d \in day..(day + k - 1),
         Weekday(d) = Weekday(day + k)
  PROVE  k = 7 /\ d = day
<1> DEFINE j == d - day
<1>1. j \in 0..7 /\ d = day + j /\ j < k
  OBVIOUS
<1>2. Weekday(d) = IF Weekday(day) + j < 7 THEN Weekday(day) + j ELSE Weekday(day) + j - 7
  BY <1>1, WeekdayStep
<1>3. Weekday(day + k) = IF Weekday(day) + k < 7 THEN Weekday(day) + k
                         ELSE Weekday(day) + k - 7
  BY WeekdayStep
<1>4. Weekday(day) \in 0..6
  BY WeekdayStep
<1> QED BY <1>1, <1>2, <1>3, <1>4

(* check_week moves the plan by k days, to the first of today and the seven *)
(* days after it that has its weekday: not by 0 when the second of today is *)
(* past, and by a whole week only then.                                     *)
LEMMA WeekStep ==
  ASSUME NEW plan_value \in 0..6, NEW second \in Second, NEW clock \in Clock
  PROVE  \E k \in 0..7 :
           /\ check_week(plan_value, second, clock) = On(clock.day + k, second)
           /\ Weekday(clock.day + k) = plan_value
           /\ k = 0 => ~Passed(On(clock.day, second), clock)
           /\ k = 7 => Passed(On(clock.day, second), clock)
<1> DEFINE next == check_week(plan_value, second, clock)
           wk == Weekday(clock.day)
           today == On(clock.day, second)
<1>1. clock.day \in Nat /\ clock.second \in Nat /\ second \in Nat
  BY CalendarAssumption, SecondNat DEF Clock
<1>2. wk \in 0..6
  BY <1>1, WeekdayStep
<1>3. CASE wk = plan_value /\ ~Passed(today, clock)
  <2>1. next = On(clock.day + 0, second) /\ Weekday(clock.day + 0) = plan_value
    BY <1>1, <1>3 DEF check_week
  <2> QED BY <1>3, <2>1
<1>4. CASE wk = plan_value /\ Passed(today, clock)
  <2>1. next = On(clock.day + 7, second)
    BY <1>4 DEF check_week
  <2>2. Weekday(clock.day + 7) = plan_value
    BY <1>1, <1>2, <1>4, WeekdayStep
  <2> QED BY <1>4, <2>1, <2>2
<1>5. CASE wk < plan_value
  <2>1. next = On(clock.day + (plan_value - wk), second)
    BY <1>1, <1>2, <1>5 DEF check_week
  <2>2. plan_value - wk \in 1..6
    BY <1>2, <1>5
  <2>3. Weekday(clock.day + (plan_value - wk)) = plan_value
    BY <1>1, <1>2, <2>2, WeekdayStep
  <2> QED BY <2>1, <2>2, <2>3
<1>6. CASE wk > plan_value
  <2>1. next = On(clock.day + (7 + plan_value - wk), second)
    BY <1>1, <1>2, <1>6 DEF check_week
  <2>2. 7 + plan_value - wk \in 1..6
    BY <1>2, <1>6
  <2>3. Weekday(clock.day + (7 + plan_value - wk)) = plan_value
    BY <1>1, <1>2, <2>2, WeekdayStep
  <2> QED BY <2>1, <2>2, <2>3
<1> QED BY <1>2, <1>3, <1>4, <1>5, <1>6

(* A weekly plan (check_week, zero_plan.cpp:146-174) runs next at the first *)
(* moment that is not past and has its weekday and its second.              *)
THEOREM WeekNext == WeekIsNext
<1> SUFFICES ASSUME NEW plan_value \in 0..6, NEW second \in Second, NEW clock \in Clock
             PROVE  LET next == check_week(plan_value, second, clock)
                    IN /\ Weekday(next.day) = plan_value /\ next.second = second
                       /\ ~Passed(next, clock)
                       /\ \A day \in clock.day..(next.day - 1) :
                            Weekday(day) = plan_value => Passed(On(day, second), clock)
  BY DEF WeekIsNext
<1> DEFINE next == check_week(plan_value, second, clock)
<1>1. clock.day \in Nat /\ clock.second \in Nat /\ second \in Nat
  BY CalendarAssumption, SecondNat DEF Clock
<1>2. PICK k \in 0..7 :
        /\ next = On(clock.day + k, second)
        /\ Weekday(clock.day + k) = plan_value
        /\ k = 7 => Passed(On(clock.day, second), clock)
        /\ k = 0 => ~Passed(On(clock.day, second), clock)
  BY WeekStep
<1>3. next.day = clock.day + k /\ next.second = second
  BY <1>2 DEF On
<1>4. ~Passed(next, clock)
  BY <1>1, <1>2, <1>3 DEF Passed, On
<1>5. ASSUME NEW day \in clock.day..(next.day - 1), Weekday(day) = plan_value
      PROVE  Passed(On(day, second), clock)
  <2>1. k \in 1..7
    BY <1>1, <1>3, <1>5
  <2>2. day \in clock.day..(clock.day + k - 1)
    BY <1>1, <1>3, <1>5, <2>1
  <2>3. Weekday(day) = Weekday(clock.day + k)
    BY <1>2, <1>5
  <2>4. k = 7 /\ day = clock.day
    BY <1>1, <2>1, <2>2, <2>3, WeekdayOnce
  <2> QED BY <1>2, <2>4
<1> QED BY <1>2, <1>3, <1>4, <1>5

LEMMA MonthLength ==
  ASSUME NEW y \in Nat, NEW m \in 1..12
  PROVE  EndOfMonth(y, m) \in 28..31
BY DEF EndOfMonth

(* A monthly plan (check_month, zero_plan.cpp:111-141) of a day up to the   *)
(* 28th runs next at the first moment that is not past and has its day and  *)
(* second; the date of any other has not passed if it exists.               *)
THEOREM MonthNext == MonthIsNext
<1> SUFFICES ASSUME NEW plan_value \in -31..31, NEW second \in Second, NEW clock \in Dates
             PROVE  LET next == check_month(plan_value, second, clock)
                    IN /\ IsDate(next) => ~Earlier(next, clock)
                       /\ plan_value \in 1..28 =>
                            /\ IsDate(next) /\ next.day = plan_value /\ next.second = second
                            /\ \/ At(next, 1, 0) = At(clock, 1, 0)
                               \/ /\ At(next, 1, 0) = At(NextMonth(clock), 1, 0)
                                  /\ Earlier(At(clock, plan_value, second), clock)
  BY DEF MonthIsNext
<1> DEFINE next == check_month(plan_value, second, clock)
           day == DayOf(plan_value, clock)
           past == day < clock.day \/ (day = clock.day /\ second < clock.second)
<1>1. /\ clock \in [year : Years, month : 1..12, day : 1..31, second : Second]
      /\ clock.year \in Nat /\ clock.month \in 1..12 /\ clock.day \in 1..31
      /\ clock.second \in Nat /\ second \in Nat
  BY CalendarAssumption, SecondNat DEF Dates
<1>2. EndOfMonth(clock.year, clock.month) \in 28..31
  BY <1>1, MonthLength
<1>3. day \in Int /\ (plan_value \in 1..28 => day = plan_value)
  BY <1>2 DEF DayOf
<1>4. /\ NextMonth(clock).year  = IF clock.month = 12 THEN clock.year + 1 ELSE clock.year
      /\ NextMonth(clock).month = IF clock.month = 12 THEN 1 ELSE clock.month + 1
  BY DEF NextMonth
<1>5. CASE past
  <2>1. next = [year |-> NextMonth(clock).year, month |-> NextMonth(clock).month,
                day |-> day, second |-> second]
    BY <1>4, <1>5 DEF check_month, At
  <2>2. ~Earlier(next, clock)
    BY <1>1, <1>3, <1>4, <2>1 DEF Earlier
  <2>3. NextMonth(clock).year \in Nat /\ NextMonth(clock).month \in 1..12
    BY <1>1, <1>4
  <2>4. EndOfMonth(next.year, next.month) \in 28..31
    BY <2>1, <2>3, MonthLength
  <2>5. plan_value \in 1..28 => IsDate(next)
    BY <1>3, <2>1, <2>4 DEF IsDate
  <2>6. At(next, 1, 0) = At(NextMonth(clock), 1, 0)
    BY <1>4, <2>1 DEF At
  <2>7. At(clock, plan_value, second) = [year |-> clock.year, month |-> clock.month,
                                       day |-> plan_value, second |-> second]
    BY <1>1 DEF At
  <2>8. plan_value \in 1..28 => Earlier(At(clock, plan_value, second), clock)
    BY <1>1, <1>3, <1>5, <2>7 DEF Earlier
  <2> QED BY <1>3, <2>1, <2>2, <2>5, <2>6, <2>8
<1>6. CASE ~past
  <2>1. next = [year |-> clock.year, month |-> clock.month, day |-> day, second |-> second]
    BY <1>1, <1>6 DEF check_month, At
  <2>2. ~Earlier(next, clock)
    BY <1>1, <1>3, <1>6, <2>1 DEF Earlier
  <2>3. plan_value \in 1..28 => IsDate(next)
    BY <1>2, <1>3, <2>1 DEF IsDate
  <2>4. At(next, 1, 0) = At(clock, 1, 0)
    BY <1>1, <2>1 DEF At
  <2> QED BY <1>3, <2>1, <2>2, <2>3, <2>4
<1> QED BY <1>5, <1>6

-----------------------------------------------------------------------------
(* The week as a number of seconds.                                         *)

(* A multiple of w that lies strictly between -w and w is 0.                *)
LEMMA Multiple ==
  ASSUME NEW w \in Nat \ {0}, NEW n \in Int, w * n < w, 0 - w < w * n
  PROVE  n = 0
<1>1. ASSUME n >= 1 PROVE w * n >= w
  <2>1. PICK j \in Nat : n = 1 + j
    <3>1. n - 1 \in Nat /\ n = 1 + (n - 1)
      BY <1>1
    <3> QED BY <3>1
  <2>2. w * j >= 0 /\ w * n = w + w * j
    BY <2>1
  <2> QED BY <2>2
<1>2. ASSUME n <= -1 PROVE w * n <= 0 - w
  <2>1. PICK j \in Nat : n = 0 - 1 - j
    <3>1. 0 - 1 - n \in Nat /\ n = 0 - 1 - (0 - 1 - n)
      BY <1>2
    <3> QED BY <3>1
  <2>2. w * j >= 0 /\ w * n = 0 - w - w * j
    BY <2>1
  <2> QED BY <2>2
<1> QED BY <1>1, <1>2

(* Division with remainder.                                                 *)
LEMMA DivMod ==
  ASSUME NEW w \in Nat \ {0}, NEW x \in Int
  PROVE  /\ x % w \in 0..(w - 1) /\ (x \div w) \in Int
         /\ x = w * (x \div w) + (x % w)
OBVIOUS

(* The remainder of a number that is d less a multiple of w.                *)
LEMMA ModOf ==
  ASSUME NEW w \in Nat \ {0}, NEW d \in 0..(w - 1), NEW q \in Int
  PROVE  (d - w * q) % w = d
<1> DEFINE x == d - w * q
           r == x % w
           n == x \div w
<1>0. x \in Int
  OBVIOUS
<1>1. r \in 0..(w - 1) /\ n \in Int /\ x = w * n + r
  BY <1>0, DivMod
<1> HIDE DEF r, n
<1>2. w * (n + q) = d - r
  <2>1. w * (n + q) = w * n + w * q
    BY <1>1
  <2>2. w * n \in Int /\ w * q \in Int
    BY <1>1
  <2> QED BY <1>1, <2>1, <2>2
<1>3. n + q = 0
  <2>1. d - r < w /\ 0 - w < d - r
    BY <1>1
  <2>2. n + q \in Int
    BY <1>1
  <2> QED BY <1>2, <2>1, <2>2, Multiple
<1>4. w * 0 = 0
  OBVIOUS
<1>5. d = r
  BY <1>1, <1>2, <1>3, <1>4
<1> QED BY <1>5 DEF r

LEMMA WeekMod ==
  ASSUME NEW day \in Nat, NEW plan_value \in 0..6, Weekday(day) = plan_value
  PROVE  \E q \in Int : (plan_value + 3) % 7 = day - 7 * q
<1>1. day = 7 * (day \div 7) + (day % 7) /\ (day \div 7) \in Int
  OBVIOUS
<1>2. (plan_value + 3) % 7 = day % 7
  BY DEF Weekday
<1>3. (plan_value + 3) % 7 = day - 7 * (day \div 7)
  BY <1>1, <1>2
<1> QED BY <1>1, <1>3
(* What PlanMessage makes of a second of the week.                          *)
LEMMA InWeekTime ==
  ASSUME NEW value \in 0..(7 * Day - 1), NEW t \in Int
  PROVE  InWeek!CheckWeek([InWeek!Blank EXCEPT !.plan_value = value], t).m.plan_time
           = t + ((value - t) % (7 * Day))
<1> DEFINE m == [InWeek!Blank EXCEPT !.plan_value = value]
<1>1. m.plan_value = value
  BY DEF InWeek!Blank
<1>2. InWeek!CheckWeek(m, t) = InWeek!Join(m, t + ((value - t) % (7 * Day)))
  BY <1>1 DEF InWeek!CheckWeek
<1>3. "plan_time" \in DOMAIN m
  BY DEF InWeek!Blank
<1> DEFINE x == t + ((value - t) % (7 * Day))
<1> HIDE DEF m, x
<1>4. InWeek!Join(m, x).m = [m EXCEPT !.plan_time = x]
  BY DEF InWeek!Join
<1>5. InWeek!Join(m, x).m.plan_time = x
  BY <1>3, <1>4
<1> QED BY <1>2, <1>5 DEF m, x

(* PlanMessage, whose week is a number of seconds from a Thursday on, and   *)
(* check_week (zero_plan.cpp:146-174), which counts days and seconds, give  *)
(* every weekly plan the same time.                                         *)
THEOREM WeekSeconds == WeekAgrees
<1> SUFFICES ASSUME NEW plan_value \in 0..6, NEW second \in Second, NEW clock \in Clock
             PROVE  InWeek!CheckWeek([InWeek!Blank EXCEPT !.plan_value =
                                        ((plan_value + 3) % 7) * Day + second],
                                     Seconds(clock)).m.plan_time
                      = Seconds(check_week(plan_value, second, clock))
  BY DEF WeekAgrees
<1> DEFINE wd == (plan_value + 3) % 7
           value == wd * Day + second
           t == clock.day * Day + clock.second
           w == 7 * Day
<1>1. /\ Day \in Nat \ {0} /\ clock.day \in Nat
      /\ clock.second \in 0..(Day - 1) /\ second \in 0..(Day - 1)
  BY CalendarAssumption DEF Clock, Second
<1>2. PICK k \in 0..7 :
        /\ check_week(plan_value, second, clock) = On(clock.day + k, second)
        /\ Weekday(clock.day + k) = plan_value
        /\ k = 0 => ~Passed(On(clock.day, second), clock)
        /\ k = 7 => Passed(On(clock.day, second), clock)
  BY WeekStep
<1>3. /\ k = 0 => second >= clock.second
      /\ k = 7 => second < clock.second
  BY <1>1, <1>2 DEF Passed, On
<1>4. PICK q \in Int : wd = clock.day + k - 7 * q
  <2>1. clock.day + k \in Nat
    BY <1>1
  <2> DEFINE day == clock.day + k
  <2> HIDE DEF day
  <2>2. day \in Nat /\ Weekday(day) = plan_value
    BY <1>2, <2>1 DEF day
  <2>3. PICK q \in Int : (plan_value + 3) % 7 = day - 7 * q
    BY <2>2, WeekMod, Zenon
  <2>4. wd = clock.day + k - 7 * q
    BY <1>1, <2>3 DEF day
  <2> QED BY <2>4
<1>5. wd \in 0..6
  OBVIOUS
<1> DEFINE d == k * Day + second - clock.second
<1> HIDE DEF wd
<1>6. d \in 0..(w - 1)
  <2>1. CASE k = 0
    BY <1>1, <1>3, <2>1
  <2>2. CASE k \in 1..6
    <3>1. k * Day >= Day /\ k * Day <= 6 * Day
      BY <1>1, <2>2
    <3> QED BY <1>1, <3>1
  <2>3. CASE k = 7
    BY <1>1, <1>3, <2>3
  <2> QED BY <2>1, <2>2, <2>3
<1>7. value \in 0..(w - 1)
  <2>1. wd * Day >= 0 /\ wd * Day <= 6 * Day
    BY <1>1, <1>5
  <2> QED BY <1>1, <1>5, <2>1
<1>8. value - t = d - w * q
  <2>1. wd * Day = clock.day * Day + k * Day - 7 * (q * Day)
    BY <1>1, <1>4
  <2>2. w * q = 7 * (q * Day)
    BY <1>1
  <2> QED BY <1>1, <1>4, <2>1, <2>2
<1>9. (value - t) % w = d
  <2>1. w \in Nat \ {0}
    BY <1>1
  <2> HIDE DEF w, d, value, t
  <2>2. (d - w * q) % w = d
    BY <1>6, <2>1, ModOf
  <2> QED BY <1>8, <2>2
<1>10. t \in Int
  BY <1>1
<1>11. t + d = (clock.day + k) * Day + second
  BY <1>1
<1>12. InWeek!CheckWeek([InWeek!Blank EXCEPT !.plan_value = value], t).m.plan_time = t + d
  <2> HIDE DEF value, t, d
  <2> QED BY <1>7, <1>9, <1>10, InWeekTime
<1>13. Seconds(clock) = t
  BY DEF Seconds
<1>14. Seconds(check_week(plan_value, second, clock)) = (clock.day + k) * Day + second
  BY <1>2 DEF Seconds, On
<1> QED BY <1>11, <1>12, <1>13, <1>14 DEF wd

-----------------------------------------------------------------------------
(* The properties of the run.                                               *)

(* A weekly plan runs next at the first moment of its weekday and second    *)
(* that is not past (check_week, zero_plan.cpp:146-174).                    *)
THEOREM WeeklyRunsNext == Spec => []WeeklyIsNext
<1>1. WeeklyIsNext
  BY WeekNext DEF WeeklyIsNext
<1> QED BY <1>1, PTL

(* PlanMessage's weekly plans run when the calendar says                    *)
(* (zero_plan.cpp:146-174).                                                 *)
THEOREM WeeksAgree == Spec => []WeeklyAgrees
<1>1. WeeklyAgrees
  BY WeekSeconds DEF WeeklyAgrees
<1> QED BY <1>1, PTL

(* A monthly plan of a day up to the 28th runs next at the first moment of  *)
(* its day and second that is not past, any other at a date that has not    *)
(* passed or does not exist (check_month, zero_plan.cpp:111-141).           *)
THEOREM MonthlyRunsNext == Spec => []MonthlyIsNext
<1>1. MonthlyIsNext
  BY MonthNext DEF MonthlyIsNext
<1> QED BY <1>1, PTL
=============================================================================
