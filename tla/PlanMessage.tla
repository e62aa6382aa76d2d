---------------------------- MODULE PlanMessage ----------------------------
(***************************************************************************)
(* The plan_message of ZeroCenter (rpc/zero_plan.h, rpc/zero_plan.cpp): the *)
(* record a scheduled task is, the rules that compute when it runs next,    *)
(* and the groups of fields each kind of save writes to its redis hash.     *)
(* Everything here is a function of the message and of the clock; the       *)
(* threads that call it are in PlanDispatcher.                              *)
(***************************************************************************)
EXTENDS Integers, Sequences

CONSTANT Week      \* length of the week in seconds; a small number for TLC
ASSUME WeekAssumption == Week \in Nat \ {0}

-----------------------------------------------------------------------------
(* plan_message_state in the order of the enumeration: the guards of the    *)
(* management commands compare states by that order.                        *)

PlanState == {"none", "queue", "execute", "retry", "skip", "pause",
              "error", "close"}

BeforePause == {"none", "queue", "execute", "retry", "skip"}

(* exec_state, by the classes on_plan_result and exec_now tell apart:       *)
(*   runing, wait   ZERO_STATUS_RUNING_ID, ZERO_STATUS_WAIT_ID              *)
(*   ok             below 0x80: executed                                    *)
(*   fail           0x80 .. 0xCF: a logical failure, or a paused station    *)
(*   bug            0xD0 .. 0xEF                                            *)
(*   unfit          NOT_FIND, NOT_SUPPORT                                   *)
(*   planerr        PLAN_ERROR                                              *)
(*   fault          every other status from 0xF0 on                         *)
Status == {"runing", "wait", "ok", "fail", "bug", "unfit", "planerr", "fault"}
ExecState == Status \cup {"unset"}

PlanType == {"time", "delay", "week", "none"}

Message == [plan_type : PlanType,
            plan_value : Int,      \* seconds of delay, or second of the week
            plan_repet : Int,
            no_skip : BOOLEAN,
            frames : BOOLEAN,      \* the fields only a full save writes are there
            skip_set : Int,
            skip_num : Int,
            plan_time : Int,
            exec_time : Int,
            exec_state : ExecState,
            real_repet : Nat,
            plan_state : PlanState]

(* What plan_message() constructs and what load_message reads for fields    *)
(* that are not in the hash.                                                *)
Blank == [plan_type |-> "none", plan_value |-> 0, plan_repet |-> 0,
          no_skip |-> FALSE, frames |-> FALSE, skip_set |-> 0, skip_num |-> 0,
          plan_time |-> 0, exec_time |-> 0, exec_state |-> "unset",
          real_repet |-> 0, plan_state |-> "none"]

(* The fields a requester may set (read_plan).                              *)
Request == [plan_type : PlanType, plan_value : Int, plan_repet : Int,
            no_skip : BOOLEAN, skip_set : Int, plan_time : Int]

(* No skip count can reach the repeat count: check_next and on_plan_start.  *)
SkipsAll(m) == m.skip_set > 0 /\ m.plan_repet > 0 /\ m.plan_repet <= m.skip_set

Rejected(r) == r.plan_repet = 0 \/ SkipsAll(r)

NewMessage(r, now) ==
  [plan_type |-> r.plan_type, plan_value |-> r.plan_value,
   plan_repet |-> r.plan_repet, no_skip |-> r.no_skip, frames |-> TRUE,
   skip_set |-> r.skip_set, skip_num |-> 0,
   plan_time |-> IF r.plan_time <= 0 THEN now ELSE r.plan_time,
   exec_time |-> 0, exec_state |-> "unset", real_repet |-> 0,
   plan_state |-> "none"]

-----------------------------------------------------------------------------
(* The next time.  check_next and what it calls decide one of               *)
(*    join   the message enters the time queue at its new plan_time         *)
(*    close  the plan has ended                                             *)
(*    error  the plan cannot be scheduled                                   *)
Outcome == [do : {"join", "close", "error"}, m : Message]

Join(m, t) == [do |-> "join", m |-> [m EXCEPT !.plan_time = t]]
Close(m)   == [do |-> "close", m |-> m]
Error(m)   == [do |-> "error", m |-> m]

CheckTime(m, now) ==
  IF m.real_repet > 0 THEN Close(m)
  ELSE IF m.no_skip THEN Join(m, m.plan_time)
  ELSE IF now > m.plan_time THEN Close([m EXCEPT !.skip_num = 1])
  ELSE Join(m, now)

(* The catch-up loop of check_delay: the first k >= 1 for which             *)
(* plan_time + k * plan_value is not in the past.                           *)
FirstDue(m, now) ==
  IF now <= m.plan_time + m.plan_value THEN 1
  ELSE (now - m.plan_time + m.plan_value - 1) \div m.plan_value

CheckDelay(m, now) ==
  LET k    == FirstDue(m, now)
      left == m.plan_repet - m.real_repet      \* slots the repeat count allows
  IN  IF m.plan_value <= 0 \/ m.plan_value > 32767 THEN Error(m)
      ELSE IF m.no_skip THEN Join(m, m.plan_time + m.plan_value)
      ELSE IF m.plan_repet < 0 \/ k <= left
      THEN Join([m EXCEPT !.skip_num = @ + k - 1],
                m.plan_time + k * m.plan_value)
      ELSE Close([m EXCEPT !.skip_num = IF left > 0 THEN @ + left ELSE @])

MutantWeek(m, now) ==      \* a plan due this second waits a week
  IF m.plan_value \notin 0..(Week - 1) THEN Error(m)
  ELSE Join(m, now + 1 + ((m.plan_value - now - 1) % Week))

(* check_week on a week of Week seconds: the first occurrence of the second *)
(* plan_value of the week that is not in the past.  PlanCalendar has the    *)
(* weekday arithmetic, and WeekAgrees that it comes to the same.            *)
CheckWeek(m, now) ==
  IF m.plan_value \notin 0..(Week - 1) THEN Error(m)
  ELSE Join(m, now + ((m.plan_value - now) % Week))

CheckNext(m, now) ==
  IF m.plan_repet = 0 \/ m.plan_time <= 0 \/ SkipsAll(m) THEN Error(m)
  ELSE CASE m.plan_type = "time"  -> CheckTime(m, now)
         [] m.plan_type = "delay" -> CheckDelay(m, now)
         [] m.plan_type = "week"  -> CheckWeek(m, now)
         [] m.plan_type = "none"  -> Error(m)

(* The state join_queue gives the message.                                  *)
JoinState(m) ==
  IF m.skip_set = 0 \/ (m.skip_set > 0 /\ m.skip_set < m.skip_num)
  THEN "queue" ELSE "skip"

(* exec_now passes a due plan over while its skip count is not used up.     *)
SkipsNow(m) == m.skip_set = -1 \/ (m.skip_set > 0 /\ m.skip_set > m.skip_num)

-----------------------------------------------------------------------------
(* save_message: the hash h after the save of kind k of the message m.  A   *)
(* hash that is not there is created with the fields the save writes.       *)
SaveKind == {"full", "exec", "plan", "res", "skip", "close"}

MutantSaved(h, m, k) ==    \* the save after a dispatch forgets exec_state
  IF k = "full" THEN [m EXCEPT !.frames = TRUE]
  ELSE [h EXCEPT !.plan_state = m.plan_state, !.skip_num = m.skip_num,
                 !.plan_time  = IF k = "plan" THEN m.plan_time ELSE @,
                 !.exec_state = IF k = "res" THEN m.exec_state ELSE @,
                 !.real_repet = IF k \in {"exec", "res"} THEN m.real_repet ELSE @]

Saved(h, m, k) ==
  IF k = "full" THEN [m EXCEPT !.frames = TRUE]
  ELSE [h EXCEPT
         !.plan_state = m.plan_state,
         !.skip_num   = m.skip_num,
         !.skip_set   = IF k \in {"plan", "exec", "res"} THEN m.skip_set ELSE @,
         !.plan_time  = IF k = "plan" THEN m.plan_time ELSE @,
         !.exec_time  = IF k \in {"exec", "res"} THEN m.exec_time ELSE @,
         !.exec_state = IF k \in {"exec", "res"} THEN m.exec_state ELSE @,
         !.real_repet = IF k \in {"exec", "res"} THEN m.real_repet ELSE @]
=============================================================================
