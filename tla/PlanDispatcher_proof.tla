----------------------- MODULE PlanDispatcher_proof -----------------------
(***************************************************************************)
(* Proofs about the plan dispatcher, for every set of plans, requests and   *)
(* commands and without any of the bounds TLC needs:                        *)
(*                                                                          *)
(*   TypeCorrect     Spec => []TypeOK                                       *)
(*                                                                          *)
(* TypeOK is inductive as it stands.  The lemmas say of each rule of        *)
(* PlanMessage what it returns and that it leaves real_repet alone, which   *)
(* PlanCount_proof needs too; the steps then follow from what a handler     *)
(* takes in hand (Take) and what Write makes of it.                         *)
(***************************************************************************)
EXTENDS PlanDispatcher, TLAPS

-----------------------------------------------------------------------------
(* The rules of PlanMessage.                                                *)

(* Single fields of a message: each operator changes one field, and Keeps   *)
(* says that a is a message that shows as many executions as m, and the     *)
(* same of the last one.                                                    *)
SkipSet(m, v)  == [m EXCEPT !.skip_set = v]
SkipNum(m, v)  == [m EXCEPT !.skip_num = v]
PlanTime(m, v) == [m EXCEPT !.plan_time = v]
ExecTime(m, v) == [m EXCEPT !.exec_time = v]
InState(m, v)  == [m EXCEPT !.plan_state = v]
Executed(m, v) == [m EXCEPT !.exec_state = v]
Repeated(m, v) == [m EXCEPT !.real_repet = v]

Keeps(a, m) ==
  a \in Message /\ a.real_repet = m.real_repet /\ a.exec_state = m.exec_state

LEMMA FieldType ==
  ASSUME NEW m \in Message
  PROVE  /\ \A v \in Int : /\ Keeps(SkipSet(m, v), m)
                           /\ Keeps(SkipNum(m, v), m)
                           /\ Keeps(PlanTime(m, v), m)
                           /\ Keeps(ExecTime(m, v), m)
         /\ \A v \in PlanState : Keeps(InState(m, v), m)
         /\ \A v \in ExecState : /\ Executed(m, v) \in Message
                                 /\ Executed(m, v).real_repet = m.real_repet
                                 /\ Executed(m, v).exec_state = v
         /\ \A v \in Nat : /\ Repeated(m, v) \in Message
                           /\ Repeated(m, v).real_repet = v
                           /\ Repeated(m, v).exec_state = m.exec_state
BY DEF Message, Keeps, SkipSet, SkipNum, PlanTime, ExecTime, InState,
       Executed, Repeated

(* The types of the fields that are read.                                   *)
LEMMA MessageFields ==
  ASSUME NEW m \in Message
  PROVE  /\ {m.plan_value, m.plan_repet, m.skip_set, m.skip_num, m.plan_time,
             m.exec_time} \subseteq Int
         /\ m.real_repet \in Nat
         /\ m.plan_type \in PlanType /\ m.plan_state \in PlanState
         /\ m.exec_state \in ExecState
BY DEF Message

(* The blank message is a message, and it counts no execution.              *)
LEMMA BlankType == Blank \in Message /\ Blank.real_repet = 0
BY DEF Blank, Message, PlanType, ExecState, PlanState

(* A new message is a message, and it counts no execution.                  *)
LEMMA NewMessageType ==
  ASSUME NEW r \in Request, NEW t \in Nat
  PROVE  NewMessage(r, t) \in Message /\ NewMessage(r, t).real_repet = 0
BY DEF NewMessage, Request, Message, ExecState, PlanState

(* A save changes fields of the hash, and real_repet only to the message's. *)
LEMMA SavedType ==
  ASSUME NEW h \in Message, NEW m \in Message, NEW k \in SaveKind
  PROVE  /\ Saved(h, m, k) \in Message
         /\ Saved(h, m, k).real_repet \in {h.real_repet, m.real_repet}
<1>1. CASE k = "full"
  BY <1>1 DEF Saved, Message
<1>2. CASE k # "full"
  BY <1>2 DEF Saved, Message
<1> QED BY <1>1, <1>2

-----------------------------------------------------------------------------
(* The next time.                                                           *)

(* The three outcomes on a message that keeps the count of m.               *)
LEMMA OutcomeType ==
  ASSUME NEW m \in Message, NEW a, Keeps(a, m)
  PROVE  /\ Close(a) \in Outcome /\ Keeps(Close(a).m, m)
         /\ Error(a) \in Outcome /\ Keeps(Error(a).m, m)
         /\ \A t \in Int : Join(a, t) \in Outcome /\ Keeps(Join(a, t).m, m)
<1>1. \A t \in Int : Keeps(PlanTime(a, t), m)
  BY FieldType DEF Keeps
<1>2. \A t \in Int : Join(a, t) = [do |-> "join", m |-> PlanTime(a, t)]
  BY DEF Join, PlanTime
<1> QED BY <1>1, <1>2 DEF Keeps, Close, Error, Outcome

LEMMA CheckTimeType ==
  ASSUME NEW m \in Message, NEW t \in Nat
  PROVE  CheckTime(m, t) \in Outcome /\ Keeps(CheckTime(m, t).m, m)
<1>1. Keeps(m, m) /\ Keeps(SkipNum(m, 1), m)
  BY FieldType DEF Keeps
<1>2. CheckTime(m, t) \in {Close(m), Join(m, m.plan_time), Join(m, t),
                           Close(SkipNum(m, 1))}
  BY DEF CheckTime, SkipNum
<1>3. m.plan_time \in Int
  BY MessageFields
<1>4. \A a \in {m, SkipNum(m, 1)} :
        /\ Close(a) \in Outcome /\ Keeps(Close(a).m, m)
        /\ \A u \in Int : Join(a, u) \in Outcome /\ Keeps(Join(a, u).m, m)
  BY <1>1, OutcomeType
<1> QED BY <1>2, <1>3, <1>4

(* The catch-up loop of check_delay counts whole delays.                    *)
LEMMA FirstDueType ==
  ASSUME NEW m \in Message, NEW t \in Nat, m.plan_value > 0
  PROVE  FirstDue(m, t) \in Int
BY DEF FirstDue, Message

LEMMA CheckDelayType ==
  ASSUME NEW m \in Message, NEW t \in Nat
  PROVE  CheckDelay(m, t) \in Outcome /\ Keeps(CheckDelay(m, t).m, m)
<1> DEFINE k    == FirstDue(m, t)
           left == m.plan_repet - m.real_repet
           late == IF left > 0 THEN m.skip_num + left ELSE m.skip_num
           next == m.plan_time + k * m.plan_value
<1>1. Keeps(m, m)
  BY DEF Keeps
<1>2. CheckDelay(m, t) =
        IF m.plan_value <= 0 \/ m.plan_value > 32767 THEN Error(m)
        ELSE IF m.no_skip THEN Join(m, m.plan_time + m.plan_value)
        ELSE IF m.plan_repet < 0 \/ k <= left
        THEN Join(SkipNum(m, m.skip_num + k - 1), next)
        ELSE Close(SkipNum(m, late))
  BY DEF CheckDelay, SkipNum
<1>3. Error(m) \in Outcome /\ Keeps(Error(m).m, m)
  BY <1>1, OutcomeType
<1>4. CASE m.plan_value > 0
  <2>1. k \in Int
    BY <1>4, FirstDueType
  <2>2. /\ m.plan_time + m.plan_value \in Int
        /\ m.skip_num + k - 1 \in Int
        /\ left \in Int
    BY <2>1, MessageFields
  <2>3. late \in Int /\ next \in Int
    <3> HIDE DEF k, left
    <3> QED BY <2>1, <2>2, MessageFields
  <2> HIDE DEF k, left, late, next
  <2>4. /\ Keeps(SkipNum(m, m.skip_num + k - 1), m)
        /\ Keeps(SkipNum(m, late), m)
    BY <2>2, <2>3, FieldType
  <2>5. /\ Join(m, m.plan_time + m.plan_value) \in Outcome
        /\ Keeps(Join(m, m.plan_time + m.plan_value).m, m)
    BY <1>1, <2>2, OutcomeType
  <2>6. /\ Join(SkipNum(m, m.skip_num + k - 1), next) \in Outcome
        /\ Keeps(Join(SkipNum(m, m.skip_num + k - 1), next).m, m)
    BY <2>3, <2>4, OutcomeType
  <2>7. /\ Close(SkipNum(m, late)) \in Outcome
        /\ Keeps(Close(SkipNum(m, late)).m, m)
    BY <2>4, OutcomeType
  <2>8. CheckDelay(m, t) \in {Error(m), Join(m, m.plan_time + m.plan_value),
                             Join(SkipNum(m, m.skip_num + k - 1), next),
                             Close(SkipNum(m, late))}
    BY <1>2
  <2> QED BY <1>3, <2>5, <2>6, <2>7, <2>8
<1>5. CASE m.plan_value <= 0
  <2> HIDE DEF k, left, late, next
  <2>1. CheckDelay(m, t) = Error(m)
    BY <1>2, <1>5
  <2> QED BY <1>3, <2>1
<1> QED BY <1>4, <1>5, MessageFields

LEMMA CheckWeekType ==
  ASSUME NEW m \in Message, NEW t \in Nat
  PROVE  CheckWeek(m, t) \in Outcome /\ Keeps(CheckWeek(m, t).m, m)
<1> DEFINE next == t + ((m.plan_value - t) % Week)
<1>1. next \in Int
  BY WeekAssumption, MessageFields
<1>2. CheckWeek(m, t) \in {Join(m, next), Error(m)}
  BY DEF CheckWeek
<1> HIDE DEF next
<1>3. Keeps(m, m)
  BY DEF Keeps
<1> QED BY <1>1, <1>2, <1>3, OutcomeType

(* check_next returns an outcome and leaves the count alone.                *)
LEMMA CheckNextType ==
  ASSUME NEW m \in Message, NEW t \in Nat
  PROVE  CheckNext(m, t) \in Outcome /\ Keeps(CheckNext(m, t).m, m)
<1>1. Keeps(m, m)
  BY DEF Keeps
<1>2. Error(m) \in Outcome /\ Keeps(Error(m).m, m)
  BY <1>1, OutcomeType
<1>3. m.plan_type \in PlanType
  BY MessageFields
<1>4. CheckNext(m, t) \in {Error(m), CheckTime(m, t), CheckDelay(m, t),
                           CheckWeek(m, t)}
  BY <1>3 DEF CheckNext, PlanType
<1> QED BY <1>2, <1>4, CheckTimeType, CheckDelayType, CheckWeekType

-----------------------------------------------------------------------------
(* What the handlers make of a message.                                     *)

(* An effect is a message and writes; EffectOn(m) are those that keep the   *)
(* count of m.                                                              *)
Effects     == [m : Message, ops : Seq(Op)]
EffectOn(m) == {e \in Effects : Keeps(e.m, m)}

LEMMA EffectType ==
  ASSUME NEW m \in Message, NEW a, Keeps(a, m), NEW ops \in Seq(Op)
  PROVE  Effect(a, ops) \in EffectOn(m)
BY DEF Effect, Effects, EffectOn, Keeps

(* pause(), close() and error() keep the count.                             *)
LEMMA EndsType ==
  ASSUME NEW m \in Message, NEW a, Keeps(a, m)
  PROVE  /\ PauseIt(a) \in EffectOn(m) /\ ErrorIt(a) \in EffectOn(m)
         /\ CloseIt(a) \in EffectOn(m)
<1>1. \A s \in {"pause", "error", "close"} : Keeps(InState(a, s), m)
  BY FieldType DEF Keeps, PlanState
<1>2. /\ <<"state", "zrem">> \in Seq(Op) /\ <<"close", "zrem">> \in Seq(Op)
      /\ <<"zrem", "close">> \in Seq(Op)
  BY DEF Op, SaveKind
<1>3. /\ PauseIt(a) = Effect(InState(a, "pause"), <<"state", "zrem">>)
      /\ ErrorIt(a) = Effect(InState(a, "error"), <<"close", "zrem">>)
      /\ CloseIt(a) = Effect(InState(a, "close"), <<"zrem", "close">>)
  BY DEF PauseIt, ErrorIt, CloseIt, InState
<1> QED BY <1>1, <1>2, <1>3, EffectType

(* So does the local call of check_next with what follows from it, ...      *)
LEMMA CheckedType ==
  ASSUME NEW m \in Message, NEW t \in Nat
  PROVE  Checked(m, t) \in EffectOn(m)
<1> DEFINE c == CheckNext(m, t)
           j == Effect(InState(c.m, JoinState(c.m)), <<"join", "plan">>)
<1>1. c \in Outcome /\ Keeps(c.m, m)
  BY CheckNextType
<1>2. Checked(m, t) = CASE c.do = "join"  -> j
                        [] c.do = "close" -> CloseIt(c.m)
                        [] c.do = "error" -> ErrorIt(c.m)
  BY DEF Checked, InState
<1>3. j \in EffectOn(m)
  <2> HIDE DEF c
  <2>1. JoinState(c.m) \in PlanState
    BY DEF JoinState, PlanState
  <2>2. Keeps(InState(c.m, JoinState(c.m)), m)
    BY <1>1, <2>1, FieldType DEF Keeps
  <2>3. <<"join", "plan">> \in Seq(Op)
    BY DEF Op, SaveKind
  <2> QED BY <2>2, <2>3, EffectType
<1>4. CloseIt(c.m) \in EffectOn(m) /\ ErrorIt(c.m) \in EffectOn(m)
  BY <1>1, EndsType
<1>5. c.do \in {"join", "close", "error"}
  BY <1>1 DEF Outcome
<1> HIDE DEF c, j
<1> QED BY <1>2, <1>3, <1>4, <1>5

(* ... and next(), up to that call.                                         *)
LEMMA NextTimeType ==
  ASSUME NEW m \in Message, NEW a, Keeps(a, m)
  PROVE  NextTime(a) \in EffectOn(m)
<1> DEFINE z == SkipNum(SkipSet(a, 0), 0)
<1>1. Keeps(z, m)
  <2>1. Keeps(SkipSet(a, 0), m)
    BY FieldType DEF Keeps
  <2> QED BY <2>1, FieldType DEF Keeps
<1>2. /\ <<"full", "check">> \in Seq(Op) /\ <<"skip", "check">> \in Seq(Op)
      /\ <<"check">> \in Seq(Op)
  BY DEF Op, SaveKind
<1>3. NextTime(a) \in {Effect(a, <<"full", "check">>), Effect(a, <<"check">>),
                       Effect(z, <<"skip", "check">>)}
  BY DEF NextTime, SkipNum, SkipSet
<1> HIDE DEF z
<1> QED BY <1>1, <1>2, <1>3, EffectType

(* on_plan_result counts one execution for the statuses that are one.       *)
LEMMA AnsweredType ==
  ASSUME NEW m \in Message, NEW s \in Status \ {"runing"}
  PROVE  /\ Answered(m, s) \in Effects
         /\ Answered(m, s).m.real_repet =
              IF Counts(s) THEN m.real_repet + 1 ELSE m.real_repet
         /\ Answered(m, s).m.exec_state = s
<1> DEFINE c == IF Counts(s) THEN m.real_repet + 1 ELSE m.real_repet
           n == Repeated(Executed(m, s), c)
           z == InState(SkipNum(SkipSet(n, -2), 1), "retry")
<1>1. c \in Nat
  BY MessageFields
<1>2. n \in Message /\ n.real_repet = c /\ n.exec_state = s
  <2> HIDE DEF c
  <2>1. Executed(m, s) \in Message /\ Executed(m, s).exec_state = s
    <3>1. s \in ExecState
      BY DEF ExecState
    <3> QED BY <3>1, FieldType
  <2> QED BY <1>1, <2>1, FieldType
<1>3. Answered(m, s) =
        CASE s = "wait"                     -> Effect(n, <<>>)
          [] s \in {"unfit", "bug"}         -> PauseIt(n)
          [] s \in {"ok", "fail"}           -> NextTime(n)
          [] s \in {"fault", "planerr"} ->
               IF n.skip_set = 0 THEN Effect(z, <<>>)
               ELSE IF n.skip_set = -2 /\ n.skip_num < 3
                    THEN Effect(n, <<>>)
                    ELSE PauseIt(n)
  BY DEF Answered, Repeated, Executed, SkipNum, SkipSet, InState
<1> HIDE DEF c, n
<1>4. Keeps(n, n) /\ Keeps(z, n)
  <2>1. Keeps(SkipSet(n, -2), n)
    BY <1>2, FieldType
  <2>2. Keeps(SkipNum(SkipSet(n, -2), 1), n)
    <3> DEFINE a == SkipSet(n, -2)
    <3>1. a \in Message
      BY <2>1 DEF Keeps
    <3> HIDE DEF a
    <3>2. Keeps(SkipNum(a, 1), a)
      BY <3>1, FieldType
    <3> QED BY <2>1, <3>2 DEF Keeps, a
  <2>3. "retry" \in PlanState
    BY DEF PlanState
  <2>4. Keeps(z, n)
    <3> DEFINE a == SkipNum(SkipSet(n, -2), 1)
    <3>1. a \in Message
      BY <2>2 DEF Keeps
    <3> HIDE DEF a
    <3>2. Keeps(InState(a, "retry"), a)
      BY <2>3, <3>1, FieldType
    <3> QED BY <2>2, <3>2 DEF Keeps, a
  <2>5. Keeps(n, n)
    BY <1>2 DEF Keeps
  <2> QED BY <2>4, <2>5
<1>5. /\ Effect(n, <<>>) \in EffectOn(n) /\ Effect(z, <<>>) \in EffectOn(n)
      /\ PauseIt(n) \in EffectOn(n) /\ NextTime(n) \in EffectOn(n)
  <2> HIDE DEF z
  <2>1. <<>> \in Seq(Op)
    OBVIOUS
  <2>2. Effect(n, <<>>) \in EffectOn(n) /\ Effect(z, <<>>) \in EffectOn(n)
    BY <1>2, <1>4, <2>1, EffectType
  <2> QED BY <1>2, <1>4, <2>2, EndsType, NextTimeType
<1>6. Answered(m, s) \in EffectOn(n)
  <2> HIDE DEF z
  <2>1. s \in {"wait", "unfit", "bug", "ok", "fail", "fault", "planerr"}
    BY DEF Status
  <2>2. Answered(m, s) \in {Effect(n, <<>>), PauseIt(n), NextTime(n), Effect(z, <<>>)}
    BY <1>3, <2>1
  <2> QED BY <1>5, <2>2
<1>7. /\ Answered(m, s) \in Effects /\ Answered(m, s).m.real_repet = n.real_repet
      /\ Answered(m, s).m.exec_state = n.exec_state
  BY <1>6 DEF EffectOn, Keeps
<1> QED BY <1>2, <1>7 DEF c

-----------------------------------------------------------------------------
(* What a thread takes in hand.                                             *)

LEMMA TakeType ==
  ASSUME HandType, NEW t \in Thread, NEW p \in Plans \cup {NoKey},
         NEW m \in Message, NEW ops \in Seq(Op),
         ops # <<>> => p \in Plans, Take(t, p, m, ops)
  PROVE  /\ HandType'
         /\ key'[t] = p /\ msg'[t] = m /\ todo'[t] = ops
         /\ \A u \in Thread \ {t} : /\ key'[u] = key[u] /\ msg'[u] = msg[u]
                                    /\ todo'[u] = todo[u]
BY DEF HandType, Take

LEMMA HoldType ==
  ASSUME HandType, NEW t \in Thread, NEW p \in Plans, NEW m \in Message,
         Take(t, p, m, <<>>)
  PROVE  HandType' /\ key'[t] = p /\ todo'[t] = <<>>
BY DEF HandType, Take

LEMMA DropType ==
  ASSUME HandType, NEW t \in Thread, Drop(t)
  PROVE  /\ HandType'
         /\ key'[t] = NoKey /\ msg'[t] = Blank /\ todo'[t] = <<>>
         /\ \A u \in Thread \ {t} : /\ key'[u] = key[u] /\ msg'[u] = msg[u]
                                    /\ todo'[u] = todo[u]
<1>1. <<>> \in Seq(Op)
  OBVIOUS
<1> QED BY <1>1, BlankType, TakeType DEF Drop

(* After its last write a thread lets go, otherwise it keeps plan and rest. *)
LEMMA AdvanceType ==
  ASSUME HandType, NEW t \in Thread, todo[t] # <<>>, NEW m \in Message,
         Advance(t, m)
  PROVE  /\ HandType'
         /\ \/ key'[t] = NoKey /\ msg'[t] = Blank
            \/ key'[t] = key[t] /\ msg'[t] = m
         /\ \A u \in Thread \ {t} : /\ key'[u] = key[u] /\ msg'[u] = msg[u]
                                    /\ todo'[u] = todo[u]
<1>1. key[t] \in Plans /\ Tail(todo[t]) \in Seq(Op)
  BY DEF HandType
<1>2. CASE Tail(todo[t]) = <<>>
  BY <1>2, DropType DEF Advance
<1>3. CASE Tail(todo[t]) # <<>>
  BY <1>1, <1>3, TakeType DEF Advance
<1> QED BY <1>2, <1>3

(* The plan being sent stays in hand while the other thread works.          *)
LEMMA PollKeeps ==
  ASSUME PollType, UNCHANGED <<pc, polled, batch>>,
         pc \in {"send", "recv"} =>
           key'["poll"] = key["poll"] /\ todo'["poll"] = todo["poll"]
  PROVE  PollType'
BY DEF PollType

LEMMA HashType ==
  ASSUME RedisType, NEW p \in Plans
  PROVE  /\ Hash(p) \in Message
         /\ Exists(p) => store[p] \in Message /\ Hash(p) = store[p]
         /\ ~Exists(p) => Hash(p) = Blank
BY BlankType DEF RedisType, Hash, Exists

-----------------------------------------------------------------------------
(* One redis write, or the local call between two of them.                  *)

LEMMA WriteType ==
  ASSUME TypeOK, NEW t \in Thread, Write(t)
  PROVE  TypeOK'
<1> USE DEF TypeOK
<1>1. /\ todo[t] # <<>> /\ key[t] \in Plans /\ msg[t] \in Message
      /\ todo[t] \in Seq(Op)
  BY DEF Write, HandType
<1>2. Hash(key[t]) \in Message
  BY <1>1, HashType
<1>3. CountType' /\ NetworkType'
  BY DEF Write, CountType, NetworkType, network, bounds, history
<1>4. ASSUME NEW k \in SaveKind, Save(t, k)
      PROVE  RedisType' /\ HandType'
  <2>1. Saved(Hash(key[t]), msg[t], k) \in Message
    BY <1>1, <1>2, SavedType
  <2>2. RedisType'
    BY <1>1, <1>4, <2>1 DEF Save, RedisType
  <2> QED BY <1>1, <1>4, <2>2, AdvanceType DEF Save
<1>5. ASSUME Check(t)
      PROVE  RedisType' /\ HandType'
  <2> DEFINE e == Checked(msg[t], now)
  <2>1. e \in EffectOn(msg[t])
    BY <1>1, CheckedType DEF CountType
  <2>2. Tail(todo[t]) \in Seq(Op)
    BY <1>1
  <2>3. Take(t, key[t], e.m, e.ops \o Tail(todo[t])) /\ UNCHANGED redis
    BY <1>5 DEF Check
  <2> HIDE DEF e
  <2>4. e.m \in Message /\ e.ops \o Tail(todo[t]) \in Seq(Op)
    BY <2>1, <2>2 DEF EffectOn, Effects
  <2>5. HandType'
    BY <1>1, <2>3, <2>4, TakeType
  <2> QED BY <2>3, <2>5 DEF redis, RedisType
<1>6. ASSUME Enqueue(t)
      PROVE  RedisType' /\ HandType'
  <2>1. msg[t].plan_time \in Int
    BY <1>1, MessageFields
  <2>2. RedisType'
    BY <1>1, <1>6, <2>1 DEF Enqueue, RedisType
  <2> QED BY <1>1, <1>6, <2>2, AdvanceType DEF Enqueue
<1>7. ASSUME Dequeue(t)
      PROVE  RedisType' /\ HandType'
  <2>1. RedisType'
    BY <1>1, <1>7 DEF Dequeue, RedisType, NotQueued
  <2> QED BY <1>1, <1>7, <2>1, AdvanceType DEF Dequeue
<1>8. ASSUME SetState(t)
      PROVE  RedisType' /\ HandType'
  <2> DEFINE m == msg[t]
             n == IF m.plan_state = "none" THEN InState(m, JoinState(m)) ELSE m
             h == InState(Hash(key[t]), m.plan_state)
  <2>1. /\ store' = [store EXCEPT ![key[t]] = h] /\ UNCHANGED queue
        /\ Advance(t, n)
    BY <1>8 DEF SetState, InState
  <2>2. JoinState(m) \in PlanState /\ m.plan_state \in PlanState
    BY <1>1, MessageFields DEF JoinState, PlanState
  <2>3. n \in Message
    BY <1>1, <2>2, FieldType DEF Keeps
  <2>4. h \in Message
    BY <1>2, <2>2, FieldType DEF Keeps
  <2> HIDE DEF m, n, h
  <2>5. RedisType'
    BY <1>1, <2>1, <2>4 DEF RedisType
  <2> QED BY <1>1, <2>1, <2>3, <2>5, AdvanceType
<1>9. ASSUME Delete(t)
      PROVE  RedisType' /\ HandType'
  <2>1. RedisType'
    BY <1>1, <1>9 DEF Delete, RedisType
  <2> QED BY <1>1, <1>9, <2>1, AdvanceType DEF Delete
<1>10. RedisType' /\ HandType'
  BY <1>4, <1>5, <1>6, <1>7, <1>8, <1>9 DEF Write
<1>11. PollType'
  <2>1. UNCHANGED <<pc, polled, batch>>
    BY DEF Write
  <2>2. CASE t = "poll"
    BY <1>1, <2>1, <2>2 DEF PollType
  <2>3. CASE t = "dispatch"
    <3>1. key'["poll"] = key["poll"] /\ todo'["poll"] = todo["poll"]
      BY <2>3 DEF Write, Save, Check, Enqueue, Dequeue, SetState, Delete,
                  Advance, Drop, Take, HandType, Thread
    <3> QED BY <2>1, <3>1, PollKeeps
  <2> QED BY <2>2, <2>3 DEF Thread
<1> QED BY <1>3, <1>10, <1>11

-----------------------------------------------------------------------------
(* The poll thread.                                                         *)

LEMMA ResultType ==
  ASSUME HandType, CountType, NEW t \in Thread, NEW p \in Plans,
         NEW m \in Message, NEW s \in Status \ {"runing"}, Result(t, p, m, s)
  PROVE  /\ HandType' /\ counted' \in [Plans -> Nat]
         /\ \A u \in Thread \ {t} : key'[u] = key[u] /\ todo'[u] = todo[u]
<1> DEFINE e == Answered(m, s)
<1>1. e \in Effects
  BY AnsweredType
<1>2. Take(t, p, e.m, e.ops \o <<"res">>)
  BY DEF Result
<1>3. counted' \in [Plans -> Nat]
  BY DEF Result, CountType
<1> HIDE DEF e
<1>4. e.m \in Message /\ e.ops \o <<"res">> \in Seq(Op)
  BY <1>1 DEF Effects, Op, SaveKind
<1> QED BY <1>2, <1>3, <1>4, TakeType

LEMMA PollKeyType ==
  ASSUME TypeOK, NEW p \in Plans, PollKey(p)
  PROVE  TypeOK'
<1> USE DEF TypeOK
<1>1. RedisType' /\ NetworkType'
  BY DEF PollKey, redis, network, RedisType, NetworkType
<1>2. polled' \in Nat /\ batch' \in SUBSET Plans
  BY DEF PollKey, PollType
<1>3. CASE PassOver(p) /\ UNCHANGED again
  BY <1>1, <1>2, <1>3
     DEF PassOver, PollKey, HandType, PollType, CountType, bounds
<1>4. CASE PollSave(p) /\ UNCHANGED again
  <2> DEFINE m == store[p]
             n == SkipNum(m, m.skip_num + 1)
  <2>1. m \in Message
    BY <1>4, HashType DEF PollSave, Whole
  <2>2. Keeps(n, m) /\ Keeps(m, m)
    <3> HIDE DEF m
    <3>1. m.skip_num + 1 \in Int
      BY <2>1, MessageFields
    <3>2. Keeps(n, m)
      BY <2>1, <3>1, FieldType
    <3> QED BY <2>1, <3>2 DEF Keeps
  <2>3. \/ Take("poll", p, n, <<"skip">>)
        \/ Take("poll", p, ErrorIt(m).m, ErrorIt(m).ops)
        \/ Take("poll", p, NextTime(n).m, NextTime(n).ops)
    BY <1>4 DEF PollSave, SkipNum
  <2> HIDE DEF m, n
  <2>4. ErrorIt(m) \in Effects /\ NextTime(n) \in Effects
    BY <2>1, <2>2, EndsType, NextTimeType DEF EffectOn
  <2>5. <<"skip">> \in Seq(Op) /\ n \in Message
    BY <2>2 DEF Op, SaveKind, Keeps
  <2>6. HandType'
    BY <2>3, <2>4, <2>5, TakeType DEF Effects, Thread
  <2>7. pc' = "scan"
    BY <1>4 DEF PollSave, PollKey
  <2> QED BY <1>1, <1>2, <1>4, <2>6, <2>7 DEF PollType, CountType, PollKey, bounds
<1>5. CASE PollExecute(p)
  <2> DEFINE m == store[p]
             r == SkipNum(SkipSet(m, -2), 1)
             n == SkipNum(m, m.skip_num + 1)
             x == IF m.exec_state = "runing" THEN r
                  ELSE IF m.skip_set = -2 THEN n ELSE m
             y == ExecTime(InState(x, "execute"), now)
  <2>1. m \in Message
    BY <1>5, HashType DEF PollExecute, Whole
  <2>2. Take("poll", p, y, <<>>)
    BY <1>5 DEF PollExecute, SkipNum, SkipSet, ExecTime, InState
  <2>3. r \in Message
    <3>1. SkipSet(m, -2) \in Message
      BY <2>1, FieldType DEF Keeps
    <3> QED BY <3>1, FieldType DEF Keeps
  <2>4. n \in Message
    BY <2>1, FieldType, MessageFields DEF Keeps
  <2>5. x \in Message
    BY <2>1, <2>3, <2>4
  <2>6. y \in Message
    <3> HIDE DEF x
    <3>1. "execute" \in PlanState /\ now \in Int
      BY DEF PlanState, CountType
    <3>2. InState(x, "execute") \in Message
      BY <2>5, <3>1, FieldType DEF Keeps
    <3> QED BY <3>1, <3>2, FieldType DEF Keeps
  <2> HIDE DEF m, y
  <2>7. /\ HandType' /\ key'["poll"] = p /\ todo'["poll"] = <<>>
    BY <2>2, <2>6, HoldType DEF Thread
  <2>8. pc' = "send" /\ again' \in Nat
    <3>1. again' = again + 1 \/ again' = again
      BY <1>5 DEF PollExecute
    <3> QED BY <1>5, <3>1 DEF PollExecute, CountType
  <2> QED BY <1>1, <1>2, <2>7, <2>8 DEF PollType, CountType, PollKey, bounds
<1> QED BY <1>3, <1>4, <1>5 DEF PollKey

LEMMA SendType ==
  ASSUME TypeOK, Send
  PROVE  TypeOK'
<1> USE DEF TypeOK
<1>1. key["poll"] \in Plans /\ msg["poll"] \in Message
  BY DEF Send, PollType, HandType, Thread
<1>2. RedisType' /\ polled' \in Nat /\ batch' \in SUBSET Plans
  BY DEF Send, redis, RedisType, PollType
<1>3. CASE /\ requests' = Append(requests, key["poll"]) /\ pc' = "recv"
           /\ slot' = [slot EXCEPT ![key["poll"]] = msg["poll"].plan_time]
           /\ UNCHANGED <<key, msg, todo, counted>>
  <2>1. msg["poll"].plan_time \in Int
    BY <1>1, MessageFields
  <2>2. CountType'
    BY <1>1, <1>3, <2>1 DEF Send, CountType, bounds
  <2>3. NetworkType'
    BY <1>1, <1>3 DEF Send, NetworkType
  <2>4. HandType' /\ PollType'
    BY <1>2, <1>3 DEF Send, PollType, HandType
  <2> QED BY <1>2, <2>2, <2>3, <2>4
<1>4. ASSUME NEW s \in SendOutcomes \ {"sent"},
             Result("poll", key["poll"], msg["poll"], s), pc' = "scan",
             UNCHANGED <<requests, slot>>
      PROVE  TypeOK'
  <2>1. s \in Status \ {"runing"}
    BY DispatcherAssumption DEF Status
  <2>2. HandType' /\ counted' \in [Plans -> Nat]
    BY <1>1, <1>4, <2>1, ResultType DEF Thread
  <2> QED BY <1>2, <1>4, <2>2 DEF Send, NetworkType, PollType, CountType, bounds
<1> QED BY <1>3, <1>4 DEF Send

LEMMA ReceiveType ==
  ASSUME TypeOK, Receive \/ ReceiveTimesOut
  PROVE  TypeOK'
<1> USE DEF TypeOK
<1>1. key["poll"] \in Plans /\ msg["poll"] \in Message
  BY DEF Receive, ReceiveTimesOut, PollType, HandType, Thread
<1>2. RedisType' /\ PollType'
  BY DEF Receive, ReceiveTimesOut, redis, RedisType, PollType
<1>3. CASE Receive
  <2>1. Head(replies) \in Answers /\ Tail(replies) \in Seq(Answers)
    BY <1>3 DEF Receive, NetworkType
  <2>2. NetworkType'
    BY <1>3, <2>1 DEF Receive, NetworkType
  <2>3. HandType' /\ counted' \in [Plans -> Nat]
    <3>1. CASE Head(replies) = "runing"
      <4> DEFINE x == Executed(msg["poll"], "runing")
      <4>1. Take("poll", key["poll"], x, <<"exec">>) /\ UNCHANGED counted
        BY <1>3, <3>1 DEF Receive, Executed
      <4>2. x \in Message
        <5>1. "runing" \in ExecState
          BY DEF ExecState, Status
        <5> QED BY <1>1, <5>1, FieldType DEF Keeps
      <4>3. <<"exec">> \in Seq(Op)
        BY DEF Op, SaveKind
      <4> HIDE DEF x
      <4> QED BY <1>1, <4>1, <4>2, <4>3, TakeType DEF Thread, CountType
    <3>2. CASE Head(replies) # "runing"
      <4>1. Head(replies) \in Status \ {"runing"}
        BY <2>1, <3>2, DispatcherAssumption DEF Status
      <4>2. Result("poll", key["poll"], msg["poll"], Head(replies))
        BY <1>3, <3>2 DEF Receive
      <4> QED BY <1>1, <4>1, <4>2, ResultType DEF Thread
    <3> QED BY <3>1, <3>2
  <2> QED BY <1>2, <1>3, <2>2, <2>3 DEF Receive, CountType, bounds
<1>4. CASE ReceiveTimesOut
  <2>1. "fault" \in Status \ {"runing"}
    BY DEF Status
  <2>2. HandType' /\ counted' \in [Plans -> Nat]
    BY <1>1, <1>4, <2>1, ResultType DEF ReceiveTimesOut, Thread
  <2> QED BY <1>2, <1>4, <2>2
          DEF ReceiveTimesOut, NetworkType, network, CountType
<1> QED BY <1>3, <1>4

-----------------------------------------------------------------------------
(* The station and its workers.                                             *)

LEMMA StationType ==
  ASSUME TypeOK, \/ StationAnswers
                 \/ \E p \in Plans, s \in Reports : WorkerReports(p, s)
                 \/ \E p \in Plans : JobLost(p)
  PROVE  TypeOK'
<1> USE DEF TypeOK
<1>1. RedisType' /\ HandType' /\ PollType'
  BY DEF StationAnswers, WorkerReports, JobLost, redis, threads, RedisType,
         HandType, PollType
<1>2. CASE StationAnswers
  <2>1. Head(requests) \in Plans /\ Tail(requests) \in Seq(Plans)
    BY <1>2 DEF StationAnswers, NetworkType
  <2>2. PICK s \in Answers :
          /\ replies' = Append(replies, s)
          /\ IF s = "runing"
             THEN /\ jobs' = [jobs EXCEPT ![Head(requests)] = @ + 1]
                  /\ ran' = ran + 1
             ELSE UNCHANGED <<jobs, ran>>
    BY <1>2 DEF StationAnswers
  <2>3. replies' \in Seq(Answers)
    BY <2>2 DEF NetworkType
  <2>4. jobs' \in [Plans -> Nat] /\ ran' \in Nat
    <3>1. CASE s = "runing"
      <4>1. jobs' \in [Plans -> Nat]
        BY <2>1, <2>2, <3>1 DEF NetworkType
      <4>2. ran' \in Nat
        BY <2>2, <3>1 DEF CountType
      <4> QED BY <4>1, <4>2
    <3>2. CASE s # "runing"
      BY <2>2, <3>2 DEF NetworkType, CountType
    <3> QED BY <3>1, <3>2
  <2> QED BY <1>1, <1>2, <2>1, <2>3, <2>4
          DEF StationAnswers, NetworkType, CountType, bounds
<1>3. ASSUME NEW p \in Plans, NEW s \in Reports, WorkerReports(p, s)
      PROVE  TypeOK'
  <2>1. results' \in [Plans -> [Reports -> Nat]]
    BY <1>3 DEF WorkerReports, NetworkType
  <2>2. jobs' \in [Plans -> Nat] /\ others' \in Nat
    <3>1. CASE s = "wait"
      <4>1. jobs' = jobs /\ others' = others + 1
        BY <1>3, <3>1 DEF WorkerReports
      <4>2. others' \in Nat
        BY <4>1 DEF CountType
      <4> QED BY <4>1, <4>2 DEF NetworkType
    <3>2. CASE s # "wait"
      <4>1. jobs' = [jobs EXCEPT ![p] = @ - 1] /\ others' = others
        BY <1>3, <3>2 DEF WorkerReports
      <4>2. jobs[p] \in Nat /\ jobs[p] > 0
        BY <1>3 DEF WorkerReports, NetworkType
      <4>3. jobs' \in [Plans -> Nat]
        BY <4>1, <4>2 DEF NetworkType
      <4> QED BY <4>1, <4>3 DEF CountType
    <3> QED BY <3>1, <3>2
  <2> QED BY <1>1, <1>3, <2>1, <2>2
          DEF WorkerReports, NetworkType, CountType, history
<1>4. ASSUME NEW p \in Plans, JobLost(p)
      PROVE  TypeOK'
  <2>1. /\ jobs' = [jobs EXCEPT ![p] = @ - 1] /\ others' = others + 1
        /\ UNCHANGED <<now, requests, replies, results, missed, crashes, history>>
    BY <1>4 DEF JobLost
  <2>2. jobs[p] \in Nat /\ jobs[p] > 0
    BY <1>4 DEF JobLost, NetworkType
  <2>3. NetworkType'
    BY <2>1, <2>2 DEF NetworkType
  <2>4. CountType'
    BY <2>1 DEF CountType, history
  <2> QED BY <1>1, <2>3, <2>4
<1> QED BY <1>2, <1>3, <1>4

-----------------------------------------------------------------------------
(* The dispatcher thread.                                                   *)

(* Its handlers leave the poll thread alone.                                *)
LEMMA DispatchKeeps ==
  ASSUME PollType, UNCHANGED <<pc, polled, batch>>,
         key'["poll"] = key["poll"], todo'["poll"] = todo["poll"]
  PROVE  PollType'
BY PollKeeps

LEMMA OnPlanStartType ==
  ASSUME TypeOK, NEW p \in Plans, NEW r \in Requests, OnPlanStart(p, r)
  PROVE  TypeOK'
<1> USE DEF TypeOK
<1> DEFINE m == NewMessage(r, now)
           e == NextTime(m)
<1>1. Take("dispatch", p, e.m, e.ops)
  BY DEF OnPlanStart
<1>2. m \in Message
  BY DispatcherAssumption, NewMessageType DEF CountType
<1> HIDE DEF m
<1>3. e \in Effects
  BY <1>2, NextTimeType DEF EffectOn, Keeps
<1> HIDE DEF e
<1>4. e.m \in Message /\ e.ops \in Seq(Op)
  BY <1>3 DEF Effects
<1>5. HandType' /\ key'["poll"] = key["poll"] /\ todo'["poll"] = todo["poll"]
  BY <1>1, <1>4, TakeType DEF Thread
<1>6. PollType'
  BY <1>5, DispatchKeeps DEF OnPlanStart
<1> QED BY <1>5, <1>6 DEF OnPlanStart, RedisType, redis, NetworkType, network,
                          CountType, bounds

LEMMA OnPlanResultType ==
  ASSUME TypeOK, NEW p \in Plans, NEW s \in Reports, OnPlanResult(p, s)
  PROVE  TypeOK'
<1> USE DEF TypeOK
<1>1. /\ HandType' /\ counted' \in [Plans -> Nat]
      /\ key'["poll"] = key["poll"] /\ todo'["poll"] = todo["poll"]
  <2>1. CASE Whole(p)
    <3>1. store[p] \in Message
      BY <2>1, HashType DEF Whole
    <3>2. s \in Status \ {"runing"}
      BY DispatcherAssumption
    <3>3. Result("dispatch", p, store[p], s)
      BY <2>1 DEF OnPlanResult
    <3> QED BY <3>1, <3>2, <3>3, ResultType DEF Thread
  <2>2. CASE ~Whole(p)
    BY <2>2, DropType DEF OnPlanResult, Thread, CountType
  <2> QED BY <2>1, <2>2
<1>2. PollType'
  BY <1>1, DispatchKeeps DEF OnPlanResult
<1>3. results' \in [Plans -> [Reports -> Nat]]
  BY DEF OnPlanResult, NetworkType
<1>4. again' \in Nat
  <2>1. Frees(p, s) \in {0, 1, 2} /\ again' = again + Frees(p, s)
    BY DEF Frees, OnPlanResult
  <2> QED BY <2>1 DEF CountType
<1> QED BY <1>1, <1>2, <1>3, <1>4 DEF OnPlanResult, RedisType, redis, NetworkType,
                                      CountType, bounds

(* A command takes a copy in hand whose count is that of the hash.          *)
LEMMA CommandTakes ==
  ASSUME TypeOK, NEW p \in Plans, OnCommand(p)
  PROVE  /\ store[p] \in Message
         /\ \E m \in Message, ops \in Seq(Op) :
              Take("dispatch", p, m, ops) /\ Keeps(m, store[p])
<1> DEFINE m == store[p]
<1>1. m \in Message
  BY HashType DEF OnCommand, Whole, TypeOK
<1> HIDE DEF m
<1>2. Keeps(m, m)
  BY <1>1 DEF Keeps
<1>10. PauseIt(m) \in EffectOn(m) /\ CloseIt(m) \in EffectOn(m)
  BY <1>1, <1>2, EndsType
<1>4. ASSUME NEW e \in EffectOn(m), Take("dispatch", p, e.m, e.ops)
      PROVE  \E n \in Message, ops \in Seq(Op) :
               Take("dispatch", p, n, ops) /\ Keeps(n, m)
  BY <1>4 DEF EffectOn, Effects
<1>5. CASE OnSkip(p)
  <2>1. Take("dispatch", p, SkipSet(m, SkipArg), <<"skip">>)
    BY <1>5 DEF OnSkip, SkipSet, m
  <2>2. Keeps(SkipSet(m, SkipArg), m)
    BY <1>1, DispatcherAssumption, FieldType
  <2>3. <<"skip">> \in Seq(Op) /\ SkipSet(m, SkipArg) \in Message
    BY <2>2 DEF Op, SaveKind, Keeps
  <2> QED BY <1>1, <2>1, <2>2, <2>3 DEF m
<1>6. CASE OnPause(p)
  <2>1. Take("dispatch", p, PauseIt(m).m, PauseIt(m).ops)
    BY <1>6 DEF OnPause, m
  <2> QED BY <1>1, <1>4, <1>10, <2>1 DEF m
<1>7. CASE OnClose(p)
  <2>1. Take("dispatch", p, CloseIt(m).m, CloseIt(m).ops)
    BY <1>7 DEF OnClose, m
  <2> QED BY <1>1, <1>4, <1>10, <2>1 DEF m
<1>8. CASE OnRemove(p)
  <2>1. <<"del">> \in Seq(Op)
    BY DEF Op
  <2> QED BY <1>1, <1>2, <1>8, <2>1 DEF OnRemove, m
<1>9. CASE OnReset(p)
  <2>1. Take("dispatch", p, InState(m, "none"), <<"state", "join", "plan">>)
    BY <1>9 DEF OnReset, InState, m
  <2>2. Keeps(InState(m, "none"), m)
    BY <1>1, FieldType DEF PlanState
  <2>3. <<"state", "join", "plan">> \in Seq(Op) /\ InState(m, "none") \in Message
    BY <2>2 DEF Op, SaveKind, Keeps
  <2> QED BY <1>1, <2>1, <2>2, <2>3 DEF m
<1> QED BY <1>5, <1>6, <1>7, <1>8, <1>9 DEF OnCommand

LEMMA OnCommandType ==
  ASSUME TypeOK, NEW p \in Plans, OnCommand(p)
  PROVE  TypeOK'
<1> USE DEF TypeOK
<1>1. PICK m \in Message, ops \in Seq(Op) : Take("dispatch", p, m, ops)
  BY CommandTakes
<1>2. HandType' /\ key'["poll"] = key["poll"] /\ todo'["poll"] = todo["poll"]
  BY <1>1, TakeType DEF Thread
<1>3. PollType'
  BY <1>2, DispatchKeeps DEF OnCommand
<1>4. others' \in Nat
  BY DEF OnCommand, CountType
<1> QED BY <1>2, <1>3, <1>4 DEF OnCommand, RedisType, redis, NetworkType,
                                network, CountType, history

-----------------------------------------------------------------------------
(* A crash.                                                                 *)

LEMMA RestartType ==
  ASSUME TypeOK, Restart, crashes' \in Nat
  PROVE  TypeOK'
<1> USE DEF TypeOK
<1>1. RedisType'
  BY DEF Restart, redis, RedisType
<1>2. HandType'
  BY BlankType DEF Restart, HandType
<1>3. PollType' /\ NetworkType'
  BY DEF Restart, PollType, NetworkType
<1>4. CountType'
  BY DEF Restart, CountType, history
<1> QED BY <1>1, <1>2, <1>3, <1>4

-----------------------------------------------------------------------------
(* Type correctness.                                                        *)

LEMMA InitType == Init => TypeOK
<1> SUFFICES ASSUME Init PROVE TypeOK
  OBVIOUS
<1>1. RedisType
  BY DEF Init, RedisType, NotQueued
<1>2. HandType
  BY BlankType DEF Init, HandType
<1>3. PollType /\ NetworkType
  BY DEF Init, PollType, NetworkType
<1>4. CountType
  BY DEF Init, CountType
<1> QED BY <1>1, <1>2, <1>3, <1>4 DEF TypeOK

LEMMA NextType == TypeOK /\ [Next]_vars => TypeOK'
<1> SUFFICES ASSUME TypeOK, [Next]_vars PROVE TypeOK'
  OBVIOUS
<1>1. CASE Tick
  BY <1>1 DEF TypeOK, Tick, RedisType, HandType, PollType, NetworkType,
              CountType, redis, threads, network, bounds, history
<1>2. CASE PollNext
  <2>1. CASE StartPoll
    BY <1>2, <2>1 DEF TypeOK, StartPoll, RedisType, HandType, PollType,
                      NetworkType, CountType, redis, network, bounds, history
  <2>2. CASE EndPoll
    BY <2>2 DEF TypeOK, EndPoll, RedisType, HandType, PollType,
                NetworkType, CountType, redis, network, bounds, history
  <2> QED BY <1>2, <2>1, <2>2, PollKeyType, SendType, ReceiveType, WriteType
          DEF PollNext, Thread
<1>3. CASE DispatchNext
  BY <1>3, WriteType, OnPlanResultType DEF DispatchNext, Thread
<1>4. CASE Crash \/ \E p \in Plans : ReadsNoFrame(p)
  <2>1. Restart /\ crashes' \in Nat
    BY <1>4 DEF Crash, ReadsNoFrame, TypeOK, CountType
  <2> QED BY <2>1, RestartType
<1>5. CASE UNCHANGED vars
  BY <1>5 DEF TypeOK, vars, RedisType, HandType, PollType, NetworkType,
              CountType, redis, threads, network, bounds, history
<1> QED BY <1>1, <1>2, <1>3, <1>4, <1>5, StationType, OnPlanStartType,
           OnCommandType DEF Next

(* Every state is well typed: the threads hold plans and messages, and no   *)
(* write is due without a plan to write (plan_dispatcher.cpp).              *)
THEOREM TypeCorrect == Spec => []TypeOK
<1> QED BY InitType, NextType, PTL DEF Spec
=============================================================================
