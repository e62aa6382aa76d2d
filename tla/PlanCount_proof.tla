-------------------------- MODULE PlanCount_proof --------------------------
(***************************************************************************)
(* What is counted of the plans, for every set of plans, requests and       *)
(* commands and without any of the bounds TLC needs:                        *)
(*                                                                          *)
(*   CountIsBacked     Spec => []CountBacked                                *)
(*   OverlapIsBounded  Spec => []OverlapBounded                             *)
(*                                                                          *)
(* CountBacked is inductive beside TypeOK.  It is about every copy of a     *)
(* message: the hash (HashBacked) and the copies of the threads             *)
(* (HandBacked).  A handler loads a copy from the hash or goes on with the  *)
(* one in hand, and a save writes real_repet from one of the two, so no     *)
(* copy can show what was not counted before.                               *)
(*                                                                          *)
(* OverlapBounded is not inductive: that an execution was handed out must   *)
(* be weighed against what the hash will say of its plan once the writes in *)
(* hand are made.  Ledger does that.  On one side are the executions handed *)
(* out, the requests on their way, the refusals not read yet and the saves  *)
(* the report in the dispatcher's hand still owes; on the other the plans   *)
(* that count as busy, the reasons there were to execute a plan again, and  *)
(* the answer that is awaited.  Chains says in which order a handler's      *)
(* writes come, Origins that nothing is in hand or in redis of a plan that  *)
(* was not handed in, and that a new plan is in nobody else's hand.         *)
(***************************************************************************)
EXTENDS PlanDispatcher_proof, FiniteSetTheorems, SequenceTheorems

HashBacked == \A p \in Plans : Exists(p) => store[p].real_repet <= counted[p]

HandBacked ==
  \A t \in Thread : key[t] \in Plans => msg[t].real_repet <= counted[key[t]]

Inv == TypeOK /\ HashBacked /\ HandBacked

(* The history counts never go down.                                        *)
MoreCounted == /\ counted' \in [Plans -> Nat]
               /\ \A p \in Plans : counted[p] <= counted'[p]

LEMMA InvBacked == Inv => CountBacked
BY DEF Inv, HashBacked, HandBacked, CountBacked

-----------------------------------------------------------------------------
LEMMA HashKeeps ==
  ASSUME TypeOK, HashBacked, UNCHANGED store, MoreCounted
  PROVE  HashBacked'
<1> SUFFICES ASSUME NEW p \in Plans, Exists(p)'
             PROVE  store'[p].real_repet <= counted'[p]
  BY DEF HashBacked
<1>1. Exists(p) /\ store'[p] = store[p]
  BY DEF Exists
<1>2. store[p].real_repet \in Nat
  BY <1>1, HashType, MessageFields DEF TypeOK
<1>3. store[p].real_repet <= counted[p] /\ counted[p] <= counted'[p]
  BY <1>1 DEF HashBacked, MoreCounted
<1>4. counted[p] \in Nat /\ counted'[p] \in Nat
  BY DEF TypeOK, CountType, MoreCounted
<1> HIDE DEF HashBacked, MoreCounted
<1> QED BY <1>1, <1>2, <1>3, <1>4

(* What a thread may have in hand after a step.                             *)
HandOf(t) == \/ key'[t] = key[t] /\ msg'[t].real_repet = msg[t].real_repet
             \/ msg'[t].real_repet = 0
             \/ key'[t] \in Plans /\ msg'[t].real_repet <= counted'[key'[t]]

LEMMA HandKeeps ==
  ASSUME TypeOK, HandBacked, MoreCounted, \A t \in Thread : HandOf(t)
  PROVE  HandBacked'
<1> SUFFICES ASSUME NEW t \in Thread, key'[t] \in Plans
             PROVE  msg'[t].real_repet <= counted'[key'[t]]
  BY DEF HandBacked
<1>1. counted'[key'[t]] \in Nat
  BY DEF MoreCounted
<1>2. CASE key'[t] = key[t] /\ msg'[t].real_repet = msg[t].real_repet
  <2>1. msg[t].real_repet <= counted[key[t]] /\ counted[key[t]] <= counted'[key[t]]
    BY <1>2 DEF HandBacked, MoreCounted
  <2>2. msg[t].real_repet \in Nat /\ counted[key[t]] \in Nat
    BY <1>2, MessageFields DEF TypeOK, HandType, CountType
  <2> QED BY <1>1, <1>2, <2>1, <2>2
<1> QED BY <1>1, <1>2 DEF HandOf

(* A step that changes neither copies nor counts keeps both.                *)
LEMMA NothingChanges ==
  ASSUME Inv, UNCHANGED <<store, key, msg, counted>>
  PROVE  HashBacked' /\ HandBacked'
BY DEF Inv, HashBacked, HandBacked, Exists

-----------------------------------------------------------------------------
(* on_plan_result counts on its copy exactly what it reports.               *)
LEMMA ResultBacked ==
  ASSUME Inv, NEW t \in Thread, NEW p \in Plans, NEW m \in Message,
         m.real_repet <= counted[p], NEW s \in Status \ {"runing"},
         Result(t, p, m, s), UNCHANGED store
  PROVE  HashBacked' /\ HandBacked'
<1> DEFINE e == Answered(m, s)
<1>1. TypeOK /\ counted \in [Plans -> Nat] /\ m.real_repet \in Nat
  BY MessageFields DEF Inv, TypeOK, CountType
<1>2. e \in Effects
  BY AnsweredType
<1>3. e.m.real_repet = IF Counts(s) THEN m.real_repet + 1 ELSE m.real_repet
  BY AnsweredType
<1>4. Take(t, p, e.m, e.ops \o <<"res">>)
  BY DEF Result
<1>5. counted' = [counted EXCEPT ![p] = IF Counts(s) THEN @ + 1 ELSE @]
  BY DEF Result
<1> HIDE DEF e
<1>6. MoreCounted
  <2>1. CASE Counts(s)
    BY <1>1, <1>5, <2>1 DEF MoreCounted
  <2>2. CASE ~Counts(s)
    BY <1>1, <1>5, <2>2 DEF MoreCounted
  <2> QED BY <2>1, <2>2
<1>7. e.m.real_repet <= counted'[p]
  <2>1. CASE Counts(s)
    BY <1>1, <1>3, <1>5, <2>1
  <2>2. CASE ~Counts(s)
    BY <1>1, <1>3, <1>5, <2>2
  <2> QED BY <2>1, <2>2
<1>8. e.m \in Message /\ e.ops \o <<"res">> \in Seq(Op)
  BY <1>2 DEF Effects, Op, SaveKind
<1>9. /\ key'[t] = p /\ msg'[t] = e.m
      /\ \A u \in Thread \ {t} : key'[u] = key[u] /\ msg'[u] = msg[u]
  <2> DEFINE ops == e.ops \o <<"res">>
  <2>1. Take(t, p, e.m, ops) /\ ops \in Seq(Op) /\ e.m \in Message
    BY <1>4, <1>8
  <2>2. HandType
    BY <1>1 DEF TypeOK
  <2> HIDE DEF ops
  <2> QED BY <2>1, <2>2, TakeType
<1>10. \A u \in Thread : HandOf(u)
  BY <1>7, <1>9 DEF HandOf
<1> QED BY <1>1, <1>6, <1>10, HashKeeps, HandKeeps DEF Inv

(* A thread takes a copy that counts no more than the hash it was loaded    *)
(* from, or nothing.                                                        *)
LEMMA TakeBacked ==
  ASSUME Inv, NEW t \in Thread, NEW p \in Plans, NEW m \in Message,
         NEW ops \in Seq(Op), Take(t, p, m, ops), m.real_repet <= counted[p],
         UNCHANGED <<store, counted>>
  PROVE  HashBacked' /\ HandBacked'
<1>1. MoreCounted /\ TypeOK
  BY DEF MoreCounted, Inv, TypeOK, CountType
<1>2. /\ key'[t] = p /\ msg'[t] = m
      /\ \A u \in Thread \ {t} : key'[u] = key[u] /\ msg'[u] = msg[u]
  BY <1>1, TakeType DEF TypeOK
<1>3. \A u \in Thread : HandOf(u)
  BY <1>2 DEF HandOf
<1> QED BY <1>1, <1>3, HashKeeps, HandKeeps DEF Inv

LEMMA DropBacked ==
  ASSUME Inv, NEW t \in Thread, Drop(t), UNCHANGED <<store, counted>>
  PROVE  HashBacked' /\ HandBacked'
<1>1. MoreCounted /\ TypeOK
  BY DEF MoreCounted, Inv, TypeOK, CountType
<1>2. /\ msg'[t] = Blank
      /\ \A u \in Thread \ {t} : key'[u] = key[u] /\ msg'[u] = msg[u]
  BY <1>1, DropType DEF TypeOK
<1>3. \A u \in Thread : HandOf(u)
  BY <1>2, BlankType DEF HandOf
<1> QED BY <1>1, <1>3, HashKeeps, HandKeeps DEF Inv

-----------------------------------------------------------------------------
(* One redis write: the hash gets the count of the copy or keeps its own.   *)
LEMMA StoreBacked ==
  ASSUME Inv, NEW p \in Plans, NEW h \in Message \cup {NoHash},
         h # NoHash => h.real_repet <= counted[p],
         store' = [store EXCEPT ![p] = h], UNCHANGED counted
  PROVE  HashBacked'
<1>1. store \in [Plans -> Message \cup {NoHash}]
  BY DEF Inv, TypeOK, RedisType
<1> QED BY <1>1 DEF Inv, HashBacked, Exists

LEMMA WriteBacked ==
  ASSUME Inv, NEW t \in Thread, Write(t)
  PROVE  HashBacked' /\ HandBacked'
<1> DEFINE p == key[t]
           m == msg[t]
           h == Hash(p)
<1>1. /\ TypeOK /\ HandType /\ todo[t] # <<>> /\ p \in Plans /\ m \in Message
      /\ todo[t] \in Seq(Op)
  BY DEF Write, HandType, Inv, TypeOK
<1>2. m.real_repet <= counted[p] /\ counted[p] \in Nat
  BY <1>1 DEF Inv, HandBacked, TypeOK, CountType
<1>3. h \in Message /\ h.real_repet <= counted[p]
  <2>1. CASE Exists(p)
    BY <1>1, <2>1, HashType DEF Inv, HashBacked, TypeOK
  <2>2. CASE ~Exists(p)
    BY <1>1, <1>2, <2>2, HashType, BlankType DEF Inv, TypeOK
  <2> QED BY <2>1, <2>2
<1>4. UNCHANGED counted
  BY DEF Write, history
<1>5. MoreCounted
  BY <1>4 DEF MoreCounted, Inv, TypeOK, CountType
<1> HIDE DEF h
<1>6. ASSUME NEW n \in Message, n.real_repet = m.real_repet, Advance(t, n)
      PROVE  HandBacked'
  <2>1. /\ \/ key'[t] = NoKey /\ msg'[t] = Blank
           \/ key'[t] = key[t] /\ msg'[t] = n
        /\ \A u \in Thread \ {t} : key'[u] = key[u] /\ msg'[u] = msg[u]
    BY <1>1, <1>6, AdvanceType
  <2>2. \A u \in Thread : HandOf(u)
    BY <1>6, <2>1, BlankType DEF HandOf
  <2> QED BY <1>1, <1>5, <2>2, HandKeeps DEF Inv
<1>7. ASSUME NEW k \in SaveKind, Save(t, k)
      PROVE  HashBacked' /\ HandBacked'
  <2> DEFINE n == Saved(h, m, k)
  <2>1. n \in Message /\ n.real_repet \in {h.real_repet, m.real_repet}
    BY <1>1, <1>3, SavedType
  <2>2. store' = [store EXCEPT ![p] = n] /\ Advance(t, m)
    BY <1>7 DEF Save, h
  <2> HIDE DEF n
  <2>3. HashBacked'
    BY <1>1, <1>2, <1>3, <1>4, <2>1, <2>2, StoreBacked
  <2> QED BY <1>1, <1>6, <2>2, <2>3
<1>8. ASSUME Check(t)
      PROVE  HashBacked' /\ HandBacked'
  <2> DEFINE e == Checked(m, now)
             ops == e.ops \o Tail(todo[t])
  <2>1. e \in EffectOn(m)
    BY <1>1, CheckedType DEF TypeOK, CountType
  <2>2. Take(t, p, e.m, ops) /\ UNCHANGED store
    BY <1>8 DEF Check, redis
  <2>3. Tail(todo[t]) \in Seq(Op)
    BY <1>1
  <2> HIDE DEF e
  <2>4. e.m \in Message /\ ops \in Seq(Op) /\ e.m.real_repet = m.real_repet
    BY <2>1, <2>3 DEF EffectOn, Effects, Keeps
  <2> HIDE DEF ops
  <2> QED BY <1>1, <1>2, <1>4, <2>2, <2>4, TakeBacked
<1>9. ASSUME Enqueue(t) \/ Dequeue(t)
      PROVE  HashBacked' /\ HandBacked'
  <2>1. UNCHANGED store /\ Advance(t, m)
    BY <1>9 DEF Enqueue, Dequeue
  <2>2. HashBacked'
    BY <1>1, <1>5, <2>1, HashKeeps DEF Inv
  <2> QED BY <1>1, <1>6, <2>1, <2>2
<1>10. ASSUME SetState(t)
      PROVE  HashBacked' /\ HandBacked'
  <2> DEFINE n == IF m.plan_state = "none" THEN InState(m, JoinState(m)) ELSE m
             g == InState(h, m.plan_state)
  <2>1. store' = [store EXCEPT ![p] = g] /\ Advance(t, n)
    BY <1>10 DEF SetState, InState, h
  <2>2. JoinState(m) \in PlanState /\ m.plan_state \in PlanState
    BY <1>1, MessageFields DEF JoinState, PlanState
  <2>3. n \in Message /\ n.real_repet = m.real_repet
    BY <1>1, <2>2, FieldType DEF Keeps
  <2>4. g \in Message /\ g.real_repet = h.real_repet
    BY <1>3, <2>2, FieldType DEF Keeps
  <2> HIDE DEF m, n, g
  <2>5. HashBacked'
    BY <1>1, <1>3, <1>4, <2>1, <2>4, StoreBacked
  <2> QED BY <1>6, <2>1, <2>3, <2>5
<1>11. ASSUME Delete(t)
      PROVE  HashBacked' /\ HandBacked'
  <2>1. store' = [store EXCEPT ![p] = NoHash] /\ Advance(t, m)
    BY <1>11 DEF Delete
  <2>2. HashBacked'
    BY <1>1, <1>4, <2>1, StoreBacked
  <2> QED BY <1>1, <1>6, <2>1, <2>2
<1> QED BY <1>7, <1>8, <1>9, <1>10, <1>11 DEF Write

-----------------------------------------------------------------------------
(* The poll thread.                                                         *)

LEMMA PollKeyBacked ==
  ASSUME Inv, NEW p \in Plans, PollKey(p)
  PROVE  HashBacked' /\ HandBacked'
<1> DEFINE m == store[p]
<1>1. TypeOK /\ UNCHANGED <<store, counted>> /\ "poll" \in Thread
  BY DEF Inv, PollKey, redis, Thread
<1>2. ASSUME Exists(p)
      PROVE  m \in Message /\ m.real_repet <= counted[p]
  BY <1>2, HashType DEF Inv, TypeOK, HashBacked
<1> HIDE DEF m
<1>3. ASSUME NEW e, NEW a, Exists(p), Keeps(a, m), e \in EffectOn(a),
             Take("poll", p, e.m, e.ops)
      PROVE  HashBacked' /\ HandBacked'
  <2>1. e.m \in Message /\ e.ops \in Seq(Op) /\ e.m.real_repet <= counted[p]
    BY <1>2, <1>3 DEF EffectOn, Effects, Keeps
  <2> QED BY <1>1, <1>3, <2>1, TakeBacked
<1>4. CASE PassOver(p)
  BY <1>1, <1>4, NothingChanges DEF PassOver
<1>5. CASE PollSave(p)
  <2> DEFINE n == SkipNum(m, m.skip_num + 1)
  <2>1. Exists(p) /\ m \in Message
    BY <1>2, <1>5 DEF PollSave, Whole
  <2>2. \/ Take("poll", p, n, <<"skip">>)
        \/ Take("poll", p, ErrorIt(m).m, ErrorIt(m).ops)
        \/ Take("poll", p, NextTime(n).m, NextTime(n).ops)
    BY <1>5 DEF PollSave, SkipNum, m
  <2>3. Keeps(n, m) /\ Keeps(m, m)
    <3>1. m.skip_num + 1 \in Int
      BY <2>1, MessageFields
    <3>2. Keeps(n, m)
      BY <2>1, <3>1, FieldType
    <3> QED BY <2>1, <3>2 DEF Keeps
  <2> HIDE DEF n
  <2>4. Keeps(n, n) /\ n \in Message
    BY <2>3 DEF Keeps
  <2>5. ErrorIt(m) \in EffectOn(m) /\ NextTime(n) \in EffectOn(n)
    BY <2>1, <2>3, <2>4, EndsType, NextTimeType
  <2>6. CASE Take("poll", p, n, <<"skip">>)
    <3>1. <<"skip">> \in Seq(Op) /\ n.real_repet <= counted[p]
      BY <1>2, <2>1, <2>3 DEF Op, SaveKind, Keeps
    <3> QED BY <1>1, <2>4, <2>6, <3>1, TakeBacked
  <2> QED BY <1>3, <2>1, <2>2, <2>3, <2>5, <2>6
<1>6. CASE PollExecute(p)
  <2> DEFINE r == SkipNum(SkipSet(m, -2), 1)
             n == SkipNum(m, m.skip_num + 1)
             x == IF m.exec_state = "runing" THEN r
                  ELSE IF m.skip_set = -2 THEN n ELSE m
             y == ExecTime(InState(x, "execute"), now)
  <2>1. m \in Message /\ m.real_repet <= counted[p]
    BY <1>2, <1>6 DEF PollExecute, Whole
  <2>2. Take("poll", p, y, <<>>)
    BY <1>6 DEF PollExecute, SkipNum, SkipSet, ExecTime, InState, m
  <2>3. Keeps(r, m)
    <3> DEFINE a == SkipSet(m, -2)
    <3>1. Keeps(a, m)
      BY <2>1, FieldType
    <3> HIDE DEF a
    <3>2. Keeps(SkipNum(a, 1), a)
      BY <3>1, FieldType DEF Keeps
    <3> QED BY <3>1, <3>2 DEF Keeps, a
  <2>4. Keeps(n, m)
    <3>1. m.skip_num + 1 \in Int
      BY <2>1, MessageFields
    <3> QED BY <2>1, <3>1, FieldType
  <2>5. Keeps(x, m)
    <3> HIDE DEF r, n
    <3> QED BY <2>1, <2>3, <2>4 DEF Keeps
  <2>6. Keeps(y, m)
    <3> HIDE DEF x
    <3>1. "execute" \in PlanState /\ now \in Int
      BY <1>1 DEF PlanState, TypeOK, CountType
    <3>2. Keeps(InState(x, "execute"), m)
      BY <2>5, <3>1, FieldType DEF Keeps
    <3> QED BY <3>1, <3>2, FieldType DEF Keeps
  <2> HIDE DEF y
  <2>7. y \in Message /\ y.real_repet <= counted[p] /\ <<>> \in Seq(Op)
    BY <2>1, <2>6 DEF Keeps
  <2> QED BY <1>1, <2>2, <2>7, TakeBacked
<1> QED BY <1>4, <1>5, <1>6 DEF PollKey

LEMMA SendBacked ==
  ASSUME Inv, Send \/ Receive \/ ReceiveTimesOut
  PROVE  HashBacked' /\ HandBacked'
<1> DEFINE p == key["poll"]
           m == msg["poll"]
<1>1. TypeOK /\ UNCHANGED store /\ "poll" \in Thread
  BY DEF Inv, Send, Receive, ReceiveTimesOut, redis, Thread
<1>2. p \in Plans /\ m \in Message
  BY <1>1 DEF TypeOK, PollType, HandType, Send, Receive, ReceiveTimesOut
<1>3. m.real_repet <= counted[p]
  BY <1>1, <1>2 DEF Inv, HandBacked
<1> HIDE DEF p, m
<1>4. ASSUME NEW s \in Status \ {"runing"}, Result("poll", p, m, s)
      PROVE  HashBacked' /\ HandBacked'
  BY <1>1, <1>2, <1>3, <1>4, ResultBacked
<1>5. CASE Send
  <2>1. CASE UNCHANGED <<key, msg, todo, counted>>
    BY <1>1, <2>1, NothingChanges
  <2>2. ASSUME NEW s \in SendOutcomes \ {"sent"}, Result("poll", p, m, s)
        PROVE  HashBacked' /\ HandBacked'
    <3>1. s \in Status \ {"runing"}
      BY DispatcherAssumption DEF Status
    <3> QED BY <1>4, <2>2, <3>1
  <2> QED BY <1>5, <2>1, <2>2 DEF Send, p, m
<1>6. CASE Receive
  <2>1. CASE Head(replies) = "runing"
    <3> DEFINE x == Executed(m, "runing")
    <3>1. Take("poll", p, x, <<"exec">>) /\ UNCHANGED counted
      BY <1>6, <2>1 DEF Receive, Executed, p, m
    <3>2. "runing" \in ExecState /\ <<"exec">> \in Seq(Op)
      BY DEF ExecState, Status, Op, SaveKind
    <3>3. x \in Message /\ x.real_repet = m.real_repet
      BY <1>2, <3>2, FieldType
    <3> HIDE DEF x
    <3>4. x \in Message /\ x.real_repet <= counted[p]
      BY <1>3, <3>3
    <3> QED BY <1>1, <1>2, <3>1, <3>2, <3>4, TakeBacked
  <2>2. CASE Head(replies) # "runing"
    <3>1. Head(replies) \in Answers
      BY <1>1, <1>6 DEF Receive, TypeOK, NetworkType
    <3>2. Head(replies) \in Status \ {"runing"}
      BY <2>2, <3>1, DispatcherAssumption DEF Status
    <3>3. Result("poll", p, m, Head(replies))
      BY <1>6, <2>2 DEF Receive, p, m
    <3> QED BY <1>4, <3>2, <3>3
  <2> QED BY <2>1, <2>2
<1>7. CASE ReceiveTimesOut
  <2>1. "fault" \in Status \ {"runing"} /\ Result("poll", p, m, "fault")
    BY <1>7 DEF Status, ReceiveTimesOut, p, m
  <2> QED BY <1>4, <2>1
<1> QED BY <1>5, <1>6, <1>7

-----------------------------------------------------------------------------
(* The dispatcher thread.                                                   *)

LEMMA DispatchBacked ==
  ASSUME Inv, NEW p \in Plans,
         \/ \E r \in Requests : OnPlanStart(p, r)
         \/ \E s \in Reports : OnPlanResult(p, s)
         \/ OnCommand(p)
  PROVE  HashBacked' /\ HandBacked'
<1>1. /\ TypeOK /\ UNCHANGED store /\ "dispatch" \in Thread
      /\ counted[p] \in Nat
  BY DEF Inv, TypeOK, CountType, OnPlanStart, OnPlanResult, OnCommand, redis, Thread
<1>2. ASSUME NEW r \in Requests, OnPlanStart(p, r)
      PROVE  HashBacked' /\ HandBacked'
  <2> DEFINE n == NewMessage(r, now)
             e == NextTime(n)
  <2>1. Take("dispatch", p, e.m, e.ops) /\ UNCHANGED counted
    BY <1>2 DEF OnPlanStart
  <2>2. n \in Message /\ n.real_repet = 0
    BY <1>1, DispatcherAssumption, NewMessageType DEF TypeOK, CountType
  <2> HIDE DEF n
  <2>3. e \in EffectOn(n)
    BY <2>2, NextTimeType DEF Keeps
  <2> HIDE DEF e
  <2>4. e.m \in Message /\ e.ops \in Seq(Op) /\ e.m.real_repet <= counted[p]
    BY <1>1, <2>2, <2>3 DEF EffectOn, Effects, Keeps
  <2> QED BY <1>1, <2>1, <2>4, TakeBacked
<1>3. ASSUME NEW s \in Reports, OnPlanResult(p, s)
      PROVE  HashBacked' /\ HandBacked'
  <2>1. CASE Whole(p)
    <3>1. store[p] \in Message /\ store[p].real_repet <= counted[p]
      BY <1>1, <2>1, HashType DEF Whole, Inv, TypeOK, HashBacked
    <3>2. s \in Status \ {"runing"} /\ Result("dispatch", p, store[p], s)
      BY <1>3, <2>1, DispatcherAssumption DEF OnPlanResult
    <3> QED BY <1>1, <3>1, <3>2, ResultBacked
  <2>2. CASE ~Whole(p)
    <3>1. Drop("dispatch") /\ UNCHANGED counted
      BY <1>3, <2>2 DEF OnPlanResult
    <3> QED BY <1>1, <3>1, DropBacked
  <2> QED BY <2>1, <2>2
<1>4. ASSUME OnCommand(p)
      PROVE  HashBacked' /\ HandBacked'
  <2>1. PICK m \in Message, ops \in Seq(Op) :
          Take("dispatch", p, m, ops) /\ Keeps(m, store[p])
    BY <1>1, <1>4, CommandTakes
  <2>2. UNCHANGED counted /\ Exists(p)
    BY <1>4 DEF OnCommand, Whole, history
  <2>3. m.real_repet <= counted[p]
    BY <2>1, <2>2 DEF Keeps, Inv, HashBacked
  <2> QED BY <1>1, <2>1, <2>2, <2>3, TakeBacked
<1> QED BY <1>2, <1>3, <1>4

-----------------------------------------------------------------------------
LEMMA RestartBacked ==
  ASSUME Inv, Restart
  PROVE  HashBacked' /\ HandBacked'
<1>1. TypeOK /\ MoreCounted /\ UNCHANGED store
  BY DEF Inv, TypeOK, CountType, MoreCounted, Restart, redis, history
<1>2. \A t \in Thread : HandOf(t)
  BY BlankType DEF Restart, HandOf
<1> QED BY <1>1, <1>2, HashKeeps, HandKeeps DEF Inv

LEMMA InitBacked == Init => Inv
<1> SUFFICES ASSUME Init PROVE Inv
  OBVIOUS
<1>1. HashBacked
  BY DEF Init, HashBacked, Exists
<1>2. HandBacked
  BY BlankType DEF Init, HandBacked
<1> QED BY <1>1, <1>2, InitType DEF Inv

LEMMA NextBacked == Inv /\ [Next]_vars => Inv'
<1> SUFFICES ASSUME Inv, [Next]_vars PROVE HashBacked' /\ HandBacked'
  BY NextType DEF Inv
<1>1. CASE Tick
  BY <1>1, NothingChanges DEF Tick, redis, threads, history
<1>2. CASE PollNext
  <2>1. CASE StartPoll \/ EndPoll
    BY <2>1, NothingChanges DEF StartPoll, EndPoll, redis, history
  <2> QED BY <1>2, <2>1, PollKeyBacked, SendBacked, WriteBacked
          DEF PollNext, Thread
<1>3. CASE \/ DispatchNext
           \/ \E p \in Plans, r \in Requests : OnPlanStart(p, r)
           \/ \E p \in Plans : OnCommand(p)
  BY <1>3, WriteBacked, DispatchBacked DEF DispatchNext, Thread
<1>4. CASE \/ StationAnswers
           \/ \E p \in Plans, s \in Reports : WorkerReports(p, s)
           \/ \E p \in Plans : JobLost(p)
  BY <1>4, NothingChanges
     DEF StationAnswers, WorkerReports, JobLost, redis, threads, history
<1>5. CASE Crash \/ \E p \in Plans : ReadsNoFrame(p)
  BY <1>5, RestartBacked DEF Crash, ReadsNoFrame
<1>6. CASE UNCHANGED vars
  BY <1>6, NothingChanges DEF vars, redis, threads, history
<1> QED BY <1>1, <1>2, <1>3, <1>4, <1>5, <1>6 DEF Next

(* No copy of a plan, in redis or in a thread, ever shows more executions   *)
(* than on_plan_result has counted (real_repet += 1, plan_dispatcher.cpp):  *)
(* however the saves of the two threads overwrite each other, a repeat      *)
(* count is never used up too early.                                        *)
THEOREM CountIsBacked == Spec => []CountBacked
<1> QED BY InitBacked, NextBacked, InvBacked, PTL DEF Spec

-----------------------------------------------------------------------------
(* Executions side by side: sequences of writes.                            *)

Starts(s, op) == s # <<>> /\ Head(s) = op
Ends(s, op)   == s # <<>> /\ s[Len(s)] = op

(* The writes a thread has to make: a whole save comes first, the save of a *)
(* result last and the one after a dispatch alone.                          *)
Chain(s) ==
  \A i \in 1..Len(s) : /\ s[i] = "full" => i = 1
                       /\ s[i] = "exec" => Len(s) = 1
                       /\ s[i] = "res"  => i = Len(s)

LEMMA ChainTail ==
  ASSUME NEW s \in Seq(Op), s # <<>>, Chain(s)
  PROVE  /\ Tail(s) \in Seq(Op) /\ Chain(Tail(s))
         /\ ~Starts(Tail(s), "full") /\ ~Ends(Tail(s), "exec")
         /\ Ends(Tail(s), "res") <=> Ends(s, "res") /\ Head(s) # "res"
         /\ Head(s) \in {"exec", "res"} => Tail(s) = <<>>
<1> DEFINE n == Tail(s)
<1>1. /\ n \in Seq(Op) /\ Len(s) \in Nat \ {0} /\ Len(n) = Len(s) - 1
      /\ \A i \in 1..Len(n) : n[i] = s[i + 1]
      /\ Head(s) = s[1]
      /\ n = <<>> <=> Len(s) = 1
      /\ n # <<>> => Head(n) = s[2]
  <2>1. n \in Seq(Op) /\ Len(s) \in Nat \ {0} /\ Len(n) = Len(s) - 1
    OBVIOUS
  <2>2. \A i \in 1..Len(n) : n[i] = s[i + 1]
    OBVIOUS
  <2>3. Head(s) = s[1]
    OBVIOUS
  <2> HIDE DEF n
  <2>4. n = <<>> <=> Len(n) = 0
    BY <2>1, EmptySeq
  <2>5. n # <<>> => Head(n) = n[1] /\ 1 \in 1..Len(n)
    BY <2>1
  <2> QED BY <2>1, <2>2, <2>3, <2>4, <2>5
<1> HIDE DEF n
<1>2. Chain(n) /\ ~Starts(n, "full") /\ ~Ends(n, "exec")
  BY <1>1 DEF Chain, Starts, Ends
<1>3. Head(s) \in {"exec", "res"} => n = <<>>
  BY <1>1 DEF Chain
<1>4. Ends(n, "res") <=> Ends(s, "res") /\ Head(s) # "res"
  <2>1. CASE Len(s) = 1
    BY <1>1, <2>1 DEF Ends
  <2>2. CASE Len(s) # 1
    <3>1. n # <<>> /\ n[Len(n)] = s[Len(s)] /\ Head(s) # "res"
      BY <1>1, <2>2 DEF Chain
    <3> QED BY <3>1 DEF Ends
  <2> QED BY <2>1, <2>2
<1> QED BY <1>1, <1>2, <1>3, <1>4 DEF n

CheckedOps == {<<"join", "plan">>, <<"zrem", "close">>, <<"close", "zrem">>}
NextOps    == {<<"full", "check">>, <<"skip", "check">>, <<"check">>}
OtherOps   == {<<>>, <<"skip">>, <<"state", "zrem">>, <<"state", "join", "plan">>, <<"del">>}

(* The local call of check_next in the place of the writes it leads to.     *)
LEMMA ChainChecked ==
  ASSUME NEW s \in Seq(Op), s # <<>>, Chain(s), Head(s) = "check",
         NEW ops \in CheckedOps
  PROVE  /\ (ops \o Tail(s)) \in Seq(Op) /\ Chain(ops \o Tail(s))
         /\ ~Starts(ops \o Tail(s), "full") /\ ~Ends(ops \o Tail(s), "exec")
         /\ ops \o Tail(s) # <<>>
         /\ Ends(ops \o Tail(s), "res") <=> Ends(s, "res")
<1> DEFINE r == Tail(s)
           n == ops \o r
<1>1. /\ r \in Seq(Op) /\ Chain(r) /\ ~Starts(r, "full") /\ ~Ends(r, "exec")
      /\ Ends(r, "res") <=> Ends(s, "res")
  BY ChainTail
<1> HIDE DEF r
<1>2. /\ ops \in Seq(Op) /\ Len(ops) = 2
      /\ {ops[1], ops[2]} \subseteq {"join", "plan", "zrem", "close"}
  <2>1. CASE ops = <<"join", "plan">>
    BY <2>1 DEF Op, SaveKind
  <2>2. CASE ops = <<"zrem", "close">>
    BY <2>2 DEF Op, SaveKind
  <2>3. CASE ops = <<"close", "zrem">>
    BY <2>3 DEF Op, SaveKind
  <2> QED BY <2>1, <2>2, <2>3 DEF CheckedOps
<1>3. /\ n \in Seq(Op) /\ Len(n) = 2 + Len(r) /\ n # <<>>
      /\ n[1] = ops[1] /\ n[2] = ops[2]
      /\ \A i \in 3..Len(n) : n[i] = r[i - 2]
      /\ Head(n) = n[1]
  <2>1. /\ n \in Seq(Op) /\ Len(n) = Len(ops) + Len(r)
        /\ \A i \in 1..(Len(ops) + Len(r)) :
             n[i] = IF i <= Len(ops) THEN ops[i] ELSE r[i - Len(ops)]
    BY <1>1, <1>2, ConcatProperties
  <2> HIDE DEF n
  <2>2. Len(r) \in Nat /\ Len(n) = 2 + Len(r)
    BY <1>1, <1>2, <2>1
  <2>3. n[1] = ops[1] /\ n[2] = ops[2]
    BY <1>2, <2>1, <2>2
  <2>4. \A i \in 3..Len(n) : n[i] = r[i - 2]
    BY <1>2, <2>1, <2>2
  <2>5. n # <<>> /\ Head(n) = n[1]
    BY <2>1, <2>2
  <2> QED BY <2>1, <2>2, <2>3, <2>4, <2>5
<1> HIDE DEF n
<1>4. \A i \in 1..Len(r) : r[i] \notin {"full", "exec"}
  BY <1>1 DEF Chain, Starts, Ends
<1>5. \A i \in 1..Len(n) : /\ n[i] \notin {"full", "exec"}
                           /\ n[i] = "res" => i = Len(n)
  <2> SUFFICES ASSUME NEW i \in 1..Len(n)
               PROVE  n[i] \notin {"full", "exec"} /\ (n[i] = "res" => i = Len(n))
    OBVIOUS
  <2>1. CASE i \in {1, 2}
    BY <1>2, <1>3, <2>1
  <2>2. CASE i \in 3..Len(n)
    <3>1. n[i] = r[i - 2] /\ i - 2 \in 1..Len(r)
      BY <1>1, <1>3, <2>2
    <3> QED BY <1>1, <1>3, <1>4, <3>1 DEF Chain
  <2> QED BY <1>1, <1>3, <2>1, <2>2
<1>6. Chain(n) /\ ~Starts(n, "full") /\ ~Ends(n, "exec")
  BY <1>1, <1>3, <1>5 DEF Chain, Starts, Ends
<1>7. Ends(n, "res") <=> Ends(r, "res")
  <2>1. CASE r = <<>>
    BY <1>2, <1>3, <2>1 DEF Ends
  <2>2. CASE r # <<>>
    <3>1. n[Len(n)] = r[Len(r)]
      BY <1>1, <1>3, <2>2
    <3> QED BY <1>3, <2>2, <3>1 DEF Ends
  <2> QED BY <2>1, <2>2
<1> QED BY <1>1, <1>3, <1>6, <1>7 DEF n, r

(* What the handlers leave to be written.                                   *)
LEMMA ChainPlain ==
  ASSUME NEW ops \in CheckedOps \cup NextOps \cup OtherOps
  PROVE  /\ ops \in Seq(Op) /\ Chain(ops) /\ ~Ends(ops, "res") /\ ~Ends(ops, "exec")
         /\ Starts(ops, "full") <=> ops = <<"full", "check">>
<1>1. CASE ops \in CheckedOps
  <2>1. CASE ops = <<"join", "plan">>
    BY <2>1 DEF Chain, Starts, Ends, Op, SaveKind
  <2>2. CASE ops = <<"zrem", "close">>
    BY <2>2 DEF Chain, Starts, Ends, Op, SaveKind
  <2>3. CASE ops = <<"close", "zrem">>
    BY <2>3 DEF Chain, Starts, Ends, Op, SaveKind
  <2> QED BY <1>1, <2>1, <2>2, <2>3 DEF CheckedOps
<1>2. CASE ops \in NextOps
  <2>1. CASE ops = <<"full", "check">>
    BY <2>1 DEF Chain, Starts, Ends, Op, SaveKind
  <2>2. CASE ops = <<"skip", "check">>
    BY <2>2 DEF Chain, Starts, Ends, Op, SaveKind
  <2>3. CASE ops = <<"check">>
    BY <2>3 DEF Chain, Starts, Ends, Op, SaveKind
  <2> QED BY <1>2, <2>1, <2>2, <2>3 DEF NextOps
<1>3. CASE ops \in OtherOps
  <2>1. CASE ops = <<>>
    BY <2>1 DEF Chain, Starts, Ends, Op, SaveKind
  <2>2. CASE ops = <<"skip">>
    BY <2>2 DEF Chain, Starts, Ends, Op, SaveKind
  <2>3. CASE ops = <<"state", "zrem">>
    BY <2>3 DEF Chain, Starts, Ends, Op, SaveKind
  <2>4. CASE ops = <<"state", "join", "plan">>
    BY <2>4 DEF Chain, Starts, Ends, Op, SaveKind
  <2>5. CASE ops = <<"del">>
    BY <2>5 DEF Chain, Starts, Ends, Op, SaveKind
  <2> QED BY <1>3, <2>1, <2>2, <2>3, <2>4, <2>5 DEF OtherOps
<1> QED BY <1>1, <1>2, <1>3

LEMMA ChainResult ==
  ASSUME NEW ops \in NextOps \cup {<<>>, <<"state", "zrem">>}
  PROVE  /\ (ops \o <<"res">>) \in Seq(Op) /\ Chain(ops \o <<"res">>)
         /\ Ends(ops \o <<"res">>, "res") /\ ~Ends(ops \o <<"res">>, "exec")
         /\ Starts(ops \o <<"res">>, "full") <=> ops = <<"full", "check">>
<1>1. CASE ops = <<>>
  BY <1>1 DEF Chain, Starts, Ends, Op, SaveKind
<1>2. CASE ops = <<"state", "zrem">>
  BY <1>2 DEF Chain, Starts, Ends, Op, SaveKind
<1>3. CASE ops = <<"full", "check">>
  BY <1>3 DEF Chain, Starts, Ends, Op, SaveKind
<1>4. CASE ops = <<"skip", "check">>
  BY <1>4 DEF Chain, Starts, Ends, Op, SaveKind
<1>5. CASE ops = <<"check">>
  BY <1>5 DEF Chain, Starts, Ends, Op, SaveKind
<1> QED BY <1>1, <1>2, <1>3, <1>4, <1>5 DEF NextOps

(* The answers that mean that no worker has got the request.                *)
Refusals(r) == {i \in 1..Len(r) : r[i] # "runing"}

LEMMA RefusalsFinite ==
  ASSUME NEW S, NEW r \in Seq(S)
  PROVE  IsFiniteSet(Refusals(r)) /\ Cardinality(Refusals(r)) \in Nat
<1>1. Len(r) \in Nat
  OBVIOUS
<1>2. 1 \in Int /\ Len(r) \in Int
  BY <1>1
<1>3. IsFiniteSet(1..Len(r))
  BY <1>2, FS_Interval
<1>4. Refusals(r) \in SUBSET (1..Len(r))
  BY DEF Refusals
<1>5. IsFiniteSet(Refusals(r))
  BY <1>3, <1>4, FS_Subset
<1> QED BY <1>5, FS_CardinalityType

LEMMA RefusalsAppend ==
  ASSUME NEW S, NEW r \in Seq(S), NEW s \in S
  PROVE  Cardinality(Refusals(Append(r, s))) =
           IF s = "runing" THEN Cardinality(Refusals(r)) ELSE Cardinality(Refusals(r)) + 1
<1> DEFINE n == Append(r, s)
           l == Len(r) + 1
<1>1. /\ Len(r) \in Nat /\ n \in Seq(S) /\ Len(n) = l
      /\ n[l] = s /\ \A i \in 1..Len(r) : n[i] = r[i]
  OBVIOUS
<1>2. IsFiniteSet(Refusals(r)) /\ l \notin Refusals(r)
  BY <1>1, RefusalsFinite DEF Refusals
<1> HIDE DEF n
<1>3. CASE s = "runing"
  <2>1. Refusals(n) = Refusals(r)
    BY <1>1, <1>3 DEF Refusals
  <2> QED BY <1>3, <2>1 DEF n
<1>4. CASE s # "runing"
  <2>1. Refusals(n) = Refusals(r) \cup {l}
    BY <1>1, <1>4 DEF Refusals
  <2> HIDE DEF l
  <2>2. Cardinality(Refusals(r) \cup {l}) = Cardinality(Refusals(r)) + 1
    BY <1>2, FS_AddElement
  <2> QED BY <1>4, <2>1, <2>2 DEF n
<1> QED BY <1>3, <1>4

LEMMA RefusalsTail ==
  ASSUME NEW S, NEW r \in Seq(S), r # <<>>
  PROVE  Cardinality(Refusals(Tail(r))) =
           IF Head(r) = "runing" THEN Cardinality(Refusals(r)) ELSE Cardinality(Refusals(r)) - 1
<1> DEFINE n == Tail(r)
           rest == Refusals(r) \ {1}
           f == [i \in rest |-> i - 1]
<1>1. /\ Len(r) \in Nat \ {0} /\ n \in Seq(S) /\ Len(n) = Len(r) - 1
      /\ \A i \in 1..Len(n) : n[i] = r[i + 1]
  BY EmptySeq, HeadTailProperties
<1>2. Head(r) = r[1]
  OBVIOUS
<1> HIDE DEF n
<1>3. \A i \in rest : i \in 2..Len(r) /\ i - 1 \in Refusals(n)
  BY <1>1 DEF Refusals
<1>4. \A j \in Refusals(n) : j + 1 \in rest /\ (j + 1) - 1 = j
  BY <1>1 DEF Refusals
<1>5. IsFiniteSet(Refusals(r)) /\ IsFiniteSet(rest)
  <2>1. IsFiniteSet(Refusals(r))
    BY RefusalsFinite
  <2> QED BY <2>1, FS_RemoveElement
<1>6. f \in Bijection(rest, Refusals(n))
  <2> HIDE DEF rest
  <2>1. f \in [rest -> Refusals(n)]
    BY <1>3
  <2>2. \A a, b \in rest : f[a] = f[b] => a = b
    <3> SUFFICES ASSUME NEW a \in rest, NEW b \in rest, f[a] = f[b] PROVE a = b
      OBVIOUS
    <3>1. a \in Int /\ b \in Int /\ a - 1 = b - 1
      BY <1>1, <1>3
    <3> QED BY <3>1
  <2>3. \A j \in Refusals(n) : \E a \in rest : f[a] = j
    BY <1>4
  <2> HIDE DEF f
  <2>4. f \in Injection(rest, Refusals(n))
    BY <2>1, <2>2 DEF Injection, IsInjective
  <2>5. f \in Surjection(rest, Refusals(n))
    BY <2>1, <2>3 DEF Surjection
  <2> QED BY <2>4, <2>5 DEF Bijection
<1>7. Cardinality(Refusals(n)) = Cardinality(rest)
  <2>1. ExistsBijection(rest, Refusals(n))
    BY <1>6 DEF ExistsBijection
  <2> HIDE DEF rest
  <2> QED BY <1>5, <2>1, FS_Bijection
<1>8. Cardinality(rest) = IF 1 \in Refusals(r) THEN Cardinality(Refusals(r)) - 1
                          ELSE Cardinality(Refusals(r))
  BY <1>5, FS_RemoveElement
<1>9. 1 \in Refusals(r) <=> Head(r) # "runing"
  BY <1>1, <1>2 DEF Refusals
<1> QED BY <1>7, <1>8, <1>9 DEF n

(* A set of plans that loses or gains one.                                  *)
LEMMA PlansLost ==
  ASSUME NEW A \in SUBSET Plans, NEW B \in SUBSET Plans, NEW p, A \ {p} \subseteq B
  PROVE  /\ Cardinality(A) \in Nat /\ Cardinality(B) \in Nat
         /\ Cardinality(A) <= Cardinality(B) + 1
         /\ p \notin A => Cardinality(A) <= Cardinality(B)
<1>1. IsFiniteSet(A) /\ IsFiniteSet(B)
  BY DispatcherAssumption, FS_Subset
<1>2. Cardinality(A) \in Nat /\ Cardinality(B) \in Nat
  BY <1>1, FS_CardinalityType
<1>3. /\ Cardinality(A \ {p}) <= Cardinality(B)
  BY <1>1, FS_Subset
<1>4. Cardinality(A \ {p}) = IF p \in A THEN Cardinality(A) - 1 ELSE Cardinality(A)
  BY <1>1, FS_RemoveElement
<1> QED BY <1>2, <1>3, <1>4

LEMMA PlansKept ==
  ASSUME NEW A \in SUBSET Plans, NEW B \in SUBSET Plans, A \subseteq B
  PROVE  /\ Cardinality(A) \in Nat /\ Cardinality(B) \in Nat
         /\ Cardinality(A) <= Cardinality(B)
         /\ \A p \in B \ A : Cardinality(A) + 1 <= Cardinality(B)
<1>1. IsFiniteSet(A) /\ IsFiniteSet(B)
  BY DispatcherAssumption, FS_Subset
<1>2. Cardinality(A) \in Nat /\ Cardinality(B) \in Nat
  BY <1>1, FS_CardinalityType
<1>3. Cardinality(A) <= Cardinality(B)
  BY <1>1, FS_Subset
<1>4. ASSUME NEW p \in B \ A
      PROVE  Cardinality(A) + 1 <= Cardinality(B)
  <2>1. Cardinality(A \cup {p}) = Cardinality(A) + 1
    BY <1>1, <1>4, FS_AddElement
  <2>2. A \cup {p} \in SUBSET B
    BY <1>4
  <2>3. Cardinality(A \cup {p}) <= Cardinality(B)
    BY <1>1, <2>2, FS_Subset
  <2> QED BY <2>1, <2>3
<1> QED BY <1>2, <1>3, <1>4

-----------------------------------------------------------------------------
(* What the rules leave to be written, and of the last execution.           *)

LEMMA CheckedWrites ==
  ASSUME NEW m \in Message, NEW t \in Nat
  PROVE  Checked(m, t).ops \in CheckedOps
<1>1. CheckNext(m, t).do \in {"join", "close", "error"}
  BY CheckNextType DEF Outcome
<1> QED BY <1>1 DEF Checked, CloseIt, ErrorIt, Effect, CheckedOps

LEMMA NextWrites ==
  ASSUME NEW m \in Message
  PROVE  /\ NextTime(m).ops \in NextOps
         /\ NextTime(m).ops = <<"full", "check">> <=> m.plan_state = "none"
<1>1. /\ <<"skip", "check">> # <<"full", "check">>
      /\ <<"check">> # <<"full", "check">>
  OBVIOUS
<1> QED BY <1>1 DEF NextTime, Effect, NextOps

LEMMA AnsweredWrites ==
  ASSUME NEW m \in Message, NEW s \in Status \ {"runing"}
  PROVE  /\ Answered(m, s).ops \in NextOps \cup {<<>>, <<"state", "zrem">>}
         /\ Answered(m, s).ops = <<"full", "check">>
              <=> m.plan_state = "none" /\ s \in {"ok", "fail"}
<1> DEFINE c == IF Counts(s) THEN m.real_repet + 1 ELSE m.real_repet
           n == Repeated(Executed(m, s), c)
<1>1. /\ s = "wait" => Answered(m, s).ops = <<>>
      /\ s \in {"unfit", "bug"} => Answered(m, s).ops = <<"state", "zrem">>
      /\ s \in {"ok", "fail"} => Answered(m, s).ops = NextTime(n).ops
      /\ s \in {"fault", "planerr"} => Answered(m, s).ops \in {<<>>, <<"state", "zrem">>}
  BY DEF Answered, Effect, PauseIt, Repeated, Executed
<1>2. n \in Message /\ n.plan_state = m.plan_state
  <2>1. c \in Nat /\ s \in ExecState
    BY MessageFields DEF ExecState
  <2>2. n \in Message
    <3> HIDE DEF c
    <3>1. Executed(m, s) \in Message
      BY <2>1, FieldType
    <3> QED BY <2>1, <3>1, FieldType
  <2>3. n.plan_state = m.plan_state
    BY DEF Message, Repeated, Executed
  <2> QED BY <2>2, <2>3
<1>3. s \in {"wait", "unfit", "bug", "ok", "fail", "fault", "planerr"}
  BY DEF Status
<1> HIDE DEF n
<1>4. /\ NextTime(n).ops \in NextOps
      /\ NextTime(n).ops = <<"full", "check">> <=> m.plan_state = "none"
  BY <1>2, NextWrites
<1>5. <<>> # <<"full", "check">> /\ <<"state", "zrem">> # <<"full", "check">>
  OBVIOUS
<1> QED BY <1>1, <1>3, <1>4, <1>5

-----------------------------------------------------------------------------
(* A plan that is handed in is new until its first whole save.              *)
Starting(p) == /\ key["dispatch"] = p /\ Starts(todo["dispatch"], "full")
               /\ ~Ends(todo["dispatch"], "res")

Fresh(p) == p \notin known \/ Starting(p)

(* The poll thread has the execution of p in hand: it is sent, waited for,  *)
(* or its outcome is being saved, or the plan is saved whole.               *)
Dispatched == Ends(todo["poll"], "exec")
Held == \/ pc \in {"send", "recv"}
        \/ Dispatched \/ Ends(todo["poll"], "res") \/ Starts(todo["poll"], "full")
Executing(p) == key["poll"] = p /\ Held

(* What the hash of p says to the poll thread: do not execute it.           *)
Out(p) == ~Whole(p) \/ store[p].exec_state \in {"runing", "wait"}

Busy(p) == ~Fresh(p) /\ IF Executing(p) THEN Dispatched ELSE Out(p)
BusyPlans == {p \in Plans : Busy(p)}

(* How often the report in the dispatcher's hand has still to be saved.     *)
Owed == IF Ends(todo["dispatch"], "res") /\ msg["dispatch"].exec_state # "wait"
        THEN IF Starts(todo["dispatch"], "full") THEN 2 ELSE 1
        ELSE 0

Due  == ran + Len(requests) + Cardinality(Refusals(replies)) + Owed
Paid == again + missed + crashes + (IF pc = "recv" THEN 1 ELSE 0)

Ledger == Due <= Cardinality(BusyPlans) + Paid

Chains == /\ \A t \in Thread : Chain(todo[t])
          /\ ~Ends(todo["dispatch"], "exec")
          /\ Dispatched => msg["poll"].exec_state = "runing"

Origins == /\ \A t \in Thread : key[t] \in Plans => key[t] \in known
           /\ \A p \in Plans \ known : store[p] = NoHash
           /\ \A p \in Plans : Starting(p) => store[p] = NoHash /\ key["poll"] # p

OverlapInv == TypeOK /\ Chains /\ Origins /\ Ledger

-----------------------------------------------------------------------------
LEMMA LedgerType ==
  ASSUME TypeOK
  PROVE  /\ Due \in Int /\ Paid \in Int /\ Owed \in {0, 1, 2}
         /\ Len(requests) \in Nat /\ Cardinality(Refusals(replies)) \in Nat
         /\ {ran, again, missed, crashes} \subseteq Nat
<1>1. Owed \in {0, 1, 2}
  BY DEF Owed
<1>2. Cardinality(Refusals(replies)) \in Nat
  BY RefusalsFinite DEF TypeOK, NetworkType
<1>3. Len(requests) \in Nat
  BY DEF TypeOK, NetworkType
<1>4. {ran, again, missed, crashes} \subseteq Nat
  BY DEF TypeOK, CountType
<1>5. Due \in Int
  <2> HIDE DEF Owed
  <2> QED BY <1>1, <1>2, <1>3, <1>4 DEF Due
<1>6. Paid \in Int
  BY <1>4 DEF Paid
<1> QED BY <1>1, <1>2, <1>3, <1>4, <1>5, <1>6

(* A step keeps the ledger when it pays for what it adds: no plan ceases to *)
(* be busy, ...                                                             *)
LEMMA NoneLost ==
  ASSUME TypeOK, Ledger, NEW d \in Int, NEW e \in Int,
         Due' = Due + d, Paid' = Paid + e, d <= e,
         \A p \in Plans : Busy(p) => Busy(p)'
  PROVE  Ledger'
<1> DEFINE a == BusyPlans
           b == BusyPlans'
<1>1. a \in SUBSET Plans /\ b \in SUBSET Plans /\ a \subseteq b
  BY DEF BusyPlans
<1> HIDE DEF a, b
<1>2. Cardinality(a) \in Nat /\ Cardinality(b) \in Nat /\ Cardinality(a) <= Cardinality(b)
  BY <1>1, PlansKept
<1>3. Due \in Int /\ Paid \in Int
  BY LedgerType
<1>4. Due <= Cardinality(a) + Paid
  BY DEF Ledger, a
<1>5. Due + d <= Cardinality(b) + (Paid + e)
  BY <1>2, <1>3, <1>4
<1> QED BY <1>5 DEF Ledger, b

(* ... one plan does, ...                                                   *)
LEMMA OneLost ==
  ASSUME TypeOK, Ledger, NEW d \in Int, NEW e \in Int, NEW q,
         Due' = Due + d, Paid' = Paid + e, d + 1 <= e,
         \A p \in Plans \ {q} : Busy(p) => Busy(p)'
  PROVE  Ledger'
<1> DEFINE a == BusyPlans
           b == BusyPlans'
<1>1. a \in SUBSET Plans /\ b \in SUBSET Plans /\ a \ {q} \subseteq b
  BY DEF BusyPlans
<1> HIDE DEF a, b
<1>2. /\ Cardinality(a) \in Nat /\ Cardinality(b) \in Nat
      /\ Cardinality(a) <= Cardinality(b) + 1
  BY <1>1, PlansLost
<1>3. Due \in Int /\ Paid \in Int
  BY LedgerType
<1>4. Due <= Cardinality(a) + Paid
  BY DEF Ledger, a
<1>5. Due + d <= Cardinality(b) + (Paid + e)
  BY <1>2, <1>3, <1>4
<1> QED BY <1>5 DEF Ledger, b

(* ... or one becomes busy.                                                 *)
LEMMA OneWon ==
  ASSUME TypeOK, Ledger, NEW d \in Int, NEW e \in Int, NEW q \in Plans,
         Due' = Due + d, Paid' = Paid + e, d <= e + 1,
         \A p \in Plans : Busy(p) => Busy(p)',
         ~Busy(q), Busy(q)'
  PROVE  Ledger'
<1> DEFINE a == BusyPlans
           b == BusyPlans'
<1>1. a \in SUBSET Plans /\ b \in SUBSET Plans /\ a \subseteq b /\ q \in b \ a
  BY DEF BusyPlans
<1> HIDE DEF a, b
<1>2. /\ Cardinality(a) \in Nat /\ Cardinality(b) \in Nat
      /\ Cardinality(a) + 1 <= Cardinality(b)
  BY <1>1, PlansKept
<1>3. Due \in Int /\ Paid \in Int
  BY LedgerType
<1>4. Due <= Cardinality(a) + Paid
  BY DEF Ledger, a
<1>5. Due + d <= Cardinality(b) + (Paid + e)
  BY <1>2, <1>3, <1>4
<1> QED BY <1>5 DEF Ledger, b

-----------------------------------------------------------------------------
(* What one write does to what is in hand and to the hash.                  *)

LEMMA AdvanceChain ==
  ASSUME HandType, NEW t \in Thread, todo[t] # <<>>, Chain(todo[t]),
         NEW m \in Message, Advance(t, m)
  PROVE  /\ Chain(todo'[t]) /\ ~Starts(todo'[t], "full") /\ ~Ends(todo'[t], "exec")
         /\ Ends(todo'[t], "res") <=> Ends(todo[t], "res") /\ Head(todo[t]) # "res"
         /\ key'[t] \in {NoKey, key[t]}
         /\ todo'[t] # <<>> => key'[t] = key[t] /\ msg'[t] = m
<1>1. key[t] \in Plans /\ todo[t] \in Seq(Op)
  BY DEF HandType
<1> DEFINE n == Tail(todo[t])
<1>2. /\ n \in Seq(Op) /\ Chain(n) /\ ~Starts(n, "full") /\ ~Ends(n, "exec")
      /\ Ends(n, "res") <=> Ends(todo[t], "res") /\ Head(todo[t]) # "res"
  BY <1>1, ChainTail
<1>3. Advance(t, m) = IF n = <<>> THEN Drop(t) ELSE Take(t, key[t], m, n)
  BY DEF Advance
<1> HIDE DEF n
<1>4. CASE n = <<>>
  <2>1. key'[t] = NoKey /\ todo'[t] = n
    BY <1>3, <1>4, DropType
  <2> QED BY <1>2, <1>4, <2>1
<1>5. CASE n # <<>>
  <2>1. key'[t] = key[t] /\ todo'[t] = n /\ msg'[t] = m
    BY <1>1, <1>2, <1>3, <1>5, TakeType
  <2> QED BY <1>2, <2>1
<1> QED BY <1>4, <1>5

LEMMA WriteHands ==
  ASSUME TypeOK, NEW t \in Thread, Chain(todo[t]), Write(t)
  PROVE  /\ Chain(todo'[t]) /\ ~Starts(todo'[t], "full") /\ ~Ends(todo'[t], "exec")
         /\ Ends(todo'[t], "res") <=> Ends(todo[t], "res") /\ Head(todo[t]) # "res"
         /\ key'[t] \in {NoKey, key[t]}
         /\ todo'[t] # <<>> => key'[t] = key[t] /\ msg'[t].exec_state = msg[t].exec_state
         /\ \A u \in Thread \ {t} : /\ key'[u] = key[u] /\ msg'[u] = msg[u]
                                    /\ todo'[u] = todo[u]
<1> DEFINE Same == \A u \in Thread \ {t} : /\ key'[u] = key[u] /\ msg'[u] = msg[u]
                                           /\ todo'[u] = todo[u]
           After == /\ Chain(todo'[t]) /\ ~Starts(todo'[t], "full") /\ ~Ends(todo'[t], "exec")
                    /\ Ends(todo'[t], "res") <=> Ends(todo[t], "res") /\ Head(todo[t]) # "res"
                    /\ key'[t] \in {NoKey, key[t]}
                    /\ todo'[t] # <<>> =>
                         key'[t] = key[t] /\ msg'[t].exec_state = msg[t].exec_state
<1>1. /\ todo[t] # <<>> /\ key[t] \in Plans /\ msg[t] \in Message
      /\ todo[t] \in Seq(Op) /\ HandType
  BY DEF Write, HandType, TypeOK
<1>2. ASSUME NEW m \in Message, m.exec_state = msg[t].exec_state, Advance(t, m)
      PROVE  Same /\ After
  <2>1. Same
    BY <1>1, <1>2, AdvanceType
  <2>2. After
    BY <1>1, <1>2, AdvanceChain
  <2> QED BY <2>1, <2>2
<1> HIDE DEF Same, After
<1>3. ASSUME NEW k \in SaveKind, Save(t, k)
      PROVE  Same /\ After
  <2>1. Advance(t, msg[t])
    BY <1>3 DEF Save
  <2> QED BY <1>1, <1>2, <2>1
<1>4. ASSUME Enqueue(t) \/ Dequeue(t) \/ Delete(t)
      PROVE  Same /\ After
  <2>1. Advance(t, msg[t])
    BY <1>4 DEF Enqueue, Dequeue, Delete
  <2> QED BY <1>1, <1>2, <2>1
<1>5. ASSUME SetState(t)
      PROVE  Same /\ After
  <2> DEFINE m == msg[t]
             n == IF m.plan_state = "none" THEN InState(m, JoinState(m)) ELSE m
  <2>1. Advance(t, n)
    BY <1>5 DEF SetState, InState
  <2>2. JoinState(m) \in PlanState
    BY DEF JoinState, PlanState
  <2>3. Keeps(InState(m, JoinState(m)), m)
    BY <1>1, <2>2, FieldType
  <2>4. n \in Message /\ n.exec_state = m.exec_state
    BY <1>1, <2>3 DEF Keeps
  <2> HIDE DEF n
  <2> QED BY <1>2, <2>1, <2>4
<1>6. ASSUME Check(t), Head(todo[t]) = "check"
      PROVE  Same /\ After
  <2> DEFINE e == Checked(msg[t], now)
             n == e.ops \o Tail(todo[t])
  <2>1. e \in EffectOn(msg[t]) /\ e.ops \in CheckedOps
    BY <1>1, CheckedType, CheckedWrites DEF TypeOK, CountType
  <2>2. Take(t, key[t], e.m, n)
    BY <1>6 DEF Check
  <2>3. /\ n \in Seq(Op) /\ Chain(n) /\ ~Starts(n, "full") /\ ~Ends(n, "exec")
        /\ n # <<>>
        /\ Ends(n, "res") <=> Ends(todo[t], "res")
    BY <1>1, <1>6, <2>1, ChainChecked
  <2>4. e.m \in Message /\ e.m.exec_state = msg[t].exec_state
    BY <2>1 DEF EffectOn, Effects, Keeps
  <2> HIDE DEF e, n
  <2>5. key'[t] = key[t] /\ msg'[t] = e.m /\ todo'[t] = n /\ Same
    BY <1>1, <2>2, <2>3, <2>4, TakeType DEF Same
  <2>6. Head(todo[t]) # "res"
    BY <1>6
  <2> QED BY <2>3, <2>4, <2>5, <2>6 DEF After
<1>7. Same /\ After
  <2>1. \/ Head(todo[t]) \in SaveKind /\ Save(t, Head(todo[t]))
        \/ Head(todo[t]) = "check" /\ Check(t)
        \/ Enqueue(t) \/ Dequeue(t) \/ Delete(t)
        \/ SetState(t)
    BY DEF Write
  <2> QED BY <1>3, <1>4, <1>5, <1>6, <2>1
<1> QED BY <1>7 DEF Same, After

LEMMA WriteHash ==
  ASSUME TypeOK, NEW t \in Thread, NEW p \in Plans, key[t] = p, Write(t)
  PROVE  /\ \A q \in Plans \ {p} : store'[q] = store[q]
         /\ Head(todo[t]) \notin {"full", "exec", "res"} => (Out(p) => Out(p)')
         /\ Head(todo[t]) \in {"full", "exec", "res"} =>
              store'[p].exec_state = msg[t].exec_state
<1> DEFINE h == Hash(p)
           m == msg[t]
<1>1. p \in Plans /\ m \in Message /\ RedisType
  BY DEF Write, HandType, TypeOK
<1>2. /\ h \in Message
      /\ Exists(p) => h = store[p]
      /\ ~Exists(p) => h.frames = FALSE
  <2>1. ~Exists(p) => h = Blank
    BY <1>1, HashType
  <2> QED BY <1>1, <2>1, HashType DEF Blank
<1>3. \A g : store' = [store EXCEPT ![p] = g] =>
        store'[p] = g /\ \A q \in Plans \ {p} : store'[q] = store[q]
  BY <1>1 DEF RedisType
<1> HIDE DEF h, m
<1>4. ASSUME NEW g \in Message, store' = [store EXCEPT ![p] = g],
             g.frames = h.frames, g.exec_state = h.exec_state, Out(p)
      PROVE  Out(p)'
  <2>1. store'[p] = g
    BY <1>3, <1>4
  <2>2. CASE ~Exists(p)
    BY <1>2, <1>4, <2>1, <2>2 DEF Out, Whole
  <2>3. CASE Exists(p)
    BY <1>2, <1>4, <2>1, <2>3 DEF Out, Whole
  <2> QED BY <2>2, <2>3
<1>5. ASSUME NEW k \in SaveKind, Save(t, k), Head(todo[t]) = k
      PROVE  /\ \A q \in Plans \ {p} : store'[q] = store[q]
             /\ k \notin {"full", "exec", "res"} => (Out(p) => Out(p)')
             /\ k \in {"full", "exec", "res"} => store'[p].exec_state = m.exec_state
  <2> DEFINE g == Saved(h, m, k)
  <2>1. store' = [store EXCEPT ![p] = g]
    BY <1>5 DEF Save, h, m
  <2>2. g \in Message
    BY <1>1, <1>2, SavedType
  <2>3. k \notin {"full", "exec", "res"} => g.frames = h.frames /\ g.exec_state = h.exec_state
    BY <1>2 DEF Saved, Message, SaveKind
  <2>4. k \in {"full", "exec", "res"} => g.exec_state = m.exec_state
    BY <1>1, <1>2 DEF Saved, Message, SaveKind
  <2> HIDE DEF g
  <2> QED BY <1>3, <1>4, <2>1, <2>2, <2>3, <2>4
<1>6. ASSUME Check(t) \/ Enqueue(t) \/ Dequeue(t)
      PROVE  /\ \A q \in Plans \ {p} : store'[q] = store[q]
             /\ Out(p) => Out(p)'
  BY <1>6 DEF Check, Enqueue, Dequeue, redis, Out, Whole, Exists
<1>7. ASSUME SetState(t)
      PROVE  /\ \A q \in Plans \ {p} : store'[q] = store[q]
             /\ Out(p) => Out(p)'
  <2> DEFINE g == InState(h, m.plan_state)
  <2>1. store' = [store EXCEPT ![p] = g]
    BY <1>7 DEF SetState, InState, h, m
  <2>2. m.plan_state \in PlanState
    BY <1>1, MessageFields
  <2>3. g \in Message /\ g.exec_state = h.exec_state
    BY <1>2, <2>2, FieldType DEF Keeps
  <2>4. g.frames = h.frames
    BY <1>2 DEF InState, Message
  <2> HIDE DEF g
  <2> QED BY <1>3, <1>4, <2>1, <2>3, <2>4
<1>8. ASSUME Delete(t)
      PROVE  /\ \A q \in Plans \ {p} : store'[q] = store[q]
             /\ Out(p) => Out(p)'
  <2>1. store' = [store EXCEPT ![p] = NoHash]
    BY <1>8 DEF Delete
  <2> QED BY <1>3, <2>1 DEF Out, Whole, Exists
<1>9. Head(todo[t]) \notin SaveKind => Head(todo[t]) \notin {"full", "exec", "res"}
  BY DEF SaveKind
<1> QED BY <1>1, <1>5, <1>6, <1>7, <1>8, <1>9 DEF Write, m, SaveKind

-----------------------------------------------------------------------------
(* A thread that takes up or writes a chain keeps Chains.                   *)
LEMMA ChainsKeep ==
  ASSUME Chains, NEW t \in Thread, Chain(todo'[t]),
         t = "dispatch" => ~Ends(todo'[t], "exec"),
         t = "poll" => (Ends(todo'[t], "exec") => msg'[t].exec_state = "runing"),
         \A u \in Thread \ {t} : msg'[u] = msg[u] /\ todo'[u] = todo[u]
  PROVE  Chains'
<1>1. CASE t = "poll"
  BY <1>1 DEF Chains, Dispatched, Thread
<1>2. CASE t = "dispatch"
  BY <1>2 DEF Chains, Dispatched, Thread
<1> QED BY <1>1, <1>2 DEF Thread

(* So does a thread whose plan was known keep Origins, when it starts none. *)
LEMMA OriginsKeep ==
  ASSUME Origins, NEW t \in Thread, UNCHANGED known,
         key'[t] \in Plans => key'[t] \in known,
         \A u \in Thread \ {t} : key'[u] = key[u] /\ todo'[u] = todo[u],
         \A p \in Plans : p \in known \/ store'[p] = store[p],
         t = "dispatch" => \A p \in Plans : ~Starting(p)',
         t = "poll" => \A p \in Plans : Starting(p) => store'[p] = store[p] /\ key'[t] # p
  PROVE  Origins'
<1>1. \A u \in Thread : key'[u] \in Plans => key'[u] \in known'
  BY DEF Origins
<1>2. \A p \in Plans \ known' : store'[p] = NoHash
  BY DEF Origins
<1>3. \A p \in Plans : Starting(p)' => store'[p] = NoHash /\ key'["poll"] # p
  <2>1. CASE t = "poll"
    <3>1. \A p \in Plans : Starting(p)' <=> Starting(p)
      BY <2>1 DEF Starting, Thread
    <3> QED BY <2>1, <3>1 DEF Origins
  <2>2. CASE t = "dispatch"
    BY <2>2
  <2> QED BY <2>1, <2>2 DEF Thread
<1> QED BY <1>1, <1>2, <1>3 DEF Origins

(* What a plan needs to stay busy.                                          *)
LEMMA BusyKeeps ==
  ASSUME NEW p \in Plans, Busy(p), p \in known' \/ known' = known, ~Starting(p)',
         Executing(p)' => Dispatched', ~Executing(p)' => Out(p)'
  PROVE  Busy(p)'
BY DEF Busy, Fresh

-----------------------------------------------------------------------------
(* One redis write.  The save of a report is the one that frees a plan, and *)
(* was owed; the saves of the poll thread are of plans it executes or of    *)
(* plans that were free already.                                            *)

LEMMA DispatchWriteKeeps ==
  ASSUME OverlapInv, Write("dispatch")
  PROVE  Chains' /\ Origins' /\ Ledger'
<1> DEFINE n == todo'["dispatch"]
           op == Head(todo["dispatch"])
<1>1. /\ TypeOK /\ Chains /\ Origins /\ Ledger /\ "dispatch" \in Thread /\ "poll" \in Thread
      /\ Chain(todo["dispatch"]) /\ todo["dispatch"] # <<>>
      /\ todo["dispatch"] \in Seq(Op) /\ ~Ends(todo["dispatch"], "exec")
      /\ NoKey \notin Plans
  BY DispatcherAssumption DEF OverlapInv, Chains, Thread, Write, TypeOK, HandType
<1>2. PICK p \in Plans : key["dispatch"] = p
  BY <1>1 DEF TypeOK, HandType
<1>3. /\ Chain(n) /\ ~Starts(n, "full") /\ ~Ends(n, "exec")
      /\ Ends(n, "res") <=> Ends(todo["dispatch"], "res") /\ op # "res"
      /\ key'["dispatch"] \in {NoKey, p}
      /\ n # <<>> => msg'["dispatch"].exec_state = msg["dispatch"].exec_state
  BY <1>1, <1>2, WriteHands
<1>4. /\ key'["poll"] = key["poll"] /\ msg'["poll"] = msg["poll"]
      /\ todo'["poll"] = todo["poll"]
  BY <1>1, WriteHands
<1>5. /\ \A q \in Plans \ {p} : store'[q] = store[q]
      /\ op \notin {"full", "exec", "res"} => (Out(p) => Out(p)')
      /\ op \in {"full", "exec", "res"} => store'[p].exec_state = msg["dispatch"].exec_state
  BY <1>1, <1>2, WriteHash
<1>6. /\ UNCHANGED <<pc, known, ran, requests, replies, again, missed, crashes>>
  BY DEF Write, network, bounds, history
<1>7. p \in known
  BY <1>1, <1>2 DEF Origins
<1>8. op # "exec"
  <2>1. Len(todo["dispatch"]) \in Nat \ {0} /\ op = todo["dispatch"][1]
    BY <1>1, EmptySeq
  <2> QED BY <1>1, <2>1 DEF Chain, Ends
<1>9. op = "full" => Starts(todo["dispatch"], "full")
  BY <1>1 DEF Starts
<1>10. op = "res" => Ends(todo["dispatch"], "res") /\ ~Starts(todo["dispatch"], "full")
  <2>1. Len(todo["dispatch"]) \in Nat \ {0} /\ op = todo["dispatch"][1]
    BY <1>1, EmptySeq
  <2> QED BY <1>1, <2>1 DEF Chain, Ends, Starts
<1>11. Starts(todo["dispatch"], "full") => op = "full"
  BY DEF Starts
<1>12. Ends(n, "res") => n # <<>>
  BY DEF Ends
<1> HIDE DEF n, op
<1>13. Chains'
  BY <1>1, <1>3, <1>4, ChainsKeep DEF n, Thread
<1>14. \A q \in Plans : ~Starting(q)'
  BY <1>3 DEF Starting, n
<1>15. Origins'
  BY <1>1, <1>2, <1>3, <1>4, <1>5, <1>6, <1>7, <1>14, OriginsKeep DEF Thread
<1>16. /\ Held' <=> Held
       /\ Dispatched' <=> Dispatched
       /\ \A q \in Plans : Executing(q)' <=> Executing(q)
  BY <1>4, <1>6 DEF Held, Executing, Dispatched
<1>17. \A q \in Plans \ {p} : Busy(q) => Busy(q)'
  <2> SUFFICES ASSUME NEW q \in Plans \ {p}, Busy(q) PROVE Busy(q)'
    OBVIOUS
  <2>1. Out(q)' <=> Out(q)
    BY <1>5 DEF Out, Whole, Exists
  <2> QED BY <1>6, <1>14, <1>16, <2>1, BusyKeeps DEF Busy
<1>18. ASSUME Out(p) => Out(p)' PROVE Busy(p) => Busy(p)'
  BY <1>6, <1>14, <1>16, <1>18, BusyKeeps DEF Busy
<1>19. /\ Owed = IF Ends(todo["dispatch"], "res") /\ msg["dispatch"].exec_state # "wait"
                 THEN IF op = "full" THEN 2 ELSE 1
                 ELSE 0
       /\ Owed' = IF Ends(todo["dispatch"], "res") /\ op # "res"
                     /\ msg["dispatch"].exec_state # "wait" THEN 1 ELSE 0
  BY <1>3, <1>9, <1>11, <1>12 DEF Owed, n
<1>20. /\ Paid' = Paid + 0
       /\ \A d \in Int : Owed' = Owed + d => Due' = Due + d
  <2>1. Paid' = Paid + 0
    BY <1>1, <1>6, LedgerType DEF Paid
  <2>2. ASSUME NEW d \in Int, Owed' = Owed + d PROVE Due' = Due + d
    <3> DEFINE c == Cardinality(Refusals(replies))
    <3>1. /\ Due = ran + Len(requests) + c + Owed
          /\ Due' = ran + Len(requests) + c + (Owed + d)
      BY <1>6, <2>2 DEF Due
    <3>2. {ran, Len(requests), c, Owed} \subseteq Int
      BY <1>1, LedgerType
    <3> HIDE DEF c
    <3> QED BY <3>1, <3>2
  <2> QED BY <2>1, <2>2
<1>21. CASE op \notin {"full", "res"}
  <2>1. Owed' = Owed + 0
    BY <1>19, <1>21
  <2>2. \A q \in Plans : Busy(q) => Busy(q)'
    BY <1>5, <1>8, <1>17, <1>18, <1>21
  <2> QED BY <1>1, <1>13, <1>15, <1>20, <2>1, <2>2, NoneLost
<1>22. CASE op \in {"full", "res"} /\ ~Ends(todo["dispatch"], "res")
  <2>1. Owed' = Owed + 0
    BY <1>19, <1>22
  <2>2. Starting(p)
    BY <1>2, <1>9, <1>10, <1>22 DEF Starting
  <2>3. \A q \in Plans : Busy(q) => Busy(q)'
    BY <1>17, <2>2 DEF Busy, Fresh
  <2> QED BY <1>1, <1>13, <1>15, <1>20, <2>1, <2>3, NoneLost
<1>23. CASE /\ op \in {"full", "res"} /\ Ends(todo["dispatch"], "res")
            /\ msg["dispatch"].exec_state = "wait"
  <2>1. Owed' = Owed + 0
    BY <1>19, <1>23
  <2>2. Out(p)'
    BY <1>5, <1>23 DEF Out
  <2>3. \A q \in Plans : Busy(q) => Busy(q)'
    BY <1>17, <1>18, <2>2
  <2> QED BY <1>1, <1>13, <1>15, <1>20, <2>1, <2>3, NoneLost
<1>24. CASE /\ op \in {"full", "res"} /\ Ends(todo["dispatch"], "res")
            /\ msg["dispatch"].exec_state # "wait"
  <2>1. Owed' = Owed + (-1)
    BY <1>19, <1>24
  <2>2. Due' = Due + (-1)
    BY <1>20, <2>1
  <2>3. (-1) + 1 <= 0 /\ -1 \in Int /\ 0 \in Int
    OBVIOUS
  <2> QED BY <1>1, <1>13, <1>15, <1>17, <1>20, <2>2, <2>3, OneLost
<1> QED BY <1>21, <1>22, <1>23, <1>24

LEMMA PollWriteKeeps ==
  ASSUME OverlapInv, Write("poll")
  PROVE  Chains' /\ Origins' /\ Ledger'
<1> DEFINE n == todo'["poll"]
           op == Head(todo["poll"])
<1>1. /\ TypeOK /\ Chains /\ Origins /\ Ledger /\ "dispatch" \in Thread /\ "poll" \in Thread
      /\ Chain(todo["poll"]) /\ todo["poll"] # <<>>
      /\ todo["poll"] \in Seq(Op) /\ NoKey \notin Plans
  BY DispatcherAssumption DEF OverlapInv, Chains, Thread, Write, TypeOK, HandType
<1>2. PICK p \in Plans : key["poll"] = p
  BY <1>1 DEF TypeOK, HandType
<1>3. /\ Chain(n) /\ ~Starts(n, "full") /\ ~Ends(n, "exec")
      /\ Ends(n, "res") <=> Ends(todo["poll"], "res") /\ op # "res"
      /\ key'["poll"] \in {NoKey, p}
  BY <1>1, <1>2, WriteHands
<1>4. /\ key'["dispatch"] = key["dispatch"] /\ msg'["dispatch"] = msg["dispatch"]
      /\ todo'["dispatch"] = todo["dispatch"]
  BY <1>1, WriteHands
<1>5. /\ \A q \in Plans \ {p} : store'[q] = store[q]
      /\ op \notin {"full", "exec", "res"} => (Out(p) => Out(p)')
      /\ op \in {"full", "exec", "res"} => store'[p].exec_state = msg["poll"].exec_state
  BY <1>1, <1>2, WriteHash
<1>6. /\ UNCHANGED <<pc, known, ran, requests, replies, again, missed, crashes>>
  BY DEF Write, network, bounds, history
<1>7. p \in known /\ ~Starting(p)
  BY <1>1, <1>2 DEF Origins
<1>8. op = "exec" => /\ Ends(todo["poll"], "exec") /\ ~Ends(todo["poll"], "res")
  <2>1. Len(todo["poll"]) \in Nat \ {0} /\ op = todo["poll"][1]
    BY <1>1, EmptySeq
  <2> QED BY <1>1, <2>1 DEF Chain, Ends
<1>9. op = "full" => Starts(todo["poll"], "full") /\ ~Dispatched
  <2>1. Len(todo["poll"]) \in Nat \ {0} /\ op = todo["poll"][1]
    BY <1>1, EmptySeq
  <2> QED BY <1>1, <2>1 DEF Chain, Starts, Ends, Dispatched
<1>10. op = "res" => Ends(todo["poll"], "res") /\ ~Dispatched
  <2>1. Len(todo["poll"]) \in Nat \ {0} /\ op = todo["poll"][1]
    BY <1>1, EmptySeq
  <2> QED BY <1>1, <2>1 DEF Chain, Ends, Dispatched
<1>11. pc \notin {"send", "recv"}
  BY <1>1 DEF TypeOK, PollType
<1> HIDE DEF n, op
<1>12. Chains'
  BY <1>1, <1>3, <1>4, ChainsKeep DEF n, Thread
<1>13. \A q \in Plans : Starting(q)' <=> Starting(q)
  BY <1>4 DEF Starting
<1>14. Origins'
  <2>1. key'["poll"] \in Plans => key'["poll"] \in known
    BY <1>1, <1>3, <1>7
  <2>2. \A q \in Plans : q \in known \/ store'[q] = store[q]
    BY <1>5, <1>7
  <2>3. \A q \in Plans : Starting(q) => store'[q] = store[q] /\ key'["poll"] # q
    BY <1>1, <1>3, <1>5, <1>7
  <2>4. "poll" # "dispatch"
    OBVIOUS
  <2>5. \A u \in Thread \ {"poll"} : key'[u] = key[u] /\ todo'[u] = todo[u]
    BY <1>4 DEF Thread
  <2> QED BY <1>1, <1>6, <2>1, <2>2, <2>3, <2>4, <2>5, OriginsKeep
<1>15. \A q \in Plans \ {p} : Busy(q) => Busy(q)'
  <2> SUFFICES ASSUME NEW q \in Plans \ {p}, Busy(q) PROVE Busy(q)'
    OBVIOUS
  <2>1. Out(q)' <=> Out(q)
    BY <1>5 DEF Out, Whole, Exists
  <2>2. ~Executing(q) /\ ~Executing(q)'
    BY <1>1, <1>2, <1>3 DEF Executing
  <2> QED BY <1>6, <1>13, <2>1, <2>2, BusyKeeps DEF Busy, Fresh
<1>16. Busy(p) => Busy(p)'
  <2> SUFFICES ASSUME Busy(p) PROVE Busy(p)'
    OBVIOUS
  <2>1. Executing(p) => Dispatched
    BY DEF Busy
  <2>2. ~Starting(p)'
    BY <1>7, <1>13
  <2>3. Executing(p)' => Ends(todo["poll"], "res") /\ op # "res"
    BY <1>3, <1>6, <1>11 DEF Executing, Held, Dispatched, n
  <2>4. Executing(p) <=> \/ Dispatched \/ Ends(todo["poll"], "res")
                         \/ Starts(todo["poll"], "full")
    BY <1>2, <1>11 DEF Executing, Held
  <2>5. Dispatched => ~Ends(todo["poll"], "res")
    BY DEF Dispatched, Ends
  <2>6. (~Ends(todo["poll"], "res") /\ ~Starts(todo["poll"], "full")) \/ Dispatched
    BY <2>1, <2>4
  <2>7. op \notin {"full", "res"}
    BY <1>9, <1>10, <2>6
  <2>8. Out(p)'
    <3>1. CASE op = "exec"
      <4>1. msg["poll"].exec_state = "runing"
        BY <1>1, <1>8, <3>1 DEF Chains, Dispatched
      <4> QED BY <1>5, <3>1, <4>1 DEF Out
    <3>2. CASE op # "exec"
      <4>1. ~Dispatched
        <5> SUFFICES ASSUME Dispatched PROVE FALSE
          OBVIOUS
        <5>1. Len(todo["poll"]) \in Nat \ {0} /\ op = todo["poll"][1]
          BY <1>1, EmptySeq DEF op
        <5> QED BY <1>1, <3>2, <5>1 DEF Chain, Ends, Dispatched
      <4>2. Out(p)
        BY <2>4, <2>6, <4>1 DEF Busy
      <4> QED BY <1>5, <2>7, <3>2, <4>2
    <3> QED BY <3>1, <3>2
  <2>9. ~Executing(p)'
    BY <2>3, <2>5, <2>6
  <2> QED BY <1>6, <2>2, <2>8, <2>9, BusyKeeps
<1>17. \A q \in Plans : Busy(q) => Busy(q)'
  BY <1>15, <1>16
<1>18. Due' = Due + 0 /\ Paid' = Paid + 0
  <2>1. Owed' = Owed
    BY <1>4 DEF Owed
  <2>2. Due' = Due /\ Paid' = Paid
    BY <1>6, <2>1 DEF Due, Paid
  <2> QED BY <1>1, <2>2, LedgerType
<1> QED BY <1>1, <1>12, <1>14, <1>17, <1>18, NoneLost

-----------------------------------------------------------------------------
(* on_plan_result leaves the save of the report to be made last.            *)
LEMMA ResultHands ==
  ASSUME HandType, NEW t \in Thread, NEW p \in Plans, NEW m \in Message,
         NEW s \in Status \ {"runing"}, Result(t, p, m, s)
  PROVE  /\ key'[t] = p /\ msg'[t].exec_state = s
         /\ Chain(todo'[t]) /\ Ends(todo'[t], "res") /\ ~Ends(todo'[t], "exec")
         /\ Starts(todo'[t], "full") <=> m.plan_state = "none" /\ s \in {"ok", "fail"}
         /\ \A u \in Thread \ {t} : /\ key'[u] = key[u] /\ msg'[u] = msg[u]
                                    /\ todo'[u] = todo[u]
<1> DEFINE e == Answered(m, s)
           n == e.ops \o <<"res">>
<1>1. /\ e.m \in Message /\ e.m.exec_state = s
      /\ e.ops \in NextOps \cup {<<>>, <<"state", "zrem">>}
      /\ e.ops = <<"full", "check">> <=> m.plan_state = "none" /\ s \in {"ok", "fail"}
  BY AnsweredType, AnsweredWrites DEF Effects
<1>2. Take(t, p, e.m, n)
  BY DEF Result
<1> HIDE DEF e
<1>3. /\ n \in Seq(Op) /\ Chain(n) /\ Ends(n, "res") /\ ~Ends(n, "exec")
      /\ Starts(n, "full") <=> e.ops = <<"full", "check">>
  BY <1>1, ChainResult
<1> HIDE DEF n
<1>4. /\ key'[t] = p /\ msg'[t] = e.m /\ todo'[t] = n
      /\ \A u \in Thread \ {t} : /\ key'[u] = key[u] /\ msg'[u] = msg[u]
                                 /\ todo'[u] = todo[u]
  BY <1>1, <1>2, <1>3, TakeType
<1> QED BY <1>1, <1>3, <1>4

(* A step that leaves the hands, the hash and the poll thread alone.        *)
LEMMA HandsAlone ==
  ASSUME OverlapInv, UNCHANGED <<key, msg, todo, store, known>>,
         pc' \in {"send", "recv"} <=> pc \in {"send", "recv"}
  PROVE  /\ Chains' /\ Origins' /\ Owed' = Owed
         /\ \A p \in Plans : Busy(p) => Busy(p)'
<1>1. Chains'
  BY DEF OverlapInv, Chains, Dispatched
<1>2. \A p \in Plans : Starting(p)' <=> Starting(p)
  BY DEF Starting
<1>3. Origins'
  BY <1>2 DEF OverlapInv, Origins
<1>4. Owed' = Owed
  BY DEF Owed
<1>5. ASSUME NEW p \in Plans, Busy(p) PROVE Busy(p)'
  <2>1. /\ Executing(p)' <=> Executing(p)
        /\ Dispatched' <=> Dispatched
    BY DEF Executing, Held, Dispatched
  <2>2. Out(p)' <=> Out(p)
    BY DEF Out, Whole, Exists
  <2> QED BY <1>2, <1>5, <2>1, <2>2 DEF Busy, Fresh
<1> QED BY <1>1, <1>3, <1>4, <1>5

(* A step that counts nothing.                                              *)
LEMMA NothingCounted ==
  ASSUME TypeOK, UNCHANGED <<ran, requests, replies, again, missed, crashes>>,
         pc' = "recv" <=> pc = "recv", Owed' = Owed
  PROVE  Due' = Due + 0 /\ Paid' = Paid + 0
<1>1. Due' = Due /\ Paid' = Paid
  BY DEF Due, Paid
<1> QED BY <1>1, LedgerType

-----------------------------------------------------------------------------
(* The poll thread.                                                         *)

LEMMA PassOverKeeps ==
  ASSUME OverlapInv, NEW p \in Plans, PollKey(p), PassOver(p), UNCHANGED again
  PROVE  Chains' /\ Origins' /\ Ledger'
<1>1. /\ UNCHANGED <<key, msg, todo, store, known, pc>>
      /\ UNCHANGED <<ran, requests, replies, again, missed, crashes>>
  BY DEF PollKey, PassOver, redis, network, bounds
<1>2. /\ Chains' /\ Origins' /\ Owed' = Owed
      /\ \A q \in Plans : Busy(q) => Busy(q)'
  BY <1>1, HandsAlone
<1>3. TypeOK /\ Ledger
  BY DEF OverlapInv
<1>4. Due' = Due + 0 /\ Paid' = Paid + 0
  BY <1>1, <1>2, <1>3, NothingCounted
<1> QED BY <1>2, <1>3, <1>4, NoneLost

(* exec_now takes a plan up that is there, and known.                       *)
LEMMA PollTakes ==
  ASSUME OverlapInv, NEW p \in Plans, PollKey(p), Whole(p),
         NEW m \in Message, NEW ops \in Seq(Op), Take("poll", p, m, ops),
         Chain(ops), ~Ends(ops, "exec")
  PROVE  /\ Chains' /\ Origins' /\ Owed' = Owed
         /\ key'["poll"] = p /\ todo'["poll"] = ops /\ ~Dispatched'
         /\ p \in known /\ known' = known /\ ~Starting(p)'
         /\ \A q \in Plans : ~Executing(q) /\ (Out(q)' <=> Out(q))
         /\ \A q \in Plans \ {p} : Busy(q) => Busy(q)'
<1>1. /\ TypeOK /\ Chains /\ Origins /\ "dispatch" \in Thread /\ "poll" \in Thread
      /\ pc = "scan" /\ todo["poll"] = <<>>
      /\ UNCHANGED <<store, known>>
  BY DEF OverlapInv, PollKey, Thread, redis
<1>2. /\ key'["poll"] = p /\ msg'["poll"] = m /\ todo'["poll"] = ops
      /\ \A u \in Thread \ {"poll"} : /\ key'[u] = key[u] /\ msg'[u] = msg[u]
                                      /\ todo'[u] = todo[u]
  BY <1>1, TakeType DEF TypeOK
<1>3. p \in known /\ store[p] # NoHash
  BY <1>1 DEF Whole, Exists, Origins
<1>4. \A q \in Plans : Starting(q)' <=> Starting(q)
  BY <1>2 DEF Starting, Thread
<1>5. ~Starting(p)
  BY <1>1, <1>3 DEF Origins
<1>6. Chains'
  BY <1>1, <1>2, ChainsKeep
<1>7. Origins'
  <2>1. \A q \in Plans : Starting(q) => store'[q] = store[q] /\ key'["poll"] # q
    BY <1>1, <1>2, <1>5
  <2>2. "poll" # "dispatch"
    OBVIOUS
  <2> QED BY <1>1, <1>2, <1>3, <2>1, <2>2, OriginsKeep
<1>8. Owed' = Owed
  BY <1>2 DEF Owed, Thread
<1>9. \A q \in Plans : ~Executing(q) /\ (Out(q)' <=> Out(q))
  BY <1>1 DEF Executing, Held, Dispatched, Starts, Ends, Out, Whole, Exists
<1>10. ASSUME NEW q \in Plans \ {p}, Busy(q) PROVE Busy(q)'
  <2>1. ~Executing(q)'
    BY <1>2 DEF Executing
  <2> QED BY <1>1, <1>4, <1>9, <1>10, <2>1 DEF Busy, Fresh
<1>11. ~Dispatched'
  BY <1>2 DEF Dispatched
<1> QED BY <1>1, <1>2, <1>3, <1>4, <1>5, <1>6, <1>7, <1>8, <1>9, <1>10, <1>11

LEMMA PollSaveKeeps ==
  ASSUME OverlapInv, NEW p \in Plans, PollKey(p), PollSave(p), UNCHANGED again
  PROVE  Chains' /\ Origins' /\ Ledger'
<1> DEFINE m == store[p]
           n == SkipNum(m, m.skip_num + 1)
<1>1. /\ TypeOK /\ Ledger /\ pc = "scan" /\ pc' = "scan" /\ Whole(p) /\ m \in Message
      /\ UNCHANGED <<ran, requests, replies, again, missed, crashes>>
  <2>1. TypeOK /\ Whole(p) /\ Exists(p)
    BY DEF OverlapInv, PollSave, Whole
  <2>2. m \in Message
    BY <2>1, HashType DEF TypeOK
  <2> QED BY <2>1, <2>2 DEF OverlapInv, PollKey, PollSave, network, bounds
<1>2. Keeps(n, m) /\ Keeps(m, m)
  <2> HIDE DEF m
  <2>1. m.skip_num + 1 \in Int
    BY <1>1, MessageFields
  <2>2. Keeps(n, m)
    BY <1>1, <2>1, FieldType
  <2> QED BY <1>1, <2>2 DEF Keeps
<1>3. \/ Take("poll", p, n, <<"skip">>)
      \/ Take("poll", p, ErrorIt(m).m, <<"close", "zrem">>)
      \/ ~Out(p) /\ Take("poll", p, NextTime(n).m, NextTime(n).ops)
  BY <1>1 DEF PollSave, SkipNum, ErrorIt, Effect, Out
<1> HIDE DEF m, n
<1>4. /\ n \in Message /\ ErrorIt(m).m \in Message /\ NextTime(n).m \in Message
      /\ NextTime(n).ops \in NextOps
  <2>1. n \in Message
    BY <1>2 DEF Keeps
  <2>2. ErrorIt(m) \in Effects /\ NextTime(n) \in Effects
    BY <1>1, <1>2, EndsType, NextTimeType DEF EffectOn
  <2> QED BY <2>1, <2>2, NextWrites DEF Effects
<1>5. PICK x \in Message, ops \in CheckedOps \cup NextOps \cup OtherOps :
        Take("poll", p, x, ops) /\ (~Out(p) \/ ops \in {<<"skip">>, <<"close", "zrem">>})
  <2>1. CASE Take("poll", p, n, <<"skip">>)
    BY <1>4, <2>1 DEF OtherOps
  <2>2. CASE Take("poll", p, ErrorIt(m).m, <<"close", "zrem">>)
    BY <1>4, <2>2 DEF CheckedOps
  <2>3. CASE ~Out(p) /\ Take("poll", p, NextTime(n).m, NextTime(n).ops)
    BY <1>4, <2>3
  <2> QED BY <1>3, <2>1, <2>2, <2>3
<1>6. /\ ops \in Seq(Op) /\ Chain(ops) /\ ~Ends(ops, "res") /\ ~Ends(ops, "exec")
      /\ Starts(ops, "full") <=> ops = <<"full", "check">>
  BY ChainPlain
<1>7. /\ Chains' /\ Origins' /\ Owed' = Owed
      /\ key'["poll"] = p /\ todo'["poll"] = ops /\ ~Dispatched'
      /\ p \in known /\ known' = known /\ ~Starting(p)'
      /\ \A q \in Plans : ~Executing(q) /\ (Out(q)' <=> Out(q))
      /\ \A q \in Plans \ {p} : Busy(q) => Busy(q)'
  BY <1>1, <1>5, <1>6, PollTakes
<1>8. Busy(p) => Busy(p)'
  <2> SUFFICES ASSUME Busy(p) PROVE Busy(p)'
    OBVIOUS
  <2>1. Out(p)
    BY <1>7 DEF Busy
  <2>2. ops \in {<<"skip">>, <<"close", "zrem">>}
    BY <1>5, <2>1
  <2>3. ~Starts(ops, "full")
    BY <2>2 DEF Starts
  <2>4. ~Executing(p)'
    BY <1>1, <1>6, <1>7, <2>3 DEF Executing, Held, Dispatched
  <2> QED BY <1>7, <2>1, <2>4, BusyKeeps
<1>9. Due' = Due + 0 /\ Paid' = Paid + 0
  BY <1>1, <1>7, NothingCounted
<1> QED BY <1>1, <1>7, <1>8, <1>9, NoneLost

LEMMA PollExecuteKeeps ==
  ASSUME OverlapInv, TypeOK', NEW p \in Plans, PollKey(p), PollExecute(p)
  PROVE  Chains' /\ Origins' /\ Ledger'
<1>1. /\ TypeOK /\ Ledger /\ pc = "scan" /\ pc' = "send" /\ Whole(p)
      /\ UNCHANGED <<ran, requests, replies, missed, crashes>>
      /\ store[p].exec_state # "wait"
      /\ again' = IF store[p].exec_state = "runing" THEN again + 1 ELSE again
  BY DEF OverlapInv, PollKey, PollExecute, network, bounds
<1>2. PICK m : Take("poll", p, m, <<>>)
  BY DEF PollExecute
<1>3. m \in Message
  <2>1. msg'["poll"] = m
    BY <1>1, <1>2 DEF Take, TypeOK, HandType, Thread
  <2> QED BY <2>1 DEF TypeOK, HandType, Thread
<1>4. <<>> \in Seq(Op) /\ Chain(<<>>) /\ ~Ends(<<>>, "exec")
  BY DEF Chain, Ends
<1>5. /\ Chains' /\ Origins' /\ Owed' = Owed
      /\ \A q \in Plans : ~Executing(q) /\ (Out(q)' <=> Out(q))
      /\ \A q \in Plans \ {p} : Busy(q) => Busy(q)'
  BY <1>1, <1>2, <1>3, <1>4, PollTakes
<1>6. {ran, again, missed, crashes} \subseteq Nat /\ Due \in Int
  BY <1>1, LedgerType
<1>7. Due' = Due + 0
  <2>1. Due' = Due
    BY <1>1, <1>5 DEF Due
  <2> QED BY <1>6, <2>1
<1>8. CASE store[p].exec_state = "runing"
  <2>1. Paid' = Paid + 1
    BY <1>1, <1>6, <1>8 DEF Paid
  <2>2. 0 \in Int /\ 1 \in Int /\ 0 + 1 <= 1
    OBVIOUS
  <2> QED BY <1>1, <1>5, <1>7, <2>1, <2>2, OneLost
<1>9. CASE store[p].exec_state # "runing"
  <2>1. Paid' = Paid + 0
    BY <1>1, <1>6, <1>9 DEF Paid
  <2>2. ~Busy(p)
    BY <1>1, <1>5, <1>9 DEF Busy, Out
  <2>3. \A q \in Plans : Busy(q) => Busy(q)'
    BY <1>5, <2>2
  <2> QED BY <1>1, <1>5, <1>7, <2>1, <2>3, NoneLost
<1> QED BY <1>8, <1>9

-----------------------------------------------------------------------------
(* The plan the poll thread sends is known, and not counted as busy.        *)
LEMMA Sending ==
  ASSUME OverlapInv, pc \in {"send", "recv"}
  PROVE  /\ key["poll"] \in Plans /\ msg["poll"] \in Message /\ todo["poll"] = <<>>
         /\ key["poll"] \in known /\ \A p \in Plans : Starting(p) => key["poll"] # p
         /\ Held /\ ~Dispatched /\ ~Busy(key["poll"])
<1>1. /\ key["poll"] \in Plans /\ msg["poll"] \in Message /\ todo["poll"] = <<>>
  BY DEF OverlapInv, TypeOK, PollType, HandType, Thread
<1>2. /\ key["poll"] \in known /\ \A p \in Plans : Starting(p) => key["poll"] # p
  BY <1>1 DEF OverlapInv, Origins, Thread
<1>3. Held /\ ~Dispatched
  BY <1>1 DEF Held, Dispatched, Ends
<1>4. ~Busy(key["poll"])
  BY <1>3 DEF Busy, Executing
<1> QED BY <1>1, <1>2, <1>3, <1>4

LEMMA PollResultKeeps ==
  ASSUME OverlapInv, pc \in {"send", "recv"}, NEW s \in Status \ {"runing"},
         Result("poll", key["poll"], msg["poll"], s), UNCHANGED <<store, known>>
  PROVE  /\ Chains' /\ Origins' /\ Owed' = Owed
         /\ \A p \in Plans : Busy(p) => Busy(p)'
<1>1. PICK p \in Plans : key["poll"] = p
  BY Sending
<1>2. /\ msg["poll"] \in Message /\ p \in known /\ ~Starting(p) /\ Held /\ ~Dispatched
      /\ Chains /\ Origins /\ HandType /\ "poll" \in Thread
  BY <1>1, Sending DEF OverlapInv, TypeOK, Thread
<1>3. /\ key'["poll"] = p
      /\ Chain(todo'["poll"]) /\ Ends(todo'["poll"], "res") /\ ~Ends(todo'["poll"], "exec")
      /\ \A u \in Thread \ {"poll"} : /\ key'[u] = key[u] /\ msg'[u] = msg[u]
                                      /\ todo'[u] = todo[u]
  BY <1>1, <1>2, ResultHands
<1>4. \A q \in Plans : Starting(q)' <=> Starting(q)
  BY <1>3 DEF Starting, Thread
<1>5. Chains'
  BY <1>2, <1>3, ChainsKeep
<1>6. Origins'
  <2>1. \A q \in Plans : Starting(q) => store'[q] = store[q] /\ key'["poll"] # q
    BY <1>2, <1>3
  <2>2. "poll" # "dispatch"
    OBVIOUS
  <2> QED BY <1>2, <1>3, <2>1, <2>2, OriginsKeep
<1>7. Owed' = Owed
  BY <1>3 DEF Owed, Thread
<1>8. Held' /\ ~Dispatched'
  BY <1>3 DEF Held, Dispatched
<1>9. ASSUME NEW q \in Plans, Busy(q) PROVE Busy(q)'
  <2>1. q # p
    BY <1>1, <1>2, <1>9 DEF Busy, Executing
  <2>2. ~Executing(q) /\ ~Executing(q)'
    BY <1>1, <1>3, <2>1 DEF Executing
  <2>3. Out(q)' <=> Out(q)
    BY DEF Out, Whole, Exists
  <2> QED BY <1>4, <1>9, <2>2, <2>3 DEF Busy, Fresh
<1> QED BY <1>5, <1>6, <1>7, <1>9

LEMMA SendKeeps ==
  ASSUME OverlapInv, Send
  PROVE  Chains' /\ Origins' /\ Ledger'
<1>1. /\ TypeOK /\ Ledger /\ pc = "send"
      /\ UNCHANGED <<store, known, ran, replies, again, missed, crashes>>
  BY DEF OverlapInv, Send, redis, bounds
<1>2. {ran, again, missed, crashes, Len(requests), Cardinality(Refusals(replies)), Owed}
        \subseteq Int /\ Due \in Int /\ Paid \in Int
  BY <1>1, LedgerType
<1>3. CASE /\ requests' = Append(requests, key["poll"]) /\ pc' = "recv"
           /\ UNCHANGED <<key, msg, todo>>
  <2>1. /\ Chains' /\ Origins' /\ Owed' = Owed
        /\ \A p \in Plans : Busy(p) => Busy(p)'
    BY <1>1, <1>3, HandsAlone
  <2>2. Len(requests') = Len(requests) + 1
    BY <1>1, <1>3 DEF TypeOK, NetworkType
  <2>3. Due' = Due + 1
    <3> DEFINE c == Cardinality(Refusals(replies))
    <3>1. /\ Due = ran + Len(requests) + c + Owed
          /\ Due' = ran + (Len(requests) + 1) + c + Owed
      BY <1>1, <2>1, <2>2 DEF Due
    <3> HIDE DEF c
    <3> QED BY <1>2, <3>1 DEF c
  <2>4. Paid' = Paid + 1
    BY <1>1, <1>2, <1>3 DEF Paid
  <2> QED BY <1>1, <2>1, <2>3, <2>4, NoneLost
<1>4. ASSUME NEW s \in SendOutcomes \ {"sent"},
             Result("poll", key["poll"], msg["poll"], s), pc' = "scan", UNCHANGED requests
      PROVE  Chains' /\ Origins' /\ Ledger'
  <2>1. s \in Status \ {"runing"}
    BY DispatcherAssumption DEF Status
  <2>2. /\ Chains' /\ Origins' /\ Owed' = Owed
        /\ \A p \in Plans : Busy(p) => Busy(p)'
    BY <1>1, <1>4, <2>1, PollResultKeeps
  <2>3. Due' = Due + 0 /\ Paid' = Paid + 0
    BY <1>1, <1>4, <2>2, NothingCounted
  <2> QED BY <1>1, <2>2, <2>3, NoneLost
<1> QED BY <1>3, <1>4 DEF Send

(* A time-out is counted; a refusal that is read has been counted when it   *)
(* was sent, and RUNING makes the plan busy, whoever it was meant for.      *)
LEMMA TimeOutKeeps ==
  ASSUME OverlapInv, ReceiveTimesOut
  PROVE  Chains' /\ Origins' /\ Ledger'
<1>1. /\ TypeOK /\ Ledger /\ pc = "recv" /\ pc' = "scan" /\ missed' = missed + 1
      /\ UNCHANGED <<store, known, ran, requests, replies, again, crashes>>
      /\ Result("poll", key["poll"], msg["poll"], "fault")
      /\ "fault" \in Status \ {"runing"}
  BY DEF OverlapInv, ReceiveTimesOut, redis, network, Status
<1>2. {ran, again, missed, crashes} \subseteq Int /\ Due \in Int
  BY <1>1, LedgerType
<1>3. /\ Chains' /\ Origins' /\ Owed' = Owed
      /\ \A p \in Plans : Busy(p) => Busy(p)'
  BY <1>1, PollResultKeeps
<1>4. Due' = Due + 0
  <2>1. Due' = Due
    BY <1>1, <1>3 DEF Due
  <2> QED BY <1>2, <2>1
<1>5. Paid' = Paid + 0
  BY <1>1, <1>2 DEF Paid
<1> QED BY <1>1, <1>3, <1>4, <1>5, NoneLost

LEMMA ReceiveKeeps ==
  ASSUME OverlapInv, Receive
  PROVE  Chains' /\ Origins' /\ Ledger'
<1> DEFINE c == Cardinality(Refusals(replies))
           x == Executed(msg["poll"], "runing")
<1>1. /\ TypeOK /\ Chains /\ Origins /\ Ledger /\ pc = "recv" /\ pc' = "scan"
      /\ replies \in Seq(Answers) /\ replies # <<>> /\ replies' = Tail(replies)
      /\ UNCHANGED <<store, known, ran, requests, again, missed, crashes>>
      /\ HandType /\ "poll" \in Thread
  BY DEF OverlapInv, Receive, TypeOK, NetworkType, redis, bounds, Thread
<1>2. /\ {ran, again, missed, crashes, Len(requests), c, Owed} \subseteq Int
      /\ Due \in Int /\ Paid \in Int
  BY <1>1, LedgerType
<1>3. Cardinality(Refusals(replies')) = IF Head(replies) = "runing" THEN c ELSE c - 1
  BY <1>1, RefusalsTail
<1>4. Paid' = Paid + (-1)
  BY <1>1, <1>2 DEF Paid
<1>5. \A d \in Int : Owed' = Owed /\ Cardinality(Refusals(replies')) = c + d => Due' = Due + d
  <2> SUFFICES ASSUME NEW d \in Int, Owed' = Owed, Cardinality(Refusals(replies')) = c + d
               PROVE  Due' = Due + d
    OBVIOUS
  <2>1. /\ Due = ran + Len(requests) + c + Owed
        /\ Due' = ran + Len(requests) + (c + d) + Owed
    BY <1>1 DEF Due
  <2> HIDE DEF c
  <2> QED BY <1>2, <2>1
<1> HIDE DEF c
<1>6. CASE Head(replies) # "runing"
  <2>1. Head(replies) \in Status \ {"runing"}
    <3>1. Head(replies) \in Answers
      BY <1>1
    <3> QED BY <1>6, <3>1, DispatcherAssumption DEF Status
  <2>2. Result("poll", key["poll"], msg["poll"], Head(replies))
    BY <1>6 DEF Receive
  <2>3. /\ Chains' /\ Origins' /\ Owed' = Owed
        /\ \A p \in Plans : Busy(p) => Busy(p)'
    BY <1>1, <2>1, <2>2, PollResultKeeps
  <2>4. Cardinality(Refusals(replies')) = c + (-1)
    BY <1>2, <1>3, <1>6
  <2>5. -1 \in Int /\ -1 <= -1
    OBVIOUS
  <2>6. Due' = Due + (-1)
    BY <1>5, <2>3, <2>4, <2>5
  <2> QED BY <1>1, <1>4, <2>3, <2>5, <2>6, NoneLost
<1>7. CASE Head(replies) = "runing"
  <2>1. PICK p \in Plans : key["poll"] = p
    BY <1>1, Sending
  <2>2. /\ msg["poll"] \in Message /\ p \in known /\ ~Starting(p)
        /\ Held /\ ~Dispatched /\ ~Busy(p)
    BY <1>1, <2>1, Sending
  <2>3. Take("poll", p, x, <<"exec">>)
    BY <1>7, <2>1 DEF Receive, Executed
  <2>4. x \in Message /\ x.exec_state = "runing"
    <3>1. "runing" \in ExecState
      BY DEF ExecState, Status
    <3> QED BY <2>2, <3>1, FieldType
  <2>5. <<"exec">> \in Seq(Op) /\ Chain(<<"exec">>) /\ Ends(<<"exec">>, "exec")
    BY DEF Op, SaveKind, Chain, Ends
  <2> HIDE DEF x
  <2>6. /\ key'["poll"] = p /\ msg'["poll"] = x /\ todo'["poll"] = <<"exec">>
        /\ \A u \in Thread \ {"poll"} : /\ key'[u] = key[u] /\ msg'[u] = msg[u]
                                        /\ todo'[u] = todo[u]
    <3> DEFINE ops == <<"exec">>
    <3>1. ops \in Seq(Op) /\ Take("poll", p, x, ops)
      BY <2>3, <2>5
    <3> HIDE DEF ops
    <3>2. /\ key'["poll"] = p /\ msg'["poll"] = x /\ todo'["poll"] = ops
          /\ \A u \in Thread \ {"poll"} : /\ key'[u] = key[u] /\ msg'[u] = msg[u]
                                          /\ todo'[u] = todo[u]
      BY <1>1, <2>4, <3>1, TakeType
    <3> QED BY <3>2 DEF ops
  <2>7. \A q \in Plans : Starting(q)' <=> Starting(q)
    BY <2>6 DEF Starting, Thread
  <2>8. Chains'
    BY <1>1, <2>4, <2>5, <2>6, ChainsKeep
  <2>9. Origins'
    <3>1. \A q \in Plans : Starting(q) => store'[q] = store[q] /\ key'["poll"] # q
      BY <1>1, <2>2, <2>6
    <3>2. "poll" # "dispatch"
      OBVIOUS
    <3> QED BY <1>1, <2>2, <2>6, <3>1, <3>2, OriginsKeep
  <2>10. Owed' = Owed
    BY <2>6 DEF Owed, Thread
  <2>11. Dispatched'
    BY <2>5, <2>6 DEF Dispatched
  <2>12. Busy(p)'
    BY <1>1, <2>2, <2>6, <2>7, <2>11 DEF Busy, Fresh, Executing, Held
  <2>13. \A q \in Plans : Busy(q) => Busy(q)'
    <3> SUFFICES ASSUME NEW q \in Plans, Busy(q), q # p PROVE Busy(q)'
      BY <2>2
    <3>1. ~Executing(q) /\ ~Executing(q)'
      BY <2>1, <2>6 DEF Executing
    <3>2. Out(q)' <=> Out(q)
      BY <1>1 DEF Out, Whole, Exists
    <3> QED BY <1>1, <2>7, <3>1, <3>2 DEF Busy, Fresh
  <2>14. Due' = Due + 0
    BY <1>2, <1>3, <1>5, <1>7, <2>10
  <2>15. 0 <= -1 + 1 /\ 0 \in Int /\ -1 \in Int
    OBVIOUS
  <2> QED BY <1>1, <1>4, <2>2, <2>8, <2>9, <2>12, <2>13, <2>14, <2>15, OneWon
<1> QED BY <1>6, <1>7

-----------------------------------------------------------------------------
(* The station and its workers.                                             *)

LEMMA StationKeeps ==
  ASSUME OverlapInv, StationAnswers
  PROVE  Chains' /\ Origins' /\ Ledger'
<1> DEFINE c == Cardinality(Refusals(replies))
<1>1. /\ TypeOK /\ Ledger
      /\ UNCHANGED <<key, msg, todo, store, known, pc, again, missed, crashes>>
      /\ replies \in Seq(Answers) /\ requests \in Seq(Plans) /\ requests # <<>>
      /\ requests' = Tail(requests)
  BY DEF OverlapInv, StationAnswers, TypeOK, NetworkType, redis, threads, bounds
<1>2. /\ {ran, again, missed, crashes, Len(requests), c, Owed} \subseteq Int
      /\ Due \in Int /\ Paid \in Int
  BY <1>1, LedgerType
<1>3. /\ Chains' /\ Origins' /\ Owed' = Owed
      /\ \A p \in Plans : Busy(p) => Busy(p)'
  BY <1>1, HandsAlone
<1>4. Len(requests') = Len(requests) - 1
  BY <1>1
<1>5. PICK s \in Answers : /\ replies' = Append(replies, s)
                           /\ ran' = IF s = "runing" THEN ran + 1 ELSE ran
  BY DEF StationAnswers
<1>6. Cardinality(Refusals(replies')) = IF s = "runing" THEN c ELSE c + 1
  BY <1>1, <1>5, RefusalsAppend
<1>7. Due' = Due + 0
  <2> HIDE DEF c
  <2>1. Due = ran + Len(requests) + c + Owed
    BY DEF Due, c
  <2>2. CASE s = "runing"
    <3>1. Due' = (ran + 1) + (Len(requests) - 1) + c + Owed
      BY <1>3, <1>4, <1>5, <1>6, <2>2 DEF Due
    <3> QED BY <1>2, <2>1, <3>1
  <2>3. CASE s # "runing"
    <3>1. Due' = ran + (Len(requests) - 1) + (c + 1) + Owed
      BY <1>3, <1>4, <1>5, <1>6, <2>3 DEF Due
    <3> QED BY <1>2, <2>1, <3>1
  <2> QED BY <2>2, <2>3
<1>8. Paid' = Paid + 0
  <2>1. Paid' = Paid
    BY <1>1 DEF Paid
  <2> QED BY <1>2, <2>1
<1> QED BY <1>1, <1>3, <1>7, <1>8, NoneLost

(* The steps that are none of the ledger's business.                        *)
LEMMA AsideKeeps ==
  ASSUME OverlapInv,
         \/ Tick \/ StartPoll \/ EndPoll
         \/ \E p \in Plans, s \in Reports : WorkerReports(p, s)
         \/ \E p \in Plans : JobLost(p)
         \/ UNCHANGED vars
  PROVE  Chains' /\ Origins' /\ Ledger'
<1>1. /\ TypeOK /\ Ledger
      /\ UNCHANGED <<key, msg, todo, store, known>>
      /\ UNCHANGED <<ran, requests, replies, again, missed, crashes>>
      /\ pc' \in {"send", "recv"} <=> pc \in {"send", "recv"}
      /\ pc' = "recv" <=> pc = "recv"
  <2>1. CASE Tick \/ UNCHANGED vars
    BY <2>1 DEF OverlapInv, Tick, vars, redis, threads, network, bounds, history
  <2>2. CASE StartPoll \/ EndPoll
    BY <2>2 DEF OverlapInv, StartPoll, EndPoll, redis, network, bounds, history
  <2>3. CASE \/ \E p \in Plans, s \in Reports : WorkerReports(p, s)
             \/ \E p \in Plans : JobLost(p)
    BY <2>3 DEF OverlapInv, WorkerReports, JobLost, redis, threads, history
  <2> QED BY <2>1, <2>2, <2>3
<1>2. /\ Chains' /\ Origins' /\ Owed' = Owed
      /\ \A p \in Plans : Busy(p) => Busy(p)'
  BY <1>1, HandsAlone
<1>3. Due' = Due + 0 /\ Paid' = Paid + 0
  BY <1>1, <1>2, NothingCounted
<1> QED BY <1>1, <1>2, <1>3, NoneLost

-----------------------------------------------------------------------------
(* The dispatcher thread.                                                   *)

(* The idle dispatcher takes up a plan that is known, without starting it.  *)
LEMMA DispatchTakes ==
  ASSUME OverlapInv, Idle, UNCHANGED <<store, known, pc>>,
         key'["dispatch"] \in Plans => key'["dispatch"] \in known,
         Chain(todo'["dispatch"]), ~Ends(todo'["dispatch"], "exec"),
         Starts(todo'["dispatch"], "full") => Ends(todo'["dispatch"], "res"),
         \A u \in Thread \ {"dispatch"} : /\ key'[u] = key[u] /\ msg'[u] = msg[u]
                                          /\ todo'[u] = todo[u]
  PROVE  /\ Chains' /\ Origins' /\ Owed = 0
         /\ \A p \in Plans : Busy(p) => Busy(p)'
<1>1. /\ Chains /\ Origins /\ "dispatch" \in Thread /\ "poll" \in Thread
      /\ todo["dispatch"] = <<>>
  BY DEF OverlapInv, Idle, Thread
<1>2. \A p \in Plans : ~Starting(p) /\ ~Starting(p)'
  BY <1>1 DEF Starting, Starts
<1>3. Chains'
  BY <1>1, ChainsKeep
<1>4. Origins'
  <2>1. "poll" # "dispatch"
    OBVIOUS
  <2> QED BY <1>1, <1>2, <2>1, OriginsKeep
<1>5. Owed = 0
  BY <1>1 DEF Owed, Ends
<1>6. /\ Dispatched' <=> Dispatched
      /\ \A p \in Plans : /\ Executing(p)' <=> Executing(p)
                          /\ Out(p)' <=> Out(p)
  BY <1>1 DEF Executing, Held, Dispatched, Out, Whole, Exists
<1>7. \A p \in Plans : Busy(p) => Busy(p)'
  BY <1>2, <1>6 DEF Busy, Fresh
<1> QED BY <1>3, <1>4, <1>5, <1>7

LEMMA StartKeeps ==
  ASSUME OverlapInv, NEW p \in Plans, NEW r \in Requests, OnPlanStart(p, r)
  PROVE  Chains' /\ Origins' /\ Ledger'
<1> DEFINE n == NewMessage(r, now)
           e == NextTime(n)
<1>1. /\ TypeOK /\ Chains /\ Origins /\ Ledger /\ HandType
      /\ "dispatch" \in Thread /\ "poll" \in Thread
      /\ todo["dispatch"] = <<>> /\ p \notin known /\ known' = known \cup {p}
      /\ Take("dispatch", p, e.m, e.ops)
      /\ UNCHANGED <<store, pc, ran, requests, replies, again, missed, crashes>>
  BY DEF OverlapInv, TypeOK, OnPlanStart, Idle, redis, network, bounds, Thread
<1>2. n \in Message /\ n.plan_state = "none"
  <2>1. n \in Message
    BY <1>1, DispatcherAssumption, NewMessageType DEF TypeOK, CountType
  <2> QED BY <2>1 DEF NewMessage
<1> HIDE DEF n
<1>3. e.m \in Message /\ e.ops = <<"full", "check">>
  <2>1. e \in Effects
    BY <1>2, NextTimeType DEF Keeps, EffectOn
  <2> QED BY <1>2, <2>1, NextWrites DEF Effects
<1> DEFINE ops == e.ops
<1>4. /\ ops \in Seq(Op) /\ Chain(ops) /\ ~Ends(ops, "res") /\ ~Ends(ops, "exec")
      /\ Starts(ops, "full")
  <2>1. <<"full", "check">> \in NextOps
    BY DEF NextOps
  <2> QED BY <1>3, <2>1, ChainPlain
<1> HIDE DEF e, ops
<1>5. /\ key'["dispatch"] = p /\ todo'["dispatch"] = ops
      /\ \A u \in Thread \ {"dispatch"} : /\ key'[u] = key[u] /\ msg'[u] = msg[u]
                                          /\ todo'[u] = todo[u]
  <2>1. Take("dispatch", p, e.m, ops)
    BY <1>1 DEF ops
  <2> QED BY <1>1, <1>3, <1>4, <2>1, TakeType
<1>6. Chains'
  BY <1>1, <1>4, <1>5, ChainsKeep
<1>7. \A q \in Plans : ~Starting(q) /\ (Starting(q)' <=> q = p)
  BY <1>1, <1>4, <1>5 DEF Starting, Starts
<1>8. /\ key'["poll"] = key["poll"] /\ todo'["poll"] = todo["poll"]
  BY <1>5 DEF Thread
<1>9. Origins'
  <2>1. \A u \in Thread : key'[u] \in Plans => key'[u] \in known'
    BY <1>1, <1>5, <1>8 DEF Origins, Thread
  <2>2. \A q \in Plans \ known' : store'[q] = NoHash
    BY <1>1 DEF Origins
  <2>3. store[p] = NoHash /\ key["poll"] # p
    BY <1>1 DEF Origins
  <2>4. \A q \in Plans : Starting(q)' => store'[q] = NoHash /\ key'["poll"] # q
    BY <1>1, <1>7, <1>8, <2>3
  <2> QED BY <2>1, <2>2, <2>4 DEF Origins
<1>10. /\ Dispatched' <=> Dispatched
       /\ \A q \in Plans : /\ Executing(q)' <=> Executing(q)
                           /\ Out(q)' <=> Out(q)
  BY <1>1, <1>8 DEF Executing, Held, Dispatched, Out, Whole, Exists
<1>11. ASSUME NEW q \in Plans, Busy(q) PROVE Busy(q)'
  <2>1. q # p /\ q \in known
    BY <1>1, <1>11 DEF Busy, Fresh
  <2>2. ~Fresh(q)'
    BY <1>1, <1>7, <2>1 DEF Fresh
  <2> QED BY <1>10, <1>11, <2>2 DEF Busy
<1>12. Owed' = Owed
  BY <1>1, <1>4, <1>5 DEF Owed, Ends
<1>13. Due' = Due + 0 /\ Paid' = Paid + 0
  BY <1>1, <1>12, NothingCounted
<1> QED BY <1>1, <1>6, <1>9, <1>11, <1>13, NoneLost

LEMMA CommandKeeps ==
  ASSUME OverlapInv, NEW p \in Plans, OnCommand(p)
  PROVE  Chains' /\ Origins' /\ Ledger'
<1>1. /\ TypeOK /\ Ledger /\ Idle /\ HandType /\ "dispatch" \in Thread /\ Whole(p)
      /\ UNCHANGED <<store, known, pc, ran, requests, replies, again, missed, crashes>>
  BY DEF OverlapInv, TypeOK, OnCommand, redis, network, history, Thread
<1>2. PICK ops \in CheckedOps \cup OtherOps : \E m : Take("dispatch", p, m, ops)
  <2>1. CASE OnSkip(p)
    <3>1. \E m : Take("dispatch", p, m, <<"skip">>)
      BY <2>1 DEF OnSkip
    <3>2. <<"skip">> \in OtherOps
      BY DEF OtherOps
    <3> QED BY <3>1, <3>2
  <2>2. CASE OnPause(p)
    <3>1. \E m : Take("dispatch", p, m, <<"state", "zrem">>)
      BY <2>2 DEF OnPause, PauseIt, Effect
    <3>2. <<"state", "zrem">> \in OtherOps
      BY DEF OtherOps
    <3> QED BY <3>1, <3>2
  <2>3. CASE OnReset(p)
    <3>1. \E m : Take("dispatch", p, m, <<"state", "join", "plan">>)
      BY <2>3 DEF OnReset
    <3>2. <<"state", "join", "plan">> \in OtherOps
      BY DEF OtherOps
    <3> QED BY <3>1, <3>2
  <2>4. CASE OnClose(p)
    <3>1. \E m : Take("dispatch", p, m, <<"zrem", "close">>)
      BY <2>4 DEF OnClose, CloseIt, Effect
    <3>2. <<"zrem", "close">> \in CheckedOps
      BY DEF CheckedOps
    <3> QED BY <3>1, <3>2
  <2>5. CASE OnRemove(p)
    <3>1. \E m : Take("dispatch", p, m, <<"del">>)
      BY <2>5 DEF OnRemove
    <3>2. <<"del">> \in OtherOps
      BY DEF OtherOps
    <3> QED BY <3>1, <3>2
  <2> QED BY <2>1, <2>2, <2>3, <2>4, <2>5 DEF OnCommand
<1>3. /\ ops \in Seq(Op) /\ Chain(ops) /\ ~Ends(ops, "res") /\ ~Ends(ops, "exec")
      /\ ~Starts(ops, "full")
  <2>1. ops # <<"full", "check">>
    <3>1. CASE ops \in CheckedOps
      BY <3>1 DEF CheckedOps
    <3>2. CASE ops \in OtherOps
      BY <3>2 DEF OtherOps
    <3> QED BY <3>1, <3>2
  <2> QED BY <2>1, ChainPlain
<1>4. /\ key'["dispatch"] = p /\ todo'["dispatch"] = ops
      /\ \A u \in Thread \ {"dispatch"} : /\ key'[u] = key[u] /\ msg'[u] = msg[u]
                                          /\ todo'[u] = todo[u]
  BY <1>1, <1>2 DEF Take, HandType
<1>5. p \in known
  BY <1>1 DEF OverlapInv, Origins, Whole, Exists
<1>6. /\ Chains' /\ Origins' /\ Owed = 0
      /\ \A q \in Plans : Busy(q) => Busy(q)'
  BY <1>1, <1>3, <1>4, <1>5, DispatchTakes
<1>7. Owed' = Owed
  BY <1>3, <1>4, <1>6 DEF Owed
<1>8. Due' = Due + 0 /\ Paid' = Paid + 0
  BY <1>1, <1>7, NothingCounted
<1> QED BY <1>1, <1>6, <1>8, NoneLost

(* A report that comes in is counted and owes as many saves.                *)
LEMMA ReportKeeps ==
  ASSUME OverlapInv, NEW p \in Plans, NEW s \in Reports, OnPlanResult(p, s)
  PROVE  Chains' /\ Origins' /\ Ledger'
<1>1. /\ TypeOK /\ Ledger /\ Idle /\ HandType /\ "dispatch" \in Thread
      /\ UNCHANGED <<store, known, pc, ran, requests, replies, missed, crashes>>
      /\ s \in Status \ {"runing"} /\ again' = again + Frees(p, s)
  BY DispatcherAssumption DEF OverlapInv, TypeOK, OnPlanResult, redis, bounds, Thread
<1>2. Frees(p, s) \in {0, 1, 2}
  BY DEF Frees
<1>3. /\ Chains' /\ Origins' /\ Owed = 0
      /\ \A q \in Plans : Busy(q) => Busy(q)'
      /\ Owed' \in 0..Frees(p, s)
  <2>1. CASE Whole(p)
    <3>1. store[p] \in Message /\ p \in known
      <4>1. Exists(p)
        BY <2>1 DEF Whole
      <4> QED BY <1>1, <4>1, HashType DEF TypeOK, OverlapInv, Origins, Exists
    <3>2. Result("dispatch", p, store[p], s)
      BY <2>1 DEF OnPlanResult
    <3>3. /\ key'["dispatch"] = p /\ msg'["dispatch"].exec_state = s
          /\ Chain(todo'["dispatch"]) /\ Ends(todo'["dispatch"], "res")
          /\ ~Ends(todo'["dispatch"], "exec")
          /\ Starts(todo'["dispatch"], "full")
               <=> store[p].plan_state = "none" /\ s \in {"ok", "fail"}
          /\ \A u \in Thread \ {"dispatch"} : /\ key'[u] = key[u] /\ msg'[u] = msg[u]
                                              /\ todo'[u] = todo[u]
      BY <1>1, <3>1, <3>2, ResultHands
    <3>4. /\ Chains' /\ Origins' /\ Owed = 0
          /\ \A q \in Plans : Busy(q) => Busy(q)'
      BY <1>1, <3>1, <3>3, DispatchTakes
    <3>5. Owed' = Frees(p, s)
      BY <2>1, <3>3 DEF Owed, Frees
    <3> QED BY <1>2, <3>4, <3>5
  <2>2. CASE ~Whole(p)
    <3>1. Drop("dispatch") /\ NoKey \notin Plans
      BY <2>2, DispatcherAssumption DEF OnPlanResult
    <3>2. /\ key'["dispatch"] = NoKey /\ todo'["dispatch"] = <<>>
          /\ \A u \in Thread \ {"dispatch"} : /\ key'[u] = key[u] /\ msg'[u] = msg[u]
                                              /\ todo'[u] = todo[u]
      BY <1>1, <3>1, DropType
    <3>3. Chain(<<>>) /\ ~Ends(<<>>, "exec") /\ ~Starts(<<>>, "full") /\ ~Ends(<<>>, "res")
      BY DEF Chain, Ends, Starts
    <3>4. /\ Chains' /\ Origins' /\ Owed = 0
          /\ \A q \in Plans : Busy(q) => Busy(q)'
      BY <1>1, <3>1, <3>2, <3>3, DispatchTakes
    <3>5. Owed' = 0
      BY <3>2, <3>3 DEF Owed
    <3> QED BY <1>2, <3>4, <3>5
  <2> QED BY <2>1, <2>2
<1> DEFINE c == Cardinality(Refusals(replies))
<1>4. /\ {ran, again, missed, crashes, Len(requests), c} \subseteq Int
      /\ Due \in Int /\ Paid \in Int
  BY <1>1, LedgerType
<1>5. PICK f \in 0..2 : f = Frees(p, s)
  BY <1>2
<1>6. PICK d \in 0..2 : d = Owed' /\ d <= f
  BY <1>3, <1>5
<1>7. Due' = Due + d
  <2>1. Due = ran + Len(requests) + c + 0 /\ Due' = ran + Len(requests) + c + d
    BY <1>1, <1>3, <1>6 DEF Due
  <2> HIDE DEF c
  <2> QED BY <1>4, <2>1
<1>8. Paid' = Paid + f
  <2>1. again' = again + f
    BY <1>1, <1>5
  <2> QED BY <1>1, <1>4, <2>1 DEF Paid
<1> QED BY <1>1, <1>3, <1>6, <1>7, <1>8, NoneLost

-----------------------------------------------------------------------------
(* A crash may cost the save of one execution.                              *)

LEMMA RestartKeeps ==
  ASSUME OverlapInv, Restart
  PROVE  /\ Chains' /\ Origins' /\ Owed' = 0
         /\ \E d \in Int : d <= 0 /\ Due' = Due + d
         /\ \A p \in Plans : p # key["poll"] \/ ~Held => (Busy(p) => Busy(p)')
<1>1. /\ TypeOK /\ Origins /\ NoKey \notin Plans
      /\ key' = [t \in Thread |-> NoKey] /\ todo' = [t \in Thread |-> <<>>]
      /\ pc' = "sleep" /\ requests' = <<>> /\ replies' = <<>>
      /\ UNCHANGED <<store, known, ran, again, missed>>
      /\ "dispatch" \in Thread /\ "poll" \in Thread
  BY DispatcherAssumption DEF OverlapInv, Restart, redis, history, Thread
<1>2. Chain(<<>>) /\ \A op : ~Ends(<<>>, op) /\ ~Starts(<<>>, op)
  BY DEF Chain, Ends, Starts
<1>3. Chains'
  BY <1>1, <1>2 DEF Chains, Dispatched
<1>4. \A p \in Plans : ~Starting(p)' /\ ~Executing(p)'
  BY <1>1 DEF Starting, Executing
<1>5. Origins'
  BY <1>1, <1>4 DEF Origins
<1>6. Owed' = 0
  BY <1>1, <1>2 DEF Owed
<1>7. \E d \in Int : d <= 0 /\ Due' = Due + d
  <2> DEFINE c == Cardinality(Refusals(replies))
             z == Refusals(<<>>)
             d == -(Len(requests) + c + Owed)
  <2>1. /\ {ran, Len(requests), c} \subseteq Nat /\ Owed \in {0, 1, 2}
    BY <1>1, LedgerType
  <2>2. Cardinality(z) = 0
    <3>1. z = {}
      BY DEF Refusals
    <3> QED BY <3>1, FS_EmptySet
  <2>3. Due' = ran + 0 + 0 + 0
    BY <1>1, <1>6, <2>2 DEF Due
  <2>4. Due = ran + Len(requests) + c + Owed
    BY DEF Due
  <2> HIDE DEF c, z
  <2>5. d \in Int /\ d <= 0 /\ ran + 0 + 0 + 0 = (ran + Len(requests) + c + Owed) + d
    BY <2>1
  <2> QED BY <2>3, <2>4, <2>5
<1>8. ASSUME NEW p \in Plans, p # key["poll"] \/ ~Held, Busy(p) PROVE Busy(p)'
  <2>1. Out(p) /\ p \in known
    BY <1>8 DEF Busy, Executing, Fresh
  <2>2. Out(p)'
    BY <1>1, <2>1 DEF Out, Whole, Exists
  <2>3. ~Executing(p)' /\ ~Starting(p)'
    BY <1>4
  <2> QED BY <1>1, <2>1, <2>2, <2>3 DEF Busy, Fresh
<1> QED BY <1>3, <1>5, <1>6, <1>7, <1>8

LEMMA CrashKeeps ==
  ASSUME OverlapInv, TypeOK', Crash \/ \E p \in Plans : ReadsNoFrame(p)
  PROVE  Chains' /\ Origins' /\ Ledger'
<1>1. /\ TypeOK /\ Ledger /\ Restart /\ pc' = "sleep" /\ UNCHANGED <<again, missed>>
  BY DEF OverlapInv, Crash, ReadsNoFrame, Restart, history
<1>2. /\ Chains' /\ Origins' /\ Owed' = 0
      /\ \E d \in Int : d <= 0 /\ Due' = Due + d
      /\ \A p \in Plans : p # key["poll"] \/ ~Held => (Busy(p) => Busy(p)')
  BY <1>1, RestartKeeps
<1>3. {again, missed, crashes} \subseteq Int /\ Due \in Int /\ Paid \in Int
  BY <1>1, LedgerType
<1>4. PICK d \in Int : d <= 0 /\ Due' = Due + d
  BY <1>2
<1>5. CASE Crash
  <2>1. crashes' = crashes + 1
    BY <1>5 DEF Crash
  <2>2. CASE pc = "recv"
    <3>1. Paid' = Paid + 0
      BY <1>1, <1>3, <2>1, <2>2 DEF Paid
    <3>2. ~Busy(key["poll"])
      BY <2>2, Sending
    <3>3. \A p \in Plans : Busy(p) => Busy(p)'
      BY <1>2, <3>2
    <3> QED BY <1>1, <1>2, <1>4, <3>1, <3>3, NoneLost
  <2>3. CASE pc # "recv"
    <3>1. Paid' = Paid + 1
      BY <1>1, <1>3, <2>1, <2>3 DEF Paid
    <3>2. \A p \in Plans \ {key["poll"]} : Busy(p) => Busy(p)'
      BY <1>2
    <3>3. d + 1 <= 1 /\ 1 \in Int
      BY <1>4
    <3> HIDE DEF Ledger
    <3>4. PICK q : q = key["poll"]
      OBVIOUS
    <3>5. \A p \in Plans \ {q} : Busy(p) => Busy(p)'
      BY <3>2, <3>4
    <3> QED BY <1>1, <1>2, <1>4, <3>1, <3>3, <3>5, OneLost
  <2> QED BY <2>2, <2>3
<1>6. CASE \E p \in Plans : ReadsNoFrame(p)
  <2>1. pc = "scan" /\ todo["poll"] = <<>> /\ crashes' = crashes
    BY <1>6 DEF ReadsNoFrame
  <2>2. ~Held
    BY <2>1 DEF Held, Dispatched, Starts, Ends
  <2>3. Paid' = Paid + 0
    BY <1>1, <1>3, <2>1 DEF Paid
  <2>4. \A p \in Plans : Busy(p) => Busy(p)'
    BY <1>2, <2>2
  <2> QED BY <1>1, <1>2, <1>4, <2>3, <2>4, NoneLost
<1> QED BY <1>5, <1>6

-----------------------------------------------------------------------------
LEMMA OverlapStep ==
  ASSUME OverlapInv, TypeOK', [Next]_vars
  PROVE  OverlapInv'
<1> SUFFICES Chains' /\ Origins' /\ Ledger'
  BY DEF OverlapInv
<1>1. CASE \/ Tick \/ StartPoll \/ EndPoll
           \/ \E p \in Plans, s \in Reports : WorkerReports(p, s)
           \/ \E p \in Plans : JobLost(p)
           \/ UNCHANGED vars
  BY <1>1, AsideKeeps
<1>2. ASSUME NEW p \in Plans, PollKey(p) PROVE Chains' /\ Origins' /\ Ledger'
  <2>1. CASE PassOver(p) /\ UNCHANGED again
    BY <1>2, <2>1, PassOverKeeps
  <2>2. CASE PollSave(p) /\ UNCHANGED again
    BY <1>2, <2>2, PollSaveKeeps
  <2>3. CASE PollExecute(p)
    BY <1>2, <2>3, PollExecuteKeeps
  <2> QED BY <1>2, <2>1, <2>2, <2>3 DEF PollKey
<1>3. CASE Send
  BY <1>3, SendKeeps
<1>4. CASE Receive
  BY <1>4, ReceiveKeeps
<1>5. CASE ReceiveTimesOut
  BY <1>5, TimeOutKeeps
<1>6. CASE Write("poll")
  BY <1>6, PollWriteKeeps
<1>7. CASE Write("dispatch")
  BY <1>7, DispatchWriteKeeps
<1>8. ASSUME NEW p \in Plans, NEW s \in Reports, OnPlanResult(p, s)
      PROVE  Chains' /\ Origins' /\ Ledger'
  BY <1>8, ReportKeeps
<1>9. ASSUME NEW p \in Plans, NEW r \in Requests, OnPlanStart(p, r)
      PROVE  Chains' /\ Origins' /\ Ledger'
  BY <1>9, StartKeeps
<1>10. ASSUME NEW p \in Plans, OnCommand(p) PROVE Chains' /\ Origins' /\ Ledger'
  BY <1>10, CommandKeeps
<1>11. CASE StationAnswers
  BY <1>11, StationKeeps
<1>12. CASE Crash \/ \E p \in Plans : ReadsNoFrame(p)
  BY <1>12, CrashKeeps
<1> QED BY <1>1, <1>2, <1>3, <1>4, <1>5, <1>6, <1>7, <1>8, <1>9, <1>10, <1>11, <1>12
        DEF Next, PollNext, DispatchNext

LEMMA OverlapInit == Init /\ TypeOK => OverlapInv
<1> SUFFICES ASSUME Init, TypeOK PROVE Chains /\ Origins /\ Ledger
  BY DEF OverlapInv
<1>1. /\ Chain(<<>>) /\ \A op : ~Ends(<<>>, op) /\ ~Starts(<<>>, op)
  BY DEF Chain, Ends, Starts
<1>2. Chains
  BY <1>1 DEF Init, Chains, Dispatched, Thread
<1>3. Origins
  BY <1>1, DispatcherAssumption DEF Init, Origins, Starting, Thread
<1>4. Due = 0
  <2>1. Cardinality(Refusals(<<>>)) = 0
    <3>1. Refusals(<<>>) = {}
      BY DEF Refusals
    <3> QED BY <3>1, FS_EmptySet
  <2>2. Owed = 0
    BY <1>1 DEF Init, Owed, Thread
  <2> QED BY <2>1, <2>2 DEF Init, Due
<1>5. Paid = 0
  BY DEF Init, Paid
<1>6. Cardinality(BusyPlans) \in Nat
  <2>1. BusyPlans \in SUBSET Plans
    BY DEF BusyPlans
  <2> QED BY <2>1, PlansKept
<1>7. Ledger
  BY <1>4, <1>5, <1>6 DEF Ledger
<1> QED BY <1>2, <1>3, <1>7

(* The ledger bounds the executions: no plan is busy while its answer is    *)
(* awaited.                                                                 *)
LEMMA OverlapFollows == OverlapInv => OverlapBounded
<1> SUFFICES ASSUME OverlapInv PROVE OverlapBounded
  OBVIOUS
<1> DEFINE c == Cardinality(Refusals(replies))
           b == Cardinality(BusyPlans)
<1>1. /\ TypeOK /\ {ran, again, missed, crashes, Len(requests), c} \subseteq Nat
      /\ Owed \in {0, 1, 2}
  BY LedgerType DEF OverlapInv
<1>2. BusyPlans \in SUBSET Plans
  BY DEF BusyPlans
<1>3. /\ b \in Nat /\ Cardinality(Plans) \in Nat /\ b <= Cardinality(Plans)
      /\ \A p \in Plans \ BusyPlans : b + 1 <= Cardinality(Plans)
  BY <1>2, PlansKept
<1> DEFINE w == IF pc = "recv" THEN 1 ELSE 0
<1>4. w \in {0, 1} /\ b + w <= Cardinality(Plans)
  <2>1. CASE pc = "recv"
    <3>1. key["poll"] \in Plans \ BusyPlans
      BY <2>1, Sending DEF BusyPlans
    <3> HIDE DEF b
    <3> QED BY <1>3, <2>1, <3>1
  <2>2. CASE pc # "recv"
    BY <1>3, <2>2
  <2> QED BY <2>1, <2>2
<1>5. ran + Len(requests) + c + Owed
        <= b + (again + missed + crashes + w)
  BY DEF OverlapInv, Ledger, Due, Paid
<1> HIDE DEF c, b, w
<1>6. ran + Len(requests) <= Cardinality(Plans) + again + missed + crashes
  <2>1. \A x1, x2, x3, x4, k1, k2, k3, n1, n2, n3 \in Int :
          /\ x1 + x2 + x3 + x4 <= k1 + (n1 + n2 + n3 + k2)
          /\ x3 >= 0 /\ x4 >= 0 /\ k1 + k2 <= k3
          => x1 + x2 <= k3 + n1 + n2 + n3
    OBVIOUS
  <2>2. /\ ran \in Int /\ Len(requests) \in Int /\ c \in Int /\ Owed \in Int /\ b \in Int
        /\ w \in Int /\ Cardinality(Plans) \in Int
        /\ again \in Int /\ missed \in Int /\ crashes \in Int
        /\ c >= 0 /\ Owed >= 0
    BY <1>1, <1>3, <1>4
  <2> QED BY <1>4, <1>5, <2>1, <2>2
<1> QED BY <1>6 DEF OverlapBounded

(* "A plan in execution is not dispatched again" (exec_now): whatever the   *)
(* threads, the station and its workers do, executions beyond one of each   *)
(* plan are as many as the reasons there were for them.                     *)
THEOREM OverlapIsBounded == Spec => []OverlapBounded
<1>1. Init /\ TypeOK => OverlapInv
  BY OverlapInit
<1>2. OverlapInv /\ TypeOK' /\ [Next]_vars => OverlapInv'
  BY OverlapStep
<1>3. OverlapInv => OverlapBounded
  BY OverlapFollows
<1> QED BY <1>1, <1>2, <1>3, TypeCorrect, PTL DEF Spec
=============================================================================
