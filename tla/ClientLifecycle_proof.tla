----------------------- MODULE ClientLifecycle_proof -----------------------
(***************************************************************************)
(* Type correctness of the client's start and close; OneLoop: at most one   *)
(* task of a station runs; and of a run that is not irregular, that the     *)
(* register is true: NoStalePost, Listed and EndsAll.  For any stations,    *)
(* tasks and bounds.                                                        *)
(***************************************************************************)
EXTENDS ClientLifecycle, FiniteSetTheorems, TLAPS

(* Setting an entry of a table keeps the table's type.                      *)
LEMMA SetEntry ==
  ASSUME NEW S, NEW D, NEW V, NEW f \in [S -> [D -> V]],
         NEW s \in S, NEW d \in D, NEW v \in V
  PROVE  [f EXCEPT ![s][d] = v] \in [S -> [D -> V]]
OBVIOUS

LEMMA SetCall ==
  ASSUME TasksOK, NEW o \in Object, NEW k \in Task, NEW v \in CallAt
  PROVE  [call EXCEPT ![o][k] = v] \in [Object -> [Task -> CallAt]]
BY SetEntry DEF TasksOK

LEMMA SetTask ==
  ASSUME TasksOK, NEW s \in Station, NEW t \in Task, NEW v \in TaskAt
  PROVE  [task EXCEPT ![s][t] = v] \in [Station -> [Task -> TaskAt]]
BY SetEntry DEF TasksOK

LEMMA SetSuccess ==
  ASSUME TasksOK, NEW s \in Station, NEW t \in Task, NEW v \in BOOLEAN
  PROVE  [success EXCEPT ![s][t] = v] \in [Station -> [Task -> BOOLEAN]]
BY SetEntry DEF TasksOK

-----------------------------------------------------------------------------
(* The registers and the two ways a start goes.                             *)
LEMMA TypedLists ==
  ASSUME ListsOK, NEW o \in Object,
         OnObjectActive(o) \/ OnObjectFailed(o) \/ OnObjectClose(o)
  PROVE  ListsOK'
<1>1. CASE OnObjectActive(o)
  BY <1>1 DEF ListsOK, OnObjectActive
<1>2. CASE OnObjectFailed(o)
  BY <1>2 DEF ListsOK, OnObjectFailed
<1>3. CASE OnObjectClose(o)
  <2>1. active' \in [Object -> Nat] /\ failed' \in [Object -> Nat]
    BY <1>3 DEF ListsOK, OnObjectClose
  <2>2. sem' \in Nat
    BY <1>3 DEF ListsOK, OnObjectClose
  <2> QED BY <2>1, <2>2 DEF ListsOK
<1> QED BY <1>1, <1>2, <1>3

LEMMA TypedStart ==
  ASSUME ListsOK, StationsOK, NEW s \in Station, Refuse(s) \/ Launch(s)
  PROVE  ListsOK' /\ StationsOK'
<1>1. CASE Refuse(s)
  <2>1. ListsOK'
    BY <1>1, TypedLists DEF Refuse, Object
  <2>2. StationsOK'
    BY <1>1 DEF Refuse, StationsOK, State
  <2> QED BY <2>1, <2>2
<1>2. CASE Launch(s)
  <2>1. ListsOK'
    BY <1>2 DEF Launch, ListsOK, lists
  <2>2. StationsOK'
    BY <1>2 DEF Launch, StationsOK, State, Config
  <2> QED BY <2>1, <2>2
<1> QED BY <1>1, <1>2

LEMMA NewTaskFree ==
  ASSUME NEW s \in Station, Free(s) # {}
  PROVE  NewTask(s) \in Task /\ task[s][NewTask(s)] = Idle
BY DEF NewTask, Free

-----------------------------------------------------------------------------
(* The calls.                                                               *)
LEMMA TypedCall ==
  ASSUME TypeOK, NEW s \in Station, NEW k \in Task
  PROVE  /\ CallStart(s, k) => TypeOK'
         /\ CallStarted(s, k) => TypeOK'
         /\ CallClose(s, k) => TypeOK'
         /\ CallCancel(s, k) => TypeOK'
         /\ CallClosed(s, k) => TypeOK'
         /\ CallEvent(s, k) => TypeOK'
<1> USE DEF TypeOK
<1> s \in Object
  BY DEF Object
<1>1. ASSUME CallStart(s, k) PROVE TypeOK'
  <2>1. ListsOK' /\ StationsOK'
    BY <1>1, TypedStart DEF CallStart
  <2>2. ThreadsOK' /\ success' = success
    BY <1>1 DEF CallStart, ThreadsOK, threads
  <2>3. call' \in [Object -> [Task -> CallAt]]
    <3>1. PICK v \in CallAt : call' = [call EXCEPT ![s][k] = v]
      BY <1>1 DEF CallStart, CallAt
    <3> QED BY <3>1, SetCall
  <2>4. task' \in [Station -> [Task -> TaskAt]]
    <3>1. CASE UNCHANGED task
      BY <3>1 DEF TasksOK
    <3>2. CASE Free(s) # {} /\ task' = [task EXCEPT ![s][NewTask(s)] = "new"]
      <4>1. "new" \in TaskAt
        BY DEF TaskAt
      <4> QED BY <3>2, <4>1, SetTask, NewTaskFree
    <3> QED BY <1>1, <3>1, <3>2 DEF CallStart
  <2> QED BY <2>1, <2>2, <2>3, <2>4 DEF TasksOK
<1>2. ASSUME CallStarted(s, k) PROVE TypeOK'
  <2>1. call' \in [Object -> [Task -> CallAt]]
    BY <1>2, SetCall DEF CallStarted, CallAt
  <2>2. StationsOK'
    BY <1>2 DEF CallStarted, TakeToken, StationsOK
  <2> QED BY <1>2, <2>1, <2>2 DEF CallStarted, ThreadsOK, ListsOK, TasksOK, threads, lists, tasks
<1>3. ASSUME CallClose(s, k) PROVE TypeOK'
  <2>1. call' \in [Object -> [Task -> CallAt]]
    <3>1. PICK v \in CallAt : call' = [call EXCEPT ![s][k] = v]
      BY <1>3 DEF CallClose, CallAt
    <3> QED BY <3>1, SetCall
  <2>2. StationsOK'
    BY <1>3 DEF CallClose, StationsOK, State
  <2> QED BY <1>3, <2>1, <2>2 DEF CallClose, ThreadsOK, ListsOK, TasksOK, threads, lists, tasks
<1>4. ASSUME CallCancel(s, k) PROVE TypeOK'
  <2>1. call' \in [Object -> [Task -> CallAt]]
    BY <1>4, SetCall DEF CallCancel, CallAt
  <2>2. StationsOK'
    BY <1>4 DEF CallCancel, StationsOK
  <2> QED BY <1>4, <2>1, <2>2 DEF CallCancel, ThreadsOK, ListsOK, TasksOK, threads, lists, tasks
<1>5. ASSUME CallClosed(s, k) PROVE TypeOK'
  <2>1. call' \in [Object -> [Task -> CallAt]]
    BY <1>5, SetCall DEF CallClosed, CallAt
  <2>2. StationsOK'
    BY <1>5 DEF CallClosed, TakeToken, StationsOK
  <2> QED BY <1>5, <2>1, <2>2 DEF CallClosed, ThreadsOK, ListsOK, TasksOK, threads, lists, tasks
<1>6. ASSUME CallEvent(s, k) PROVE TypeOK'
  <2>1. call' \in [Object -> [Task -> CallAt]]
    BY <1>6, SetCall DEF CallEvent, CallAt
  <2>2. irregular' \in BOOLEAN
    BY <1>6 DEF CallEvent, ThreadsOK
  <2> QED BY <1>6, <2>1, <2>2
          DEF CallEvent, ThreadsOK, ListsOK, StationsOK, TasksOK, threads, lists, own, tasks
<1> QED BY <1>1, <1>2, <1>3, <1>4, <1>5, <1>6

LEMMA TypedPool == TypeOK /\ PoolClose => TypeOK'
<1> SUFFICES ASSUME TypeOK, PoolClose PROVE TypeOK'
  OBVIOUS
<1>1. call' \in [Object -> [Task -> CallAt]]
  <2>1. Pool \in Object /\ 1 \in Task
    BY ClientAssumption DEF Object, Task
  <2> QED BY <2>1, SetCall DEF PoolClose, CallAt, TypeOK, Idle
<1>2. ListsOK'
  BY TypedLists DEF PoolClose, TypeOK, Object
<1> QED BY <1>1, <1>2
        DEF PoolClose, TypeOK, ThreadsOK, StationsOK, TasksOK, threads, own, tasks

-----------------------------------------------------------------------------
(* The tasks.                                                               *)
LEMMA GoTyped ==
  ASSUME TasksOK, NEW s \in Station, NEW t \in Task, NEW there \in TaskAt, Go(s, t, there)
  PROVE  task' \in [Station -> [Task -> TaskAt]]
BY SetTask DEF Go

LEMMA TypedRun ==
  ASSUME TypeOK, NEW s \in Station, NEW t \in Task
  PROVE  /\ Run(s, t) => TypeOK'
         /\ RunThrow(s, t) => TypeOK'
<1> USE DEF TypeOK
<1>1. ASSUME RunActive(s, t) PROVE TypeOK'
  <2>1. task' \in [Station -> [Task -> TaskAt]]
    <3>1. PICK there \in TaskAt : Go(s, t, there)
      BY <1>1 DEF RunActive, TaskAt
    <3> QED BY <3>1, GoTyped
  <2>2. ListsOK'
    BY <1>1, TypedLists DEF RunActive, Object
  <2> QED BY <1>1, <2>1, <2>2
          DEF RunActive, ThreadsOK, ListsOK, StationsOK, TasksOK, threads, lists, own, tasks
<1>2. ASSUME RunToken(s, t) PROVE TypeOK'
  <2>1. task' \in [Station -> [Task -> TaskAt]]
    <3>1. PICK there \in TaskAt : Go(s, t, there)
      BY <1>2 DEF RunToken, TaskAt
    <3> QED BY <3>1, GoTyped
  <2>2. StationsOK'
    BY <1>2 DEF RunToken, StationsOK
  <2> QED BY <1>2, <2>1, <2>2
          DEF RunToken, ThreadsOK, ListsOK, StationsOK, TasksOK, threads, lists, own, tasks
<1>3. ASSUME RunEnter(s, t) PROVE TypeOK'
  <2>1. task' \in [Station -> [Task -> TaskAt]]
    <3>1. PICK there \in TaskAt : Go(s, t, there)
      BY <1>3 DEF RunEnter, TaskAt
    <3> QED BY <3>1, GoTyped
  <2>2. StationsOK'
    BY <1>3 DEF RunEnter, StationsOK
  <2> QED BY <1>3, <2>1, <2>2
          DEF RunEnter, ThreadsOK, ListsOK, StationsOK, TasksOK, threads, lists, own, tasks
<1>4. ASSUME RunBegin(s, t) PROVE TypeOK'
  <2>1. task' \in [Station -> [Task -> TaskAt]]
    <3>1. PICK there \in TaskAt : Go(s, t, there)
      BY <1>4 DEF RunBegin, TaskAt, RunInnerReturns
    <3> QED BY <3>1, GoTyped
  <2>2. StationsOK'
    BY <1>4 DEF RunBegin, StationsOK, State, RunInnerReturns
  <2>3. success' \in [Station -> [Task -> BOOLEAN]]
    <3>1. PICK v \in BOOLEAN : success' = [success EXCEPT ![s][t] = v] \/ success' = success
      BY <1>4 DEF RunBegin, RunInnerReturns, TasksOK
    <3>2. [success EXCEPT ![s][t] = v] \in [Station -> [Task -> BOOLEAN]]
      BY SetSuccess, Zenon
    <3>3. success \in [Station -> [Task -> BOOLEAN]]
      BY DEF TasksOK
    <3> QED BY <3>1, <3>2, <3>3, Zenon
  <2> QED BY <1>4, <2>1, <2>2, <2>3
          DEF RunBegin, ThreadsOK, ListsOK, StationsOK, TasksOK, threads, lists, own, tasks
<1>5. ASSUME RunEnd(s, t) PROVE TypeOK'
  <2>1. task' \in [Station -> [Task -> TaskAt]]
    <3>1. PICK there \in TaskAt : Go(s, t, there)
      BY <1>5 DEF RunEnd, TaskAt, RunInnerReturns
    <3> QED BY <3>1, GoTyped
  <2>2. StationsOK'
    BY <1>5 DEF RunEnd, StationsOK, own
  <2>3. success' \in [Station -> [Task -> BOOLEAN]]
    <3>1. PICK v \in BOOLEAN : success' = [success EXCEPT ![s][t] = v] \/ success' = success
      BY <1>5 DEF RunEnd, RunInnerReturns, TasksOK
    <3>2. [success EXCEPT ![s][t] = v] \in [Station -> [Task -> BOOLEAN]]
      BY SetSuccess, Zenon
    <3>3. success \in [Station -> [Task -> BOOLEAN]]
      BY DEF TasksOK
    <3> QED BY <3>1, <3>2, <3>3, Zenon
  <2> QED BY <1>5, <2>1, <2>2, <2>3
          DEF RunEnd, ThreadsOK, ListsOK, StationsOK, TasksOK, threads, lists, own, tasks
<1>6. ASSUME RunExit(s, t) PROVE TypeOK'
  <2>1. task' \in [Station -> [Task -> TaskAt]]
    <3>1. PICK there \in TaskAt : Go(s, t, there)
      BY <1>6 DEF RunExit, TaskAt
    <3> QED BY <3>1, GoTyped
  <2>2. StationsOK'
    BY <1>6 DEF RunExit, StationsOK
  <2> QED BY <1>6, <2>1, <2>2
          DEF RunExit, ThreadsOK, ListsOK, StationsOK, TasksOK, threads, lists, own, tasks
<1>7. ASSUME RunStop(s, t) PROVE TypeOK'
  <2>1. task' \in [Station -> [Task -> TaskAt]]
    <3>1. PICK there \in TaskAt : Go(s, t, there)
      BY <1>7 DEF RunStop, TaskAt
    <3> QED BY <3>1, GoTyped
  <2>2. StationsOK'
    BY <1>7 DEF RunStop, StationsOK, State
  <2> QED BY <1>7, <2>1, <2>2
          DEF RunStop, ThreadsOK, ListsOK, StationsOK, TasksOK, threads, lists, own, tasks
<1>8. ASSUME RunClosed(s, t) PROVE TypeOK'
  <2>1. task' \in [Station -> [Task -> TaskAt]]
    <3>1. PICK there \in TaskAt : Go(s, t, there)
      BY <1>8 DEF RunClosed, TaskAt
    <3> QED BY <3>1, GoTyped
  <2>2. StationsOK'
    BY <1>8 DEF RunClosed, StationsOK, State
  <2>3. ListsOK'
    BY <1>8, TypedLists DEF RunClosed, Object
  <2> QED BY <1>8, <2>1, <2>2, <2>3
          DEF RunClosed, ThreadsOK, ListsOK, StationsOK, TasksOK, threads, lists, own, tasks
<1>9. ASSUME RunLast(s, t) PROVE TypeOK'
  <2>1. task' \in [Station -> [Task -> TaskAt]]
    <3>1. PICK there \in TaskAt : Go(s, t, there)
      BY <1>9 DEF RunLast, TaskAt
    <3> QED BY <3>1, GoTyped
  <2>2. StationsOK'
    BY <1>9 DEF RunLast, StationsOK
  <2>3. success' \in [Station -> [Task -> BOOLEAN]]
    <3>1. PICK v \in BOOLEAN : success' = [success EXCEPT ![s][t] = v] \/ success' = success
      BY <1>9 DEF RunLast, TasksOK
    <3>2. [success EXCEPT ![s][t] = v] \in [Station -> [Task -> BOOLEAN]]
      BY SetSuccess, Zenon
    <3>3. success \in [Station -> [Task -> BOOLEAN]]
      BY DEF TasksOK
    <3> QED BY <3>1, <3>2, <3>3, Zenon
  <2> QED BY <1>9, <2>1, <2>2, <2>3
          DEF RunLast, ThreadsOK, ListsOK, StationsOK, TasksOK, threads, lists, own, tasks
<1>10. ASSUME RunThrow(s, t) PROVE TypeOK'
  <2>1. task' \in [Station -> [Task -> TaskAt]]
    <3>1. PICK there \in TaskAt : Go(s, t, there)
      BY <1>10 DEF RunThrow, TaskAt, RunInnerReturns
    <3> QED BY <3>1, GoTyped
  <2>2. StationsOK'
    BY <1>10 DEF RunThrow, StationsOK, own
  <2>3. success' \in [Station -> [Task -> BOOLEAN]]
    <3>1. PICK v \in BOOLEAN : success' = [success EXCEPT ![s][t] = v] \/ success' = success
      BY <1>10 DEF RunThrow, RunInnerReturns, TasksOK
    <3>2. [success EXCEPT ![s][t] = v] \in [Station -> [Task -> BOOLEAN]]
      BY SetSuccess, Zenon
    <3>3. success \in [Station -> [Task -> BOOLEAN]]
      BY DEF TasksOK
    <3> QED BY <3>1, <3>2, <3>3, Zenon
  <2>4. ThreadsOK'
    BY <1>10, ClientAssumption DEF RunThrow, ThreadsOK, threads
  <2> QED BY <1>10, <2>1, <2>2, <2>3, <2>4
          DEF RunThrow, ThreadsOK, ListsOK, StationsOK, TasksOK, threads, lists, own, tasks
<1>11. ASSUME Restart(s, t) PROVE TypeOK'
  <2>1. ListsOK' /\ StationsOK'
    BY <1>11, TypedStart DEF Restart
  <2>2. ThreadsOK' /\ success' = success /\ call' = call
    BY <1>11 DEF Restart, ThreadsOK, threads
  <2>3. task' \in [Station -> [Task -> TaskAt]]
    <3>1. CASE Go(s, t, Idle)
      BY <3>1, GoTyped DEF TaskAt
    <3>2. CASE /\ Free(s) # {}
               /\ task' = [task EXCEPT ![s][t] = "wait", ![s][NewTask(s)] = "new"]
      <4>1. "new" \in TaskAt /\ "wait" \in TaskAt /\ NewTask(s) \in Task
        BY <3>2, NewTaskFree DEF TaskAt
      <4>2. [task EXCEPT ![s][t] = "wait"] \in [Station -> [Task -> TaskAt]]
        BY <4>1, SetTask
      <4> QED BY <3>2, <4>1, <4>2, SetEntry
    <3> QED BY <1>11, <3>1, <3>2 DEF Restart
  <2> QED BY <2>1, <2>2, <2>3 DEF TasksOK
<1>12. ASSUME Restarted(s, t) PROVE TypeOK'
  <2>1. task' \in [Station -> [Task -> TaskAt]]
    <3>1. PICK there \in TaskAt : Go(s, t, there)
      BY <1>12 DEF Restarted, TaskAt
    <3> QED BY <3>1, GoTyped
  <2>2. StationsOK'
    BY <1>12 DEF Restarted, StationsOK, TakeToken
  <2> QED BY <1>12, <2>1, <2>2
          DEF Restarted, ThreadsOK, ListsOK, StationsOK, TasksOK, threads, lists, own, tasks
<1> QED BY <1>1, <1>2, <1>3, <1>4, <1>5, <1>6, <1>7, <1>8, <1>9, <1>10, <1>11, <1>12 DEF Run

-----------------------------------------------------------------------------
(* The start.                                                               *)
LEMMA TypedJoin ==
  ASSUME TypeOK, NEW o \in Object
  PROVE  /\ Ping => TypeOK'
         /\ Join => TypeOK'
         /\ ResetObjectActive => TypeOK'
         /\ StartLock => TypeOK'
         /\ StartNext(o) => TypeOK'
         /\ StartWait => TypeOK'
         /\ Ready => TypeOK'
<1> USE DEF TypeOK
<1>1. ASSUME Ping PROVE TypeOK'
  <2>1. ThreadsOK'
    BY <1>1 DEF Ping, Move, Lost, ThreadsOK, Thread, Object, App, ThreadAt, Idle
  <2> QED BY <1>1, <2>1 DEF Ping, Move, Lost, ListsOK, StationsOK, TasksOK, lists, own, tasks
<1>2. ASSUME Join PROVE TypeOK'
  <2>1. ThreadsOK'
    BY <1>2 DEF Join, Move, Lost, ThreadsOK, Thread, Object, App, ThreadAt, Idle
  <2>2. config' \in [Station -> Config]
    BY <1>2 DEF Join, StationsOK, Config
  <2> QED BY <1>2, <2>1, <2>2 DEF Join, ListsOK, StationsOK, TasksOK, lists, own, tasks
<1>3. ASSUME ResetObjectActive PROVE TypeOK'
  <2>1. ThreadsOK'
    BY <1>3 DEF ResetObjectActive, Move, ThreadsOK, Thread, Object, App, ThreadAt, Idle
  <2>2. ListsOK'
    BY <1>3 DEF ResetObjectActive, ListsOK
  <2> QED BY <1>3, <2>1, <2>2 DEF ResetObjectActive, StationsOK, TasksOK, own, tasks
<1>4. ASSUME StartLock PROVE TypeOK'
  <2>1. ThreadsOK'
    BY <1>4 DEF StartLock, Move, ThreadsOK, Thread, Object, App, ThreadAt, Idle
  <2> QED BY <1>4, <2>1 DEF StartLock, Move, ListsOK, StationsOK, TasksOK, lists, own, tasks
<1>5. ASSUME StartNext(o) PROVE TypeOK'
  <2>1. ThreadsOK'
    BY <1>5 DEF StartNext, Move, ThreadsOK, Thread, Object, App, ThreadAt, Idle
  <2>2. CASE o = Pool
    <3>1. ListsOK' /\ call' = call
      BY <1>5, <2>2, TypedLists DEF StartNext
    <3> QED BY <1>5, <2>1, <3>1 DEF StartNext, StationsOK, TasksOK, own, tasks
  <2>3. CASE o # Pool
    <3>1. 1 \in Task /\ "start" \in CallAt
      BY ClientAssumption DEF Task, CallAt
    <3>2. call' = [call EXCEPT ![o][1] = "start"] /\ UNCHANGED lists
      BY <1>5, <2>3 DEF StartNext
    <3>3. call' \in [Object -> [Task -> CallAt]]
      BY <3>1, <3>2, SetCall
    <3> QED BY <1>5, <2>1, <3>2, <3>3 DEF StartNext, ListsOK, StationsOK, TasksOK, lists, own, tasks
  <2> QED BY <2>2, <2>3
<1>6. ASSUME StartWait PROVE TypeOK'
  <2>1. ThreadsOK'
    BY <1>6 DEF StartWait, Move, WaitAllObjectSemaphore, ThreadsOK, Thread, Object, App, ThreadAt, Idle
  <2> QED BY <1>6, <2>1 DEF StartWait, Move, WaitAllObjectSemaphore, ListsOK, StationsOK, TasksOK, lists, own, tasks
<1>7. ASSUME Ready PROVE TypeOK'
  <2>1. ThreadsOK'
    BY <1>7 DEF Ready, Move, ThreadsOK, Thread, Object, App, ThreadAt, Idle
  <2> QED BY <1>7, <2>1 DEF Ready, Move, ListsOK, StationsOK, TasksOK, lists, own, tasks
<1> QED BY <1>1, <1>2, <1>3, <1>4, <1>5, <1>6, <1>7

(* The end.                                                                 *)
LEMMA TypedEnd ==
  ASSUME TypeOK, NEW h \in Thread
  PROVE  /\ EndLock(h) => TypeOK'
         /\ EndWait(h) => TypeOK'
         /\ EventLock => TypeOK'
         /\ EventEnd => TypeOK'
         /\ ClosingEnd => TypeOK'
         /\ MonitorEnd => TypeOK'
         /\ Destroy => TypeOK'
         /\ OnZeroDestory => TypeOK'
         /\ Disposed => TypeOK'
<1> USE DEF TypeOK
<1>1. ASSUME EndLock(h) PROVE TypeOK'
  <2>1. ThreadsOK'
    BY <1>1 DEF EndLock, Move, ThreadsOK, Thread, Object, App, ThreadAt, Idle
  <2>2. call' \in [Object -> [Task -> CallAt]]
    BY <1>1 DEF EndLock, TasksOK, CallAt, Idle
  <2> QED BY <1>1, <2>1, <2>2 DEF EndLock, ListsOK, StationsOK, TasksOK, lists, own, tasks
<1>2. ASSUME EndWait(h) PROVE TypeOK'
  <2>1. ThreadsOK'
    BY <1>2 DEF EndWait, Move, WaitAllObjectSemaphore, ThreadsOK, Thread, Object, App, ThreadAt, Idle
  <2> QED BY <1>2, <2>1 DEF EndWait, Move, WaitAllObjectSemaphore, ListsOK, StationsOK, TasksOK, lists, own, tasks
<1>3. ASSUME EventLock PROVE TypeOK'
  <2>1. ThreadsOK'
    BY <1>3 DEF EventLock, Move, ThreadsOK, Thread, Object, App, ThreadAt, Idle
  <2>2. call' \in [Object -> [Task -> CallAt]]
    BY <1>3 DEF EventLock, TasksOK, CallAt, Idle
  <2> QED BY <1>3, <2>1, <2>2 DEF EventLock, ListsOK, StationsOK, TasksOK, lists, own, tasks
<1>4. ASSUME EventEnd PROVE TypeOK'
  <2>1. ThreadsOK'
    BY <1>4 DEF EventEnd, Move, ThreadsOK, Thread, Object, App, ThreadAt, Idle
  <2> QED BY <1>4, <2>1 DEF EventEnd, Move, ListsOK, StationsOK, TasksOK, lists, own, tasks
<1>5. ASSUME ClosingEnd PROVE TypeOK'
  <2>1. ThreadsOK'
    BY <1>5 DEF ClosingEnd, Move, ThreadsOK, Thread, Object, App, ThreadAt, Idle
  <2> QED BY <1>5, <2>1 DEF ClosingEnd, Move, ListsOK, StationsOK, TasksOK, lists, own, tasks
<1>6. ASSUME MonitorEnd PROVE TypeOK'
  <2>1. ThreadsOK'
    BY <1>6 DEF MonitorEnd, Move, ThreadsOK, Thread, Object, App, ThreadAt, Idle
  <2> QED BY <1>6, <2>1 DEF MonitorEnd, Move, ListsOK, StationsOK, TasksOK, lists, own, tasks
<1>7. ASSUME Destroy PROVE TypeOK'
  <2>1. ThreadsOK'
    BY <1>7 DEF Destroy, Move, ThreadsOK, Thread, Object, App, ThreadAt, Idle
  <2> QED BY <1>7, <2>1 DEF Destroy, Move, ListsOK, StationsOK, TasksOK, lists, own, tasks
<1>8. ASSUME OnZeroDestory PROVE TypeOK'
  <2>1. ThreadsOK'
    BY <1>8 DEF OnZeroDestory, Move, ThreadsOK, Thread, Object, App, ThreadAt, Idle
  <2> QED BY <1>8, <2>1 DEF OnZeroDestory, Move, ListsOK, StationsOK, TasksOK, lists, own, tasks
<1>9. ASSUME Disposed PROVE TypeOK'
  <2>1. ThreadsOK'
    BY <1>9 DEF Disposed, Move, ThreadsOK, Thread, Object, App, ThreadAt, Idle
  <2> QED BY <1>9, <2>1 DEF Disposed, Move, ListsOK, StationsOK, TasksOK, lists, own, tasks
<1> QED BY <1>1, <1>2, <1>3, <1>4, <1>5, <1>6, <1>7, <1>8, <1>9

(* The messages and Ctrl-C.                                                 *)
LEMMA TypedMessage ==
  ASSUME TypeOK
  PROVE  /\ CenterStart => TypeOK'
         /\ CenterClosing => TypeOK'
         /\ CenterStop => TypeOK'
         /\ \A s \in Station, c \in Config : StationEvent(s, c) => TypeOK'
         /\ Shutdown => TypeOK'
<1> USE DEF TypeOK
<1>1. ASSUME CenterStart PROVE TypeOK'
  <2>1. ThreadsOK'
    BY <1>1, ClientAssumption DEF CenterStart, Receive, Move, ThreadsOK, Thread, Object, App, ThreadAt, Idle
  <2> QED BY <1>1, <2>1 DEF CenterStart, Receive, ListsOK, StationsOK, TasksOK, lists, own, tasks
<1>2. ASSUME CenterClosing PROVE TypeOK'
  <2>1. ThreadsOK'
    BY <1>2, ClientAssumption DEF CenterClosing, Receive, Move, ThreadsOK, Thread, Object, App, ThreadAt, Idle
  <2> QED BY <1>2, <2>1 DEF CenterClosing, Receive, ListsOK, StationsOK, TasksOK, lists, own, tasks
<1>3. ASSUME CenterStop PROVE TypeOK'
  <2>1. ThreadsOK'
    BY <1>3, ClientAssumption DEF CenterStop, Receive, Move, ThreadsOK, Thread, Object, App, ThreadAt, Idle
  <2> QED BY <1>3, <2>1 DEF CenterStop, Receive, ListsOK, StationsOK, TasksOK, lists, own, tasks
<1>4. ASSUME NEW s \in Station, NEW c \in Config, StationEvent(s, c) PROVE TypeOK'
  <2>1. ThreadsOK'
    BY <1>4, ClientAssumption DEF StationEvent, Receive, Move, ThreadsOK, Thread, Object, App, ThreadAt, Idle
  <2>2. config' \in [Station -> Config]
    BY <1>4 DEF StationEvent, StationsOK
  <2> QED BY <1>4, <2>1, <2>2 DEF StationEvent, Receive, ListsOK, StationsOK, TasksOK, lists, own, tasks
<1>5. ASSUME Shutdown PROVE TypeOK'
  <2>1. ThreadsOK'
    BY <1>5, ClientAssumption DEF Shutdown, Move, ThreadsOK, Thread, Object, App, ThreadAt, Idle
  <2> QED BY <1>5, <2>1 DEF Shutdown, Move, ListsOK, StationsOK, TasksOK, lists, own, tasks
<1> QED BY <1>1, <1>2, <1>3, <1>4, <1>5

-----------------------------------------------------------------------------
LEMMA TypedInit == Init => TypeOK
<1> SUFFICES ASSUME Init PROVE TypeOK
  OBVIOUS
<1>1. ThreadsOK
  <2>1. pc \in [Thread -> ThreadAt]
    BY DEF Init, ThreadAt, Thread
  <2>2. 0 \in 0..MaxFault
    BY ClientAssumption
  <2> QED BY <2>1, <2>2 DEF Init, ThreadsOK, App, Idle
<1>2. ListsOK
  BY DEF Init, ListsOK
<1>3. StationsOK
  BY DEF Init, StationsOK, State, Config
<1>4. TasksOK
  BY DEF Init, TasksOK, TaskAt, CallAt, Idle
<1> QED BY <1>1, <1>2, <1>3, <1>4 DEF TypeOK

LEMMA TypedStep == TypeOK /\ [Next]_vars => TypeOK'
<1> SUFFICES ASSUME TypeOK, [Next]_vars PROVE TypeOK'
  OBVIOUS
<1>0. Pool \in Object /\ Station \subseteq Object
  BY DEF Object
<1>1. CASE Calls
  BY <1>1, TypedCall, TypedPool DEF Calls
<1>2. CASE Runs \/ Throws
  BY <1>2, TypedRun DEF Runs, Throws
<1>3. CASE Joins
  BY <1>0, <1>3, TypedJoin DEF Joins
<1>4. CASE Ends
  BY <1>4, TypedEnd DEF Ends, Thread
<1>5. CASE Messages \/ Shutdown
  BY <1>5, TypedMessage DEF Messages
<1>6. CASE UNCHANGED vars
  BY <1>6 DEF vars, TypeOK, ThreadsOK, ListsOK, StationsOK, TasksOK, threads, lists, own, tasks
<1> QED BY <1>1, <1>2, <1>3, <1>4, <1>5, <1>6 DEF Next

(* In every behaviour the state has its types: a token is at most one (the   *)
(* maximum of _waitToken), and the lists never count below zero.            *)
THEOREM ClientTyped == Spec => []TypeOK
BY TypedInit, TypedStep, PTL DEF Spec

-----------------------------------------------------------------------------
(* A task that is inside holds the lock of its station.                     *)
Locked == \A s \in Station, t \in Task : Inside(s, t) => slock[s] = t

LEMMA LockedIsOne == TypeOK /\ Locked => OneLoop
BY DEF Locked, OneLoop

(* A step that does not change the lock and takes no task inside.            *)
LEMMA LockedKept ==
  ASSUME TypeOK, Locked, UNCHANGED slock,
         \A s \in Station, t \in Task : Inside(s, t)' => Inside(s, t)
  PROVE  Locked'
BY DEF Locked

(* Moving one task to a place, and a new task if there is one.               *)
LEMMA LockedGo ==
  ASSUME TypeOK, Locked, UNCHANGED slock, NEW s \in Station, NEW t \in Task, NEW there,
         Go(s, t, there), there \in {"begin", "loop", "exit"} => Inside(s, t)
  PROVE  Locked'
<1>1. \A u \in Station, v \in Task : Inside(u, v)' => Inside(u, v)
  BY DEF Inside, Go, TypeOK, TasksOK
<1> QED BY <1>1, LockedKept

LEMMA LockedRun ==
  ASSUME TypeOK, Locked, NEW s \in Station, NEW t \in Task, Run(s, t) \/ RunThrow(s, t)
  PROVE  Locked'
<1> USE DEF At
<1>1. CASE RunActive(s, t)
  BY <1>1, LockedGo DEF RunActive, own
<1>2. CASE RunToken(s, t)
  <2>1. Go(s, t, "enter") \/ Go(s, t, Idle)
    BY <1>2 DEF RunToken
  <2> QED BY <1>2, <2>1, LockedGo DEF RunToken, Idle
<1>3. CASE RunEnter(s, t)
  <2>1. \A v \in Task : ~Inside(s, v)
    BY <1>3 DEF RunEnter, Locked, Task
  <2>2. \A u \in Station, v \in Task : Inside(u, v)' => Inside(u, v) \/ (u = s /\ v = t)
    BY <1>3 DEF RunEnter, Go, Inside, TypeOK, TasksOK
  <2>3. slock' = [slock EXCEPT ![s] = t]
    BY <1>3 DEF RunEnter
  <2> QED BY <2>1, <2>2, <2>3 DEF Locked, TypeOK, StationsOK
<1>4. CASE RunBegin(s, t)
  <2>1. Inside(s, t)
    BY <1>4 DEF RunBegin, Inside
  <2>2. (Go(s, t, "exit") \/ Go(s, t, "loop")) /\ UNCHANGED slock
    BY <1>4 DEF RunBegin, RunInnerReturns
  <2> QED BY <2>1, <2>2, LockedGo
<1>5. CASE RunEnd(s, t) \/ RunThrow(s, t)
  <2>1. Inside(s, t)
    BY <1>5 DEF RunEnd, RunThrow, Inside
  <2>2. Go(s, t, "exit") /\ UNCHANGED slock
    BY <1>5 DEF RunEnd, RunThrow, RunInnerReturns, own
  <2> QED BY <2>1, <2>2, LockedGo
<1>6. CASE RunExit(s, t)
  <2>1. \A v \in Task : Inside(s, v) => v = t
    BY <1>6, LockedIsOne DEF RunExit, Inside, OneLoop
  <2>2. \A u \in Station, v \in Task : Inside(u, v)' => Inside(u, v) /\ ~(u = s /\ v = t)
    BY <1>6 DEF RunExit, Go, Inside, TypeOK, TasksOK
  <2>3. slock' = [slock EXCEPT ![s] = 0]
    BY <1>6 DEF RunExit
  <2> QED BY <2>1, <2>2, <2>3 DEF Locked, TypeOK, StationsOK
<1>7. CASE RunStop(s, t)
  <2>1. (Go(s, t, Idle) \/ Go(s, t, "stopped")) /\ UNCHANGED slock
    BY <1>7 DEF RunStop
  <2> QED BY <2>1, LockedGo DEF Idle
<1>8. CASE RunClosed(s, t)
  BY <1>8, LockedGo DEF RunClosed
<1>9. CASE RunLast(s, t)
  <2>1. (Go(s, t, Idle) \/ Go(s, t, "start")) /\ UNCHANGED slock
    BY <1>9 DEF RunLast
  <2> QED BY <2>1, LockedGo DEF Idle
<1>10. CASE Restart(s, t)
  <2>1. UNCHANGED slock
    BY <1>10 DEF Restart, Refuse, Launch
  <2>2. CASE Go(s, t, Idle)
    BY <2>1, <2>2, LockedGo DEF Idle
  <2>3. CASE /\ Free(s) # {}
             /\ task' = [task EXCEPT ![s][t] = "wait", ![s][NewTask(s)] = "new"]
    <3>1. NewTask(s) \in Task
      BY <2>3, NewTaskFree
    <3>2. \A u \in Station, v \in Task : Inside(u, v)' => Inside(u, v)
      BY <2>3, <3>1 DEF Inside, TypeOK, TasksOK
    <3> QED BY <2>1, <3>2, LockedKept
  <2> QED BY <1>10, <2>2, <2>3 DEF Restart
<1>11. CASE Restarted(s, t)
  BY <1>11, LockedGo DEF Restarted, TakeToken, Idle
<1> QED BY <1>1, <1>2, <1>3, <1>4, <1>5, <1>6, <1>7, <1>8, <1>9, <1>10, <1>11 DEF Run

(* The calls change no task but to make a new one.                           *)
LEMMA LockedCall ==
  ASSUME TypeOK, Locked, Calls
  PROVE  Locked'
<1>1. CASE \E s \in Station, k \in Task : CallStart(s, k)
  <2> PICK s \in Station, k \in Task : CallStart(s, k)
    BY <1>1
  <2>1. UNCHANGED slock
    BY DEF CallStart, Refuse, Launch
  <2>2. CASE UNCHANGED task
    BY <2>1, <2>2, LockedKept DEF Inside
  <2>3. CASE Free(s) # {} /\ task' = [task EXCEPT ![s][NewTask(s)] = "new"]
    <3>1. NewTask(s) \in Task
      BY <2>3, NewTaskFree
    <3>2. \A u \in Station, v \in Task : Inside(u, v)' => Inside(u, v)
      BY <2>3, <3>1 DEF Inside, TypeOK, TasksOK
    <3> QED BY <2>1, <3>2, LockedKept
  <2> QED BY <2>2, <2>3 DEF CallStart
<1>2. CASE UNCHANGED <<slock, task>>
  BY <1>2, LockedKept DEF Inside
<1>3. (\E s \in Station, k \in Task : CallStart(s, k)) \/ UNCHANGED <<slock, task>>
  BY DEF Calls, PoolClose, CallStarted, CallClose, CallCancel, CallClosed, CallEvent, TakeToken,
         own, tasks
<1> QED BY <1>1, <1>2, <1>3

(* The other steps change neither tasks nor locks of stations.               *)
LEMMA ElsewhereQuiet ==
  ASSUME Joins \/ Ends \/ Messages \/ Shutdown \/ UNCHANGED vars
  PROVE  UNCHANGED <<slock, task>>
<1> USE DEF own, tasks
<1>1. CASE Joins
  BY <1>1 DEF Joins, Ping, Join, ResetObjectActive, StartLock, StartNext, StartWait, Ready
<1>2. CASE Ends
  BY <1>2 DEF Ends, EndLock, EndWait, EventLock, EventEnd, ClosingEnd, MonitorEnd, Destroy,
              OnZeroDestory, Disposed
<1>3. CASE Messages \/ Shutdown
  BY <1>3 DEF Messages, Receive, CenterStart, CenterClosing, CenterStop, StationEvent, Shutdown
<1>4. CASE UNCHANGED vars
  BY <1>4 DEF vars
<1> QED BY <1>1, <1>2, <1>3, <1>4

(* However often a station is started by events, by itself and by a rejoin   *)
(* of the center, at most one of its tasks is in RunInner.                  *)
THEOREM StationLoopsOnce == Spec => []OneLoop
<1>1. Init => TypeOK /\ Locked
  BY TypedInit DEF Init, Locked, Inside, Idle
<1>2. TypeOK /\ Locked /\ [Next]_vars => (TypeOK /\ Locked)'
  <2> SUFFICES ASSUME TypeOK, Locked, [Next]_vars PROVE Locked'
    BY TypedStep
  <2>1. CASE Calls
    BY <2>1, LockedCall
  <2>2. CASE Runs \/ Throws
    BY <2>2, LockedRun DEF Runs, Throws
  <2>3. CASE Joins \/ Ends \/ Messages \/ Shutdown \/ UNCHANGED vars
    BY <2>3, ElsewhereQuiet, LockedKept DEF Inside
  <2> QED BY <2>1, <2>2, <2>3 DEF Next
<1>3. TypeOK /\ Locked => OneLoop
  BY LockedIsOne
<1> QED BY <1>1, <1>2, <1>3, PTL DEF Spec

-----------------------------------------------------------------------------
(* How long the lists are.                                                   *)
LEMMA EntriesFinite ==
  ASSUME NEW list \in [Object -> Nat]
  PROVE  IsFiniteSet(Entries(list))
<1> DEFINE Of == [o \in Object |-> {o} \X (1..list[o])]
           Parts == {{o} \X (1..list[o]) : o \in Object}
<1>1. IsFiniteSet(Object)
  BY ClientAssumption, FS_AddElement DEF Object
<1>2. Of \in Surjection(Object, Parts)
  BY DEF Surjection
<1>3. IsFiniteSet(Parts)
  BY <1>1, <1>2, FS_Surjection
<1>4. ASSUME NEW P \in Parts PROVE IsFiniteSet(P)
  <2>1. PICK o \in Object : P = {o} \X (1..list[o])
    OBVIOUS
  <2>2. IsFiniteSet({o})
    BY FS_Singleton
  <2>3. IsFiniteSet(1..list[o])
    <3>1. 1 \in Int /\ list[o] \in Int
      OBVIOUS
    <3> QED BY <3>1, FS_Interval
  <2> QED BY <2>1, <2>2, <2>3, FS_Product
<1> QED BY <1>3, <1>4, FS_UNION DEF Entries

LEMMA TotalZero ==
  ASSUME NEW list \in [Object -> Nat]
  PROVE  Total(list) = 0 <=> \A o \in Object : list[o] = 0
<1>1. Total(list) = 0 <=> Entries(list) = {}
  BY EntriesFinite, FS_EmptySet DEF Total
<1>2. ASSUME Entries(list) = {}, NEW o \in Object PROVE list[o] = 0
  <2>1. list[o] # 0 => <<o, 1>> \in Entries(list)
    BY DEF Entries
  <2> QED BY <1>2, <2>1
<1>3. ASSUME \A o \in Object : list[o] = 0 PROVE Entries(list) = {}
  BY <1>3 DEF Entries
<1> QED BY <1>1, <1>2, <1>3

(* Where no object is listed twice, a list is as long as it has objects.     *)
LEMMA TotalOfSet ==
  ASSUME NEW list \in [Object -> Nat], \A o \in Object : list[o] <= 1
  PROVE  /\ IsFiniteSet({o \in Object : list[o] = 1})
         /\ Total(list) = Cardinality({o \in Object : list[o] = 1})
<1> DEFINE in == {o \in Object : list[o] = 1}
<1>1. IsFiniteSet(in)
  BY ClientAssumption, FS_AddElement, FS_Subset DEF Object
<1>2. Entries(list) = in \X {1}
  <2>1. ASSUME NEW o \in Object PROVE 1..list[o] = IF list[o] = 1 THEN {1} ELSE {}
    <3>1. list[o] = 0 \/ list[o] = 1
      OBVIOUS
    <3>2. 1..0 = {} /\ 1..1 = {1}
      OBVIOUS
    <3> QED BY <3>1, <3>2
  <2> QED BY <2>1 DEF Entries
<1>3. Cardinality(in \X {1}) = Cardinality(in) * 1
  <2>1. IsFiniteSet({1}) /\ Cardinality({1}) = 1
    BY FS_Singleton
  <2> QED BY <1>1, <2>1, FS_Product
<1>4. Cardinality(in) \in Nat
  BY <1>1, FS_CardinalityType
<1> QED BY <1>1, <1>2, <1>3, <1>4 DEF Total

(* When the two lists count all objects but one, and z is in none of them,   *)
(* then each of the others is in one.                                       *)
LEMMA AllOthersIn ==
  ASSUME NEW a \in [Object -> Nat], NEW f \in [Object -> Nat],
         \A o \in Object : a[o] + f[o] <= 1,
         NEW z \in Object, a[z] = 0, f[z] = 0,
         Total(a) + 1 + Total(f) = Cardinality(Object)
  PROVE  \A o \in Object : o # z => a[o] + f[o] = 1
<1> DEFINE A == {o \in Object : a[o] = 1}
           F == {o \in Object : f[o] = 1}
<1>0. IsFiniteSet(Object)
  BY ClientAssumption, FS_AddElement DEF Object
<1>1. IsFiniteSet(A) /\ Total(a) = Cardinality(A)
  <2>1. \A o \in Object : a[o] <= 1
    OBVIOUS
  <2> QED BY <2>1, TotalOfSet
<1>2. IsFiniteSet(F) /\ Total(f) = Cardinality(F)
  <2>1. \A o \in Object : f[o] <= 1
    OBVIOUS
  <2> QED BY <2>1, TotalOfSet
<1>3. Cardinality(A) \in Nat /\ Cardinality(F) \in Nat /\ Cardinality(Object) \in Nat
  BY <1>0, <1>1, <1>2, FS_CardinalityType
<1>4. A \cap F = {} /\ A \cup F \in SUBSET (Object \ {z})
  OBVIOUS
<1>5. Cardinality(A \cup F) = Cardinality(A) + Cardinality(F) - 0
  BY <1>1, <1>2, <1>4, FS_Union, FS_EmptySet
<1>6. IsFiniteSet(Object \ {z}) /\ Cardinality(Object \ {z}) = Cardinality(Object) - 1
  BY <1>0, FS_RemoveElement
<1>7. A \cup F = Object \ {z}
  <2>1. Cardinality(A \cup F) = Cardinality(Object \ {z})
    <3> HIDE DEF A, F
    <3> QED BY <1>1, <1>2, <1>3, <1>5, <1>6
  <2> QED BY <1>4, <1>6, <2>1, FS_Subset
<1> QED BY <1>7

-----------------------------------------------------------------------------
(* The register.  The lock of ZeroObjects goes with a place of one of the    *)
(* two threads, in every run; while the run is not irregular, the register   *)
(* is empty at rest (Rest) and lists each running station once, for its one  *)
(* task (Once, News); its semaphore is posted only in a start that has all   *)
(* objects (Waiting, Counted, Posted) or a close that has none left (End),   *)
(* and between them the pool is listed as long as a station is (Settled).    *)
M == pc["monitor"]
S == pc["shutdown"]

EndingNow == M = "ending" \/ S = "ending"
Empty     == \A o \in Object : active[o] = 0
AtRest    == \/ M \in {"ping", "join", "reset", "startLock", "ended"}
             \/ M = "idle" /\ app = "failed"
Zero(o)   == active[o] = 0 /\ failed[o] = 0
Fresh(o)  == Zero(o) /\ \A s \in Station, t \in Task : s = o => task[s][t] # "new"

Locks ==
  /\ M \in {"starting", "event", "ending"} <=> zlock = "monitor"
  /\ S = "ending" => zlock = "shutdown"
  /\ zlock = "shutdown" => S = "ending" \/ ~registered
  /\ ~registered => zlock = "shutdown" /\ S \in {"waitMe", "gone"}
  /\ M \in {"eventLock", "event"} => app # "failed"
  /\ M = "eventLock" => todo \subseteq Station

InCalls ==
  /\ \A o \in Object, k \in Task :
       call[o][k] # Idle => M \in {"starting", "event"} \/ EndingNow
  /\ \A k \in Task : call[Pool][k] # Idle => EndingNow
  /\ failed[Pool] = 0

News == M # "starting" => \A s \in Station, t \in Task : task[s][t] # "new"

Rest == /\ AtRest => Empty /\ S # "ending"
        /\ M = "startLock" => \A o \in Object : failed[o] = 0

Once == /\ \A o \in Object : active[o] <= 1
        /\ \A s \in Station : \A t, u \in Held(s) : t = u
        /\ \A s \in Station : \A t \in Held(s) : active[s] = 1

Settled == M # "starting" /\ ~EndingNow => sem = 0 /\ (active[Pool] = 1 \/ Empty)

Counted == M = "starting" => \A o \in Object : active[o] + failed[o] <= 1

Waiting == M = "starting" =>
  /\ \A o \in todo : Fresh(o) /\ call[o][1] = Idle
  /\ \A o \in Object, k \in Task : /\ call[o][k] \in {Idle, "start", "started"}
                                   /\ call[o][k] # Idle => k = 1
                                   /\ call[o][k] = "start" => Fresh(o)
  /\ \A s \in Station : \A t, u \in Task :
       task[s][t] = "new" /\ task[s][u] = "new" => t = u
  /\ \A s \in Station, t \in Task : task[s][t] = "new" => Zero(s)

Posted == M = "starting" =>
  /\ sem \in {0, 1}
  /\ sem = 1 => \A o \in Object : active[o] + failed[o] = 1

End == EndingNow =>
  /\ sem \in {0, 1} /\ (sem = 1 => Empty)
  /\ \A k \in Task : call[Pool][k] # Idle => k = 1 /\ active[Pool] = 1

StartCalls == \A o \in Object, k \in Task : call[o][k] = "start" => M = "starting"

Regular == News /\ Rest /\ Once /\ Settled /\ Counted /\ Waiting /\ Posted /\ End /\ StartCalls

RegInv == TypeOK /\ Locks /\ InCalls /\ (~irregular => Regular)

Unlisted == <<app, pc, todo, zlock, registered>>

(* The tasks and calls go on: no task becomes new, none comes between its    *)
(* OnObjectActive and its OnObjectClose, and no call begins.                *)
CallsGoOn == \A o \in Object, k \in Task :
               call'[o][k] # call[o][k] =>
                 /\ call[o][k] # Idle /\ call'[o][k] # "start"
                 /\ call'[o][k] = Idle \/ call[o][k] \notin {"start", "started"}

TasksGoOn == \A s \in Station, t \in Task : /\ task'[s][t] = "new" => task[s][t] = "new"
                                            /\ t \in Held(s)' => t \in Held(s)

LEMMA RegGoOn ==
  ASSUME RegInv, TypeOK', UNCHANGED <<Unlisted, lists>>, irregular => irregular',
         CallsGoOn, TasksGoOn
  PROVE  RegInv'
<1> USE DEF Unlisted, lists, M, S, EndingNow
<1>1. Locks'
  BY DEF RegInv, Locks
<1>0. Pool \in Object
  BY DEF Object
<1>2. InCalls'
  <2>1. \A o \in Object, k \in Task : call'[o][k] # Idle => call[o][k] # Idle
    BY DEF CallsGoOn
  <2> QED BY <1>0, <2>1 DEF RegInv, InCalls
<1>3. SUFFICES ASSUME ~irregular' PROVE Regular'
  BY <1>1, <1>2 DEF RegInv
<1>4. Regular
  BY <1>3 DEF RegInv
<1> USE <1>4 DEF Regular
<1>5. News'
  BY DEF News, TasksGoOn
<1>6. Rest' /\ Settled' /\ Counted' /\ Posted'
  BY DEF Rest, Settled, Counted, Posted, AtRest, Empty
<1>7. Once'
  <2>1. \A s \in Station : Held(s)' \subseteq Held(s)
    BY DEF TasksGoOn, Held
  <2> QED BY <2>1 DEF Once
<1>8. Waiting'
  <2>1. ASSUME NEW o \in Object, Fresh(o) PROVE Fresh(o)'
    BY <2>1 DEF Fresh, Zero, TasksGoOn
  <2>2. todo \subseteq Object /\ 1 \in Task
    BY ClientAssumption DEF RegInv, TypeOK, ThreadsOK, Task
  <2>3. ASSUME M = "starting" PROVE \A o \in todo : Fresh(o)' /\ call'[o][1] = Idle
    BY <2>1, <2>2, <2>3 DEF Waiting, CallsGoOn
  <2>4. ASSUME M = "starting", NEW o \in Object, NEW k \in Task
        PROVE  /\ call'[o][k] \in {Idle, "start", "started"}
               /\ call'[o][k] # Idle => k = 1
               /\ call'[o][k] = "start" => Fresh(o)'
    BY <2>1, <2>4 DEF Waiting, CallsGoOn
  <2>5. ASSUME M = "starting"
        PROVE  /\ \A s \in Station : \A t, u \in Task :
                    task'[s][t] = "new" /\ task'[s][u] = "new" => t = u
               /\ \A s \in Station, t \in Task : task'[s][t] = "new" => Zero(s)'
    BY <2>5 DEF Waiting, TasksGoOn, Zero
  <2> QED BY <2>3, <2>4, <2>5 DEF Waiting
<1>9. End' /\ StartCalls'
  <2>1. \A o \in Object, k \in Task : call'[o][k] # Idle => call[o][k] # Idle
    BY DEF CallsGoOn
  <2>2. \A o \in Object, k \in Task : call'[o][k] = "start" => call[o][k] = "start"
    BY DEF CallsGoOn
  <2>3. End'
    BY <1>0, <2>1 DEF End, Empty
  <2>4. StartCalls'
    BY <2>2 DEF StartCalls
  <2> QED BY <2>3, <2>4
<1> QED BY <1>5, <1>6, <1>7, <1>8, <1>9

(* A task of a station goes from one place to another.                       *)
LEMMA RegGo ==
  ASSUME RegInv, TypeOK', UNCHANGED <<Unlisted, lists, call>>, irregular => irregular',
         NEW s \in Station, NEW t \in Task, NEW there \in TaskAt, Go(s, t, there),
         there # "new",
         there \in {"token", "enter", "begin", "loop", "exit", "stop", "stopped"} => t \in Held(s)
  PROVE  RegInv'
<1>1. CallsGoOn
  BY DEF CallsGoOn
<1>2. TasksGoOn
  BY DEF TasksGoOn, Go, Held, RegInv, TypeOK, TasksOK
<1> QED BY <1>1, <1>2, RegGoOn

LEMMA RegRun ==
  ASSUME RegInv, TypeOK', NEW s \in Station, NEW t \in Task
  PROVE  /\ RunToken(s, t) => RegInv'
         /\ RunEnter(s, t) => RegInv'
         /\ RunBegin(s, t) => RegInv'
         /\ RunThrow(s, t) => RegInv'
         /\ RunEnd(s, t) => RegInv'
         /\ RunExit(s, t) => RegInv'
         /\ RunStop(s, t) => RegInv'
         /\ RunLast(s, t) => RegInv'
         /\ Restarted(s, t) => RegInv'
<1> USE DEF At, Held, TaskAt, Idle, Unlisted, threads, RunInnerReturns
<1>1. ASSUME RunToken(s, t) PROVE RegInv'
  <2>1. Go(s, t, "enter") \/ Go(s, t, Idle)
    BY <1>1 DEF RunToken
  <2> QED BY <1>1, <2>1, RegGo DEF RunToken
<1>2. ASSUME RunEnter(s, t) PROVE RegInv'
  BY <1>2, RegGo DEF RunEnter
<1>3. ASSUME RunBegin(s, t) PROVE RegInv'
  <2>1. Go(s, t, "exit") \/ Go(s, t, "loop")
    BY <1>3 DEF RunBegin
  <2> QED BY <1>3, <2>1, RegGo DEF RunBegin
<1>4. ASSUME RunThrow(s, t) PROVE RegInv'
  BY <1>4, RegGo DEF RunThrow
<1>5. ASSUME RunEnd(s, t) PROVE RegInv'
  BY <1>5, RegGo DEF RunEnd
<1>6. ASSUME RunExit(s, t) PROVE RegInv'
  BY <1>6, RegGo DEF RunExit
<1>7. ASSUME RunStop(s, t) PROVE RegInv'
  <2>1. Go(s, t, Idle) \/ Go(s, t, "stopped")
    BY <1>7 DEF RunStop
  <2> QED BY <1>7, <2>1, RegGo DEF RunStop
<1>8. ASSUME RunLast(s, t) PROVE RegInv'
  <2>1. Go(s, t, Idle) \/ Go(s, t, "start")
    BY <1>8 DEF RunLast
  <2> QED BY <1>8, <2>1, RegGo DEF RunLast
<1>9. ASSUME Restarted(s, t) PROVE RegInv'
  BY <1>9, RegGo DEF Restarted
<1> QED BY <1>1, <1>2, <1>3, <1>4, <1>5, <1>6, <1>7, <1>8, <1>9

LEMMA RegCall ==
  ASSUME RegInv, TypeOK', NEW s \in Station, NEW k \in Task
  PROVE  /\ CallStarted(s, k) => RegInv'
         /\ CallClose(s, k) => RegInv'
         /\ CallCancel(s, k) => RegInv'
         /\ CallClosed(s, k) => RegInv'
<1> USE DEF Unlisted, threads, tasks, Idle
<1> s \in Object
  BY DEF Object
<1>0. ASSUME UNCHANGED <<Unlisted, lists, task, irregular>>, NEW v \in CallAt,
             call[s][k] \notin {Idle, "start"}, v # "start",
             v = Idle \/ call[s][k] # "started",
             call' = [call EXCEPT ![s][k] = v]
      PROVE  RegInv'
  <2>1. CallsGoOn
    BY <1>0 DEF CallsGoOn, RegInv, TypeOK, TasksOK
  <2>2. TasksGoOn
    BY <1>0 DEF TasksGoOn, Held
  <2> QED BY <1>0, <2>1, <2>2, RegGoOn
<1>1. ASSUME CallStarted(s, k) PROVE RegInv'
  BY <1>0, <1>1 DEF CallStarted, CallAt
<1>2. ASSUME CallClose(s, k) PROVE RegInv'
  <2>1. PICK v \in {"cancel", Idle} : call' = [call EXCEPT ![s][k] = v]
    BY <1>2 DEF CallClose
  <2> QED BY <1>0, <1>2, <2>1 DEF CallClose, CallAt
<1>3. ASSUME CallCancel(s, k) PROVE RegInv'
  <2>1. PICK v \in {"closed", Idle} : call' = [call EXCEPT ![s][k] = v]
    BY <1>3 DEF CallCancel
  <2> QED BY <1>0, <1>3, <2>1 DEF CallCancel, CallAt
<1>4. ASSUME CallClosed(s, k) PROVE RegInv'
  BY <1>0, <1>4 DEF CallClosed, CallAt
<1> QED BY <1>1, <1>2, <1>3, <1>4

-----------------------------------------------------------------------------
(* In a start an object that is in no list comes into one; the last one, and *)
(* no one before it, posts.                                                 *)
LEMMA CountedIn ==
  ASSUME RegInv, ~irregular, UNCHANGED <<pc, registered>>, M = "starting",
         NEW z \in Object, Zero(z), OnObjectActive(z) \/ OnObjectFailed(z)
  PROVE  Counted' /\ Posted'
<1>1. active \in [Object -> Nat] /\ failed \in [Object -> Nat]
  BY DEF RegInv, TypeOK, ListsOK
<1>2. Count = Cardinality(Object)
  BY DEF RegInv, Locks, Count
<1>3. sem = 0
  <2>1. sem = 1 => active[z] + failed[z] = 1
    BY DEF RegInv, Regular, Posted
  <2>2. sem \in {0, 1}
    BY DEF RegInv, Regular, Posted
  <2> QED BY <2>1, <2>2 DEF Zero
<1>4. \A o \in Object : active'[o] + failed'[o] = IF o = z THEN 1 ELSE active[o] + failed[o]
  BY <1>1 DEF OnObjectActive, OnObjectFailed, Zero
<1>5. \A o \in Object : active[o] + failed[o] <= 1
  BY DEF RegInv, Regular, Counted
<1>6. \/ sem' = 0
      \/ sem' = 1 /\ Total(active) + 1 + Total(failed) = Cardinality(Object)
  BY <1>2, <1>3 DEF OnObjectActive, OnObjectFailed
<1>7. ASSUME Total(active) + 1 + Total(failed) = Cardinality(Object)
      PROVE  \A o \in Object : active'[o] + failed'[o] = 1
  <2>1. \A o \in Object : o # z => active[o] + failed[o] = 1
    BY <1>1, <1>5, <1>7, AllOthersIn DEF Zero
  <2> QED BY <1>4, <2>1
<1>8. Counted'
  BY <1>4, <1>5 DEF Counted
<1>9. Posted'
  BY <1>6, <1>7 DEF Posted
<1> QED BY <1>8, <1>9

LEMMA RegCallStart ==
  ASSUME RegInv, TypeOK', NEW s \in Station, NEW k \in Task, CallStart(s, k)
  PROVE  RegInv'
<1> USE DEF M, S, EndingNow, threads, Idle
<1>0. s \in Object /\ Pool \in Object /\ s # Pool
  BY ClientAssumption DEF Object
<1>1. Locks'
  BY DEF RegInv, Locks, CallStart
<1>2. /\ pc' = pc /\ app' = app /\ todo' = todo /\ registered' = registered
      /\ irregular' = irregular /\ active' = active /\ failed'[Pool] = failed[Pool]
  BY <1>0 DEF CallStart, Refuse, Launch, OnObjectFailed, lists, RegInv, TypeOK, ListsOK
<1>3. PICK v \in {Idle, "started"} : call' = [call EXCEPT ![s][k] = v]
  BY DEF CallStart
<1>4. call[s][k] = "start"
  BY DEF CallStart
<1>5. \A o \in Object, l \in Task : call'[o][l] = IF o = s /\ l = k THEN v ELSE call[o][l]
  BY <1>3, <1>0 DEF RegInv, TypeOK, TasksOK
<1>6. InCalls'
  BY <1>0, <1>2, <1>4, <1>5 DEF RegInv, InCalls
<1>7. SUFFICES ASSUME ~irregular PROVE Regular'
  BY <1>1, <1>2, <1>6 DEF RegInv
<1>8. Regular
  BY <1>7 DEF RegInv
<1>9. M = "starting"
  BY <1>0, <1>4, <1>8 DEF Regular, StartCalls
<1>10. Fresh(s) /\ k = 1 /\ s \notin todo
  BY <1>0, <1>4, <1>8, <1>9 DEF Regular, Waiting
<1>11. M # "ending" /\ S # "ending"
  BY <1>9 DEF RegInv, Locks
<1>12. \A u \in Station : Held(u)' = Held(u)
  <2>1. CASE UNCHANGED task
    BY <2>1 DEF Held
  <2>2. CASE Free(s) # {} /\ task' = [task EXCEPT ![s][NewTask(s)] = "new"]
    BY <2>2, NewTaskFree DEF Held, RegInv, TypeOK, TasksOK
  <2> QED BY <2>1, <2>2 DEF CallStart
<1>13. Counted' /\ Posted'
  <2>1. CASE Refuse(s)
    <3>1. OnObjectFailed(s)
      BY <2>1 DEF Refuse
    <3> QED BY <1>0, <1>2, <1>7, <1>9, <1>10, <3>1, CountedIn DEF Fresh
  <2>2. CASE Launch(s)
    <3>1. UNCHANGED <<active, failed, sem>>
      BY <2>2 DEF Launch, lists
    <3> QED BY <1>2, <1>8, <3>1 DEF Regular, Counted, Posted
  <2> QED BY <2>1, <2>2 DEF CallStart
<1>14. News' /\ Rest' /\ Settled' /\ End'
  BY <1>2, <1>9, <1>11 DEF News, Rest, AtRest, Settled, End
<1>15. Once'
  BY <1>2, <1>8, <1>12 DEF Regular, Once
<1>16. StartCalls'
  BY <1>2, <1>9 DEF StartCalls
<1>17. Waiting'
  <2>1. /\ \A u \in Station : u # s => \A t \in Task : task'[u][t] = task[u][t]
        /\ \A t, w \in Task : task'[s][t] = "new" /\ task'[s][w] = "new" => t = w
        /\ \A t \in Task : task'[s][t] = "new" => Zero(s)'
    <3>1. CASE Refuse(s) /\ UNCHANGED task
      BY <1>10, <3>1 DEF Fresh
    <3>2. CASE Launch(s) /\ Free(s) # {} /\ task' = [task EXCEPT ![s][NewTask(s)] = "new"]
      <4>1. \A t \in Task : task[s][t] # "new"
        BY <1>10 DEF Fresh
      <4>2. \A u \in Station, t \in Task :
              task'[u][t] = IF u = s /\ t = NewTask(s) THEN "new" ELSE task[u][t]
        BY <3>2, NewTaskFree DEF RegInv, TypeOK, TasksOK
      <4>3. Zero(s)'
        BY <1>10, <3>2 DEF Fresh, Zero, Launch, lists
      <4> QED BY <4>1, <4>2, <4>3
    <3> QED BY <3>1, <3>2 DEF CallStart
  <2>2. \A o \in Object : o # s => failed'[o] = failed[o]
    BY DEF CallStart, Refuse, Launch, OnObjectFailed, lists, RegInv, TypeOK, ListsOK
  <2>3. ASSUME NEW o \in Object, o # s, Fresh(o) PROVE Fresh(o)'
    BY <1>2, <2>1, <2>2, <2>3 DEF Fresh, Zero
  <2>4. todo \subseteq Object /\ 1 \in Task
    BY ClientAssumption DEF RegInv, TypeOK, ThreadsOK, Task
  <2>5. \A o \in todo : Fresh(o)' /\ call'[o][1] = Idle
    BY <1>2, <1>5, <1>8, <1>9, <1>10, <2>3, <2>4 DEF Regular, Waiting
  <2>6. \A o \in Object, l \in Task : /\ call'[o][l] \in {Idle, "start", "started"}
                                      /\ call'[o][l] # Idle => l = 1
                                      /\ call'[o][l] = "start" => Fresh(o)'
    BY <1>5, <1>8, <1>9, <1>10, <2>3 DEF Regular, Waiting
  <2>7. \A u \in Station : \A t, w \in Task :
          task'[u][t] = "new" /\ task'[u][w] = "new" => t = w
    BY <1>8, <1>9, <2>1 DEF Regular, Waiting
  <2>8. ASSUME NEW u \in Station, NEW t \in Task, task'[u][t] = "new" PROVE Zero(u)'
    <3>1. u # s => Zero(u)
      BY <1>8, <1>9, <2>1, <2>8 DEF Regular, Waiting
    <3> QED BY <1>2, <2>1, <2>2, <2>8, <3>1 DEF Zero, Object
  <2> QED BY <1>2, <2>5, <2>6, <2>7, <2>8 DEF Waiting
<1> QED BY <1>13, <1>14, <1>15, <1>16, <1>17 DEF Regular

LEMMA RegActive ==
  ASSUME RegInv, TypeOK', NEW s \in Station, NEW t \in Task, RunActive(s, t)
  PROVE  RegInv'
<1> USE DEF M, S, EndingNow, threads, Idle
<1>0. s \in Object /\ Pool \in Object /\ s # Pool
  BY ClientAssumption DEF Object
<1>1. /\ pc' = pc /\ app' = app /\ todo' = todo /\ registered' = registered
      /\ irregular' = irregular /\ failed' = failed /\ call' = call
      /\ active' = [active EXCEPT ![s] = @ + 1]
  BY DEF RunActive, OnObjectActive
<1>2. Locks' /\ InCalls'
  BY <1>1 DEF RegInv, Locks, InCalls, RunActive
<1>3. SUFFICES ASSUME ~irregular PROVE Regular'
  BY <1>1, <1>2 DEF RegInv
<1>4. Regular
  BY <1>3 DEF RegInv
<1>5. task[s][t] = "new"
  BY DEF RunActive, At
<1>6. M = "starting"
  BY <1>4, <1>5 DEF Regular, News
<1>7. Zero(s) /\ s \notin todo /\ \A u \in Task : task[s][u] = "new" => u = t
  BY <1>4, <1>5, <1>6 DEF Regular, Waiting, Fresh
<1>8. \A u \in Station, v \in Task :
        task'[u][v] = IF u = s /\ v = t THEN "token" ELSE task[u][v]
  BY DEF RunActive, Go, RegInv, TypeOK, TasksOK
<1>9. \A o \in Object : active'[o] = IF o = s THEN 1 ELSE active[o]
  BY <1>1, <1>7 DEF Zero, RegInv, TypeOK, ListsOK
<1>10. Counted' /\ Posted'
  BY <1>0, <1>1, <1>3, <1>6, <1>7, CountedIn DEF RunActive
<1>11. News' /\ Rest' /\ Settled' /\ StartCalls' /\ End'
  BY <1>1, <1>4, <1>6 DEF RegInv, Locks, Regular, News, Rest, AtRest, Settled, StartCalls, End
<1>12. Once'
  <2>1. Held(s) = {}
    BY <1>4, <1>7 DEF Regular, Once, Zero
  <2>2. \A u \in Station : Held(u)' = IF u = s THEN {t} ELSE Held(u)
    BY <1>8, <2>1 DEF Held
  <2> QED BY <1>0, <1>4, <1>9, <2>2 DEF Regular, Once, Object
<1>13. Waiting'
  <2>1. \A o \in Object : Fresh(o) /\ o # s => Fresh(o)'
    BY <1>1, <1>8, <1>9 DEF Fresh, Zero
  <2>2. todo \subseteq Object
    BY DEF RegInv, TypeOK, ThreadsOK
  <2>3. \A k \in Task : call[s][k] # "start"
    BY <1>0, <1>4, <1>5, <1>6 DEF Regular, Waiting, Fresh
  <2>4. \A o \in todo : Fresh(o)' /\ call'[o][1] = Idle
    BY <1>1, <1>4, <1>6, <1>7, <2>1, <2>2 DEF Regular, Waiting
  <2>5. \A o \in Object, k \in Task : /\ call'[o][k] \in {Idle, "start", "started"}
                                      /\ call'[o][k] # Idle => k = 1
                                      /\ call'[o][k] = "start" => Fresh(o)'
    BY <1>1, <1>4, <1>6, <2>1, <2>3 DEF Regular, Waiting
  <2>6. \A u \in Station : \A v, w \in Task :
          task'[u][v] = "new" /\ task'[u][w] = "new" => v = w
    BY <1>4, <1>6, <1>8 DEF Regular, Waiting
  <2>7. ASSUME NEW u \in Station, NEW v \in Task, task'[u][v] = "new" PROVE Zero(u)'
    <3>1. u # s /\ task[u][v] = "new"
      BY <1>7, <1>8, <2>7
    <3> QED BY <1>1, <1>4, <1>6, <1>9, <3>1 DEF Regular, Waiting, Zero, Object
  <2> QED BY <1>1, <2>4, <2>5, <2>6, <2>7 DEF Waiting
<1> QED BY <1>10, <1>11, <1>12, <1>13 DEF Regular

-----------------------------------------------------------------------------
(* An object leaves the list: in a close the last one posts, and at other    *)
(* times the pool is still there and no one posts.                          *)
LEMMA CountedOut ==
  ASSUME RegInv, ~irregular, UNCHANGED pc, M # "starting",
         NEW z \in Object, active[z] = 1, OnObjectClose(z), z = Pool => EndingNow
  PROVE  /\ Settled'
         /\ EndingNow => sem' \in {0, 1} /\ (sem' = 1 => Empty')
         /\ \A o \in Object : active'[o] = IF o = z THEN 0 ELSE active[o]
<1> USE DEF EndingNow, M, S
<1>0. Pool \in Object
  BY DEF Object
<1>1. active \in [Object -> Nat] /\ active' \in [Object -> Nat]
  BY DEF RegInv, TypeOK, ListsOK, OnObjectClose
<1>2. \A o \in Object : active'[o] = IF o = z THEN 0 ELSE active[o]
  BY <1>1 DEF OnObjectClose
<1>3. sem = 0
  BY DEF RegInv, Regular, Settled, End, Empty
<1>4. Total(active') = 0 <=> Empty'
  BY <1>1, TotalZero DEF Empty
<1>5. sem' = IF Empty' THEN 1 ELSE 0
  BY <1>3, <1>4 DEF OnObjectClose
<1>6. CASE EndingNow
  BY <1>2, <1>5, <1>6 DEF Settled
<1>7. CASE ~EndingNow
  <2>1. active[Pool] = 1
    BY <1>7 DEF RegInv, Regular, Settled, Empty
  <2>2. active'[Pool] = 1
    BY <1>0, <1>2, <1>7, <2>1
  <2>3. ~Empty'
    BY <1>0, <2>2 DEF Empty
  <2> QED BY <1>2, <1>5, <1>7, <2>2, <2>3 DEF Settled
<1> QED BY <1>6, <1>7

LEMMA RegClosed ==
  ASSUME RegInv, TypeOK', NEW s \in Station, NEW t \in Task, RunClosed(s, t)
  PROVE  RegInv'
<1> USE DEF M, S, EndingNow, threads, Idle
<1>0. s \in Object /\ Pool \in Object /\ s # Pool
  BY ClientAssumption DEF Object
<1>1. /\ pc' = pc /\ app' = app /\ todo' = todo /\ registered' = registered
      /\ zlock' = zlock /\ failed' = failed /\ call' = call
      /\ irregular' = (irregular \/ M = "starting")
  BY DEF RunClosed, OnObjectClose
<1>2. Locks' /\ InCalls'
  BY <1>1 DEF RegInv, Locks, InCalls
<1>3. SUFFICES ASSUME ~irregular, M # "starting" PROVE Regular'
  BY <1>1, <1>2 DEF RegInv
<1>4. Regular
  BY <1>3 DEF RegInv
<1>5. task[s][t] = "stopped" /\ t \in Held(s)
  BY DEF RunClosed, At, Held
<1>6. active[s] = 1 /\ \A u \in Held(s) : u = t
  BY <1>4, <1>5 DEF Regular, Once
<1>7. \A u \in Station, v \in Task :
        task'[u][v] = IF u = s /\ v = t THEN "end" ELSE task[u][v]
  BY DEF RunClosed, Go, RegInv, TypeOK, TasksOK
<1>8. /\ Settled'
      /\ EndingNow => sem' \in {0, 1} /\ (sem' = 1 => Empty')
      /\ \A o \in Object : active'[o] = IF o = s THEN 0 ELSE active[o]
  BY <1>0, <1>1, <1>3, <1>6, CountedOut DEF RunClosed
<1>9. News'
  BY <1>1, <1>3, <1>4, <1>7 DEF Regular, News
<1>10. Rest' /\ Counted' /\ Waiting' /\ Posted' /\ StartCalls'
  BY <1>1, <1>3, <1>4, <1>8 DEF Regular, Rest, AtRest, Empty, Counted, Waiting, Posted, StartCalls
<1>11. Once'
  <2>1. \A u \in Station : Held(u)' = IF u = s THEN {} ELSE Held(u)
    <3>1. Held(s)' = {}
      BY <1>6, <1>7 DEF Held
    <3>2. \A u \in Station : u # s => Held(u)' = Held(u)
      BY <1>7 DEF Held
    <3> QED BY <3>1, <3>2
  <2> QED BY <1>0, <1>4, <1>8, <2>1 DEF Regular, Once, Object
<1>12. End'
  BY <1>0, <1>1, <1>4, <1>8 DEF Regular, End
<1> QED BY <1>8, <1>9, <1>10, <1>11, <1>12 DEF Regular

LEMMA RegPool == RegInv /\ TypeOK' /\ PoolClose => RegInv'
<1> SUFFICES ASSUME RegInv, TypeOK', PoolClose PROVE RegInv'
  OBVIOUS
<1> USE DEF M, S, EndingNow, threads, Idle
<1>0. Pool \in Object /\ Pool \notin Station /\ 1 \in Task
  BY ClientAssumption DEF Object, Task
<1>1. /\ pc' = pc /\ app' = app /\ todo' = todo /\ registered' = registered
      /\ zlock' = zlock /\ failed' = failed /\ task' = task /\ irregular' = irregular
  BY DEF PoolClose, OnObjectClose, tasks
<1>2. EndingNow
  BY <1>0 DEF RegInv, InCalls, PoolClose
<1>3. \A o \in Object, k \in Task :
        call'[o][k] = IF o = Pool /\ k = 1 THEN Idle ELSE call[o][k]
  BY <1>0 DEF PoolClose, RegInv, TypeOK, TasksOK
<1>4. Locks' /\ InCalls'
  BY <1>0, <1>1, <1>3 DEF RegInv, Locks, InCalls
<1>5. SUFFICES ASSUME ~irregular PROVE Regular'
  BY <1>1, <1>4 DEF RegInv
<1>6. Regular
  BY <1>5 DEF RegInv
<1>7. active[Pool] = 1 /\ M # "starting"
  BY <1>0, <1>2, <1>6 DEF Regular, End, PoolClose, RegInv, Locks
<1>8. /\ Settled' /\ sem' \in {0, 1} /\ (sem' = 1 => Empty')
      /\ \A o \in Object : active'[o] = IF o = Pool THEN 0 ELSE active[o]
  BY <1>0, <1>1, <1>2, <1>5, <1>7, CountedOut DEF PoolClose
<1>9. News' /\ Rest' /\ Counted' /\ Waiting' /\ Posted'
  BY <1>1, <1>2, <1>6, <1>7, <1>8
     DEF Regular, News, Rest, AtRest, Empty, Counted, Waiting, Posted
<1>10. Once'
  <2>1. \A u \in Station : Held(u)' = Held(u)
    BY <1>1 DEF Held
  <2> QED BY <1>0, <1>6, <1>8, <2>1 DEF Regular, Once, Object
<1>11. End'
  BY <1>0, <1>1, <1>2, <1>3, <1>6, <1>8 DEF Regular, End
<1>12. StartCalls'
  BY <1>1, <1>3, <1>6 DEF Regular, StartCalls
<1> QED BY <1>8, <1>9, <1>10, <1>11, <1>12 DEF Regular

-----------------------------------------------------------------------------
(* A station starts outside a start: the run is irregular from then on.      *)
LEMMA RegIrregular ==
  ASSUME RegInv, TypeOK', UNCHANGED Unlisted, irregular', failed'[Pool] = failed[Pool],
         \A o \in Object, k \in Task : call'[o][k] # Idle => call[o][k] # Idle
  PROVE  RegInv'
<1> USE DEF Unlisted, M, S, EndingNow
<1>1. Pool \in Object
  BY DEF Object
<1>2. Locks'
  BY DEF RegInv, Locks
<1>3. InCalls'
  BY <1>1 DEF RegInv, InCalls
<1> QED BY <1>2, <1>3 DEF RegInv

LEMMA RegEvent ==
  ASSUME RegInv, TypeOK', NEW s \in Station, NEW k \in Task, CallEvent(s, k)
  PROVE  RegInv'
<1> USE DEF threads, Unlisted, tasks, Idle
<1>0. s \in Object
  BY DEF Object
<1>1. PICK next \in {Idle, "start", "close"} :
        /\ call' = [call EXCEPT ![s][k] = next]
        /\ irregular' = (irregular \/ next = "start")
  BY DEF CallEvent
<1>2. call[s][k] = "event" /\ UNCHANGED <<Unlisted, lists, task>>
  BY DEF CallEvent
<1>3. \A o \in Object, l \in Task : call'[o][l] = IF o = s /\ l = k THEN next ELSE call[o][l]
  BY <1>0, <1>1 DEF RegInv, TypeOK, TasksOK
<1>4. CASE next = "start"
  BY <1>1, <1>2, <1>3, <1>4, RegIrregular DEF lists
<1>5. CASE next # "start"
  <2>1. CallsGoOn
    BY <1>2, <1>3, <1>5 DEF CallsGoOn
  <2>2. TasksGoOn
    BY <1>2 DEF TasksGoOn, Held
  <2> QED BY <1>1, <1>2, <2>1, <2>2, RegGoOn
<1> QED BY <1>4, <1>5

LEMMA RegRestart ==
  ASSUME RegInv, TypeOK', NEW s \in Station, NEW t \in Task, Restart(s, t)
  PROVE  RegInv'
<1>1. UNCHANGED <<Unlisted, call>> /\ irregular'
  BY DEF Restart, threads, Unlisted
<1>2. failed'[Pool] = failed[Pool]
  BY ClientAssumption
     DEF Restart, Refuse, Launch, OnObjectFailed, lists, RegInv, TypeOK, ListsOK, Object
<1> QED BY <1>1, <1>2, RegIrregular

-----------------------------------------------------------------------------
(* A move of a thread that begins or ends neither a start nor a close.       *)
LEMMA RegMove ==
  ASSUME RegInv, TypeOK', Locks', InCalls', UNCHANGED <<lists, task, call, irregular>>,
         M' = "starting" <=> M = "starting", M = "starting" => todo' = todo,
         M' = "startLock" => M = "startLock", AtRest' => AtRest,
         M' = "ending" <=> M = "ending", S' = "ending" <=> S = "ending"
  PROVE  RegInv'
<1> USE DEF lists, EndingNow
<1>1. SUFFICES ASSUME ~irregular PROVE Regular'
  BY DEF RegInv
<1>2. Regular
  BY <1>1 DEF RegInv
<1>3. News' /\ Rest' /\ Settled' /\ Counted' /\ Posted' /\ End'
  BY <1>2 DEF Regular, News, Rest, Empty, Settled, Counted, Posted, End
<1>4. Waiting'
  BY <1>2 DEF Regular, Waiting, Fresh, Zero
<1>5. Once'
  <2>1. \A u \in Station : Held(u)' = Held(u)
    BY DEF Held
  <2> QED BY <1>2, <2>1 DEF Regular, Once
<1>6. StartCalls'
  BY <1>2 DEF Regular, StartCalls
<1> QED BY <1>3, <1>4, <1>5, <1>6 DEF Regular

(* The moves of the monitor thread, but those into and out of a start or a   *)
(* close, and the lock of an event.                                          *)
LEMMA RegMonitor ==
  ASSUME RegInv, TypeOK',
         \/ Ping \/ Join \/ Ready \/ EventEnd \/ ClosingEnd \/ MonitorEnd
         \/ CenterStart \/ CenterClosing \/ CenterStop
         \/ \E s \in Station, c \in Config : StationEvent(s, c)
  PROVE  RegInv'
<1>1. /\ S' = S /\ registered' = registered /\ UNCHANGED <<lists, task, call, irregular>>
      /\ \/ /\ UNCHANGED <<zlock, todo>>
            /\ \/ M = "ping" /\ M' = "join"
               \/ M = "join" /\ M' = "reset"
               \/ M \in {"ping", "join"} /\ M' = "idle"
               \/ M = "ready" /\ M' = "idle" /\ app' = "run"
               \/ M = "ended" /\ M' = "idle"
               \/ M = "idle" /\ M' = "gone"
               \/ M = "idle" /\ app = "failed" /\ M' = "ping"
               \/ M = "idle" /\ M' = "endLock"
               \/ M = "idle" /\ M' = "idle" /\ app' = app
         \/ M = "event" /\ NoCall /\ M' = "idle" /\ zlock' = Idle /\ app' = app
         \/ /\ M = "idle" /\ M' = "eventLock" /\ app' = "run"
            /\ todo' \subseteq Station /\ zlock' = zlock
  BY DEF M, S, Move, Lost, Receive, tasks, lists, RegInv, TypeOK, ThreadsOK, Thread,
         Ping, Join, Ready, EventEnd, ClosingEnd, MonitorEnd,
         CenterStart, CenterClosing, CenterStop, StationEvent
<1>2. Locks'
  BY <1>1 DEF RegInv, Locks, Idle
<1>3. InCalls'
  BY <1>1 DEF RegInv, InCalls, EndingNow, NoCall, lists, Object
<1>4. AtRest' => AtRest
  BY <1>1 DEF AtRest, RegInv, Locks
<1> QED BY <1>1, <1>2, <1>3, <1>4, RegMove

LEMMA RegShutdown ==
  ASSUME RegInv, TypeOK', Shutdown \/ Destroy \/ OnZeroDestory \/ Disposed
  PROVE  RegInv'
<1>1. /\ M' = M /\ UNCHANGED <<lists, task, call, irregular, todo>>
      /\ \/ /\ UNCHANGED <<zlock, registered>>
            /\ \/ S = "idle" /\ S' \in {"endLock", "ended"} /\ app' = app
               \/ S = "ended" /\ S' = "destroy" /\ app' = "destroy"
               \/ S = "destroy" /\ S' = "waitMe" /\ app' = app
               \/ S = "waitMe" /\ S' = "gone" /\ app' = "disposed"
         \/ /\ S = "destroy" /\ S' = "waitMe" /\ app' = app
            /\ zlock = Idle /\ zlock' = "shutdown" /\ registered' = FALSE
  BY DEF M, S, Move, tasks, lists, RegInv, TypeOK, ThreadsOK, Thread,
         Shutdown, Destroy, OnZeroDestory, Disposed
<1>2. Locks'
  BY <1>1 DEF RegInv, Locks, Idle
<1>3. InCalls'
  BY <1>1 DEF RegInv, InCalls, EndingNow, lists
<1>4. AtRest' => AtRest
  BY <1>1 DEF AtRest
<1> QED BY <1>1, <1>2, <1>3, <1>4, RegMove

-----------------------------------------------------------------------------
(* The start.  At rest the list is empty, so that the reset clears nothing;  *)
(* with the lock it finds no close, no call and no new task.                *)
LEMMA RegReset == RegInv /\ TypeOK' /\ ResetObjectActive => RegInv'
<1> SUFFICES ASSUME RegInv, TypeOK', ResetObjectActive PROVE RegInv'
  OBVIOUS
<1>1. /\ M = "reset" /\ M' = "startLock" /\ S' = S
      /\ UNCHANGED <<app, todo, zlock, registered, sem, task, call, irregular>>
      /\ \A o \in Object : active'[o] = 0 /\ failed'[o] = 0
  BY DEF ResetObjectActive, Move, M, S, tasks, RegInv, TypeOK, ThreadsOK, Thread
<1>2. Locks'
  BY <1>1 DEF RegInv, Locks
<1>3. InCalls'
  BY <1>1 DEF RegInv, InCalls, EndingNow, Object
<1>4. SUFFICES ASSUME ~irregular PROVE Regular'
  BY <1>1, <1>2, <1>3 DEF RegInv
<1>5. Regular
  BY <1>4 DEF RegInv
<1>6. News' /\ Rest' /\ Settled' /\ Counted' /\ Waiting' /\ Posted' /\ End'
  BY <1>1, <1>5
     DEF Regular, News, Rest, AtRest, Empty, Settled, EndingNow, Counted, Waiting, Posted, End
<1>7. Once'
  <2>1. Empty
    BY <1>1, <1>5 DEF Regular, Rest, AtRest
  <2>2. \A s \in Station : Held(s) = {}
    BY <1>5, <2>1 DEF Regular, Once, Empty, Object
  <2>3. \A s \in Station : Held(s)' = {}
    BY <1>1, <2>2 DEF Held
  <2> QED BY <1>1, <2>3 DEF Once
<1>8. StartCalls'
  BY <1>1, <1>5 DEF Regular, StartCalls
<1> QED BY <1>6, <1>7, <1>8 DEF Regular

LEMMA RegStartLock == RegInv /\ TypeOK' /\ StartLock => RegInv'
<1> SUFFICES ASSUME RegInv, TypeOK', StartLock PROVE RegInv'
  OBVIOUS
<1>1. /\ M = "startLock" /\ M' = "starting" /\ S' = S /\ zlock = Idle /\ zlock' = "monitor"
      /\ UNCHANGED <<app, registered, lists, task, call, irregular>>
  BY DEF StartLock, Move, M, S, tasks, RegInv, TypeOK, ThreadsOK, Thread
<1>2. Locks'
  BY <1>1 DEF RegInv, Locks, Idle
<1>3. InCalls'
  BY <1>1 DEF RegInv, InCalls, EndingNow, lists
<1>4. SUFFICES ASSUME ~irregular PROVE Regular'
  BY <1>1, <1>2, <1>3 DEF RegInv
<1>5. Regular
  BY <1>4 DEF RegInv
<1>6. ~EndingNow
  BY <1>1 DEF RegInv, Locks, EndingNow, Idle
<1>7. \A o \in Object : active[o] = 0 /\ failed[o] = 0
  BY <1>1, <1>5 DEF Regular, Rest, AtRest, Empty
<1>8. \A o \in Object, k \in Task : call[o][k] = Idle
  BY <1>1, <1>6 DEF RegInv, InCalls
<1>9. \A s \in Station, t \in Task : task[s][t] # "new"
  BY <1>1, <1>5 DEF Regular, News
<1>10. sem = 0
  BY <1>1, <1>5, <1>6 DEF Regular, Settled
<1>11. News' /\ Rest' /\ Settled' /\ End' /\ Posted'
  BY <1>1, <1>6, <1>10 DEF News, Rest, AtRest, Settled, End, EndingNow, Posted, lists
<1>12. Counted'
  BY <1>1, <1>7 DEF Counted, lists
<1>13. Waiting'
  <2>1. todo' \subseteq Object /\ 1 \in Task
    BY ClientAssumption DEF TypeOK, ThreadsOK, Task
  <2>2. \A o \in Object : Fresh(o)'
    BY <1>1, <1>7, <1>9 DEF Fresh, Zero, lists
  <2>3. \A o \in Object, k \in Task : call'[o][k] = Idle
    BY <1>1, <1>8
  <2>4. \A s \in Station, t \in Task : task'[s][t] # "new"
    BY <1>1, <1>9
  <2> QED BY <2>1, <2>2, <2>3, <2>4 DEF Waiting, Idle
<1>14. Once'
  <2>1. \A u \in Station : Held(u)' = Held(u)
    BY <1>1 DEF Held
  <2> QED BY <1>1, <1>5, <2>1 DEF Regular, Once, lists
<1>15. StartCalls'
  BY <1>1 DEF StartCalls
<1> QED BY <1>11, <1>12, <1>13, <1>14, <1>15 DEF Regular

LEMMA RegNext ==
  ASSUME RegInv, TypeOK', NEW o \in Object, StartNext(o)
  PROVE  RegInv'
<1> USE DEF M, S, EndingNow, lists, tasks, Idle
<1>0. Pool \in Object /\ 1 \in Task /\ \A s \in Station : s \in Object /\ s # Pool
  BY ClientAssumption DEF Object, Task
<1>1. /\ M = "starting" /\ o \in todo /\ todo' = todo \ {o} /\ NoCall
      /\ UNCHANGED <<app, pc, zlock, registered, task, irregular, failed>>
  BY DEF StartNext, OnObjectActive
<1>2. CASE o = Pool
  <2>1. OnObjectActive(Pool) /\ call' = call
    BY <1>2 DEF StartNext
  <2>2. Locks' /\ InCalls'
    BY <1>1, <2>1 DEF RegInv, Locks, InCalls
  <2>3. SUFFICES ASSUME ~irregular PROVE Regular'
    BY <1>1, <2>2 DEF RegInv
  <2>4. Regular
    BY <2>3 DEF RegInv
  <2>5. Zero(Pool)
    BY <1>1, <1>2, <2>4 DEF Regular, Waiting, Fresh
  <2>6. \A u \in Object : active'[u] = IF u = Pool THEN 1 ELSE active[u]
    BY <2>1, <2>5 DEF OnObjectActive, Zero, RegInv, TypeOK, ListsOK
  <2>7. Counted' /\ Posted'
    BY <1>0, <1>1, <2>1, <2>3, <2>5, CountedIn
  <2>8. News' /\ Rest' /\ Settled' /\ End' /\ StartCalls'
    BY <1>1 DEF RegInv, Locks, News, Rest, AtRest, Settled, End, StartCalls
  <2>9. Once'
    <3>1. \A u \in Station : Held(u)' = Held(u)
      BY <1>1 DEF Held
    <3> QED BY <1>0, <2>4, <2>6, <3>1 DEF Regular, Once
  <2>10. Waiting'
    <3>1. \A u \in Object : u # Pool /\ Fresh(u) => Fresh(u)'
      BY <1>1, <2>6 DEF Fresh, Zero
    <3>2. todo \subseteq Object
      BY DEF RegInv, TypeOK, ThreadsOK
    <3>3. \A u \in todo' : Fresh(u)' /\ call'[u][1] = Idle
      BY <1>1, <1>2, <2>1, <2>4, <3>1, <3>2 DEF Regular, Waiting
    <3>4. \A u \in Object, k \in Task : call'[u][k] = Idle
      BY <1>1, <2>1 DEF NoCall
    <3>5. \A s \in Station, t \in Task : task'[s][t] = "new" => Zero(s)'
      BY <1>0, <1>1, <2>4, <2>6 DEF Regular, Waiting, Zero
    <3>6. \A s \in Station : \A t, u \in Task :
            task'[s][t] = "new" /\ task'[s][u] = "new" => t = u
      BY <1>1, <2>4 DEF Regular, Waiting
    <3> QED BY <3>3, <3>4, <3>5, <3>6 DEF Waiting
  <2> QED BY <2>7, <2>8, <2>9, <2>10 DEF Regular
<1>3. CASE o # Pool
  <2>1. call' = [call EXCEPT ![o][1] = "start"] /\ UNCHANGED lists
    BY <1>3 DEF StartNext
  <2>2. \A u \in Object, k \in Task :
          call'[u][k] = IF u = o /\ k = 1 THEN "start" ELSE Idle
    BY <1>0, <1>1, <2>1 DEF NoCall, RegInv, TypeOK, TasksOK
  <2>3. Locks'
    BY <1>1 DEF RegInv, Locks
  <2>4. InCalls'
    BY <1>0, <1>1, <1>3, <2>1, <2>2 DEF RegInv, InCalls
  <2>5. SUFFICES ASSUME ~irregular PROVE Regular'
    BY <1>1, <2>3, <2>4 DEF RegInv
  <2>6. Regular
    BY <2>5 DEF RegInv
  <2>7. News' /\ Rest' /\ Settled' /\ End' /\ StartCalls' /\ Counted' /\ Posted'
    BY <1>1, <2>1, <2>6
       DEF Regular, RegInv, Locks, News, Rest, AtRest, Settled, End, StartCalls, Counted, Posted
  <2>8. Once'
    <3>1. \A u \in Station : Held(u)' = Held(u)
      BY <1>1 DEF Held
    <3> QED BY <2>1, <2>6, <3>1 DEF Regular, Once
  <2>9. Waiting'
    <3>1. \A u \in Object : Fresh(u) => Fresh(u)'
      BY <1>1, <2>1 DEF Fresh, Zero
    <3>2. todo \subseteq Object
      BY DEF RegInv, TypeOK, ThreadsOK
    <3>3. \A u \in todo' : Fresh(u)' /\ call'[u][1] = Idle
      BY <1>0, <1>1, <2>2, <2>6, <3>1, <3>2 DEF Regular, Waiting
    <3>4. Fresh(o)
      BY <1>1, <2>6 DEF Regular, Waiting
    <3>5. \A u \in Object, k \in Task : /\ call'[u][k] \in {Idle, "start", "started"}
                                        /\ call'[u][k] # Idle => k = 1
                                        /\ call'[u][k] = "start" => Fresh(u)'
      BY <2>2, <3>1, <3>4
    <3>6. \A s \in Station, t \in Task : task'[s][t] = "new" => Zero(s)'
      BY <1>1, <2>1, <2>6 DEF Regular, Waiting, Zero
    <3>7. \A s \in Station : \A t, u \in Task :
            task'[s][t] = "new" /\ task'[s][u] = "new" => t = u
      BY <1>1, <2>6 DEF Regular, Waiting
    <3> QED BY <3>3, <3>5, <3>6, <3>7 DEF Waiting
  <2> QED BY <2>7, <2>8, <2>9 DEF Regular
<1> QED BY <1>2, <1>3

(* The wait ends with the post of the last object, and takes it.             *)
LEMMA RegStartWait == RegInv /\ TypeOK' /\ StartWait => RegInv'
<1> SUFFICES ASSUME RegInv, TypeOK', StartWait PROVE RegInv'
  OBVIOUS
<1>0. Pool \in Object /\ Station \subseteq Object
  BY DEF Object
<1>1. /\ M = "starting" /\ M' = "ready" /\ S' = S /\ zlock' = Idle /\ NoCall
      /\ sem > 0 /\ sem' = sem - 1
      /\ UNCHANGED <<app, todo, registered, active, failed, task, call, irregular>>
  BY DEF StartWait, WaitAllObjectSemaphore, Move, M, S, tasks, RegInv, TypeOK, ThreadsOK, Thread
<1>2. Locks'
  BY <1>1 DEF RegInv, Locks, Idle
<1>3. InCalls'
  BY <1>0, <1>1 DEF RegInv, InCalls, NoCall
<1>4. SUFFICES ASSUME ~irregular PROVE Regular'
  BY <1>1, <1>2, <1>3 DEF RegInv
<1>5. Regular
  BY <1>4 DEF RegInv
<1>6. sem = 1 /\ \A o \in Object : active[o] + failed[o] = 1
  BY <1>1, <1>5 DEF Regular, Posted
<1>7. active[Pool] = 1
  BY <1>0, <1>6 DEF RegInv, InCalls, TypeOK, ListsOK
<1>8. News'
  <2>1. \A s \in Station : ~Zero(s)
    BY <1>0, <1>6 DEF Zero
  <2> QED BY <1>1, <1>5, <2>1 DEF Regular, Waiting, News
<1>9. ~EndingNow'
  BY <1>1 DEF RegInv, Locks, EndingNow
<1>10. Rest' /\ Settled' /\ Counted' /\ Waiting' /\ Posted' /\ End'
  BY <1>1, <1>6, <1>7, <1>9 DEF Rest, AtRest, Settled, Counted, Waiting, Posted, End
<1>11. Once'
  <2>1. \A u \in Station : Held(u)' = Held(u)
    BY <1>1 DEF Held
  <2> QED BY <1>1, <1>5, <2>1 DEF Regular, Once
<1>12. StartCalls'
  BY <1>1 DEF StartCalls, NoCall, Idle
<1> QED BY <1>8, <1>10, <1>11, <1>12 DEF Regular

-----------------------------------------------------------------------------
(* The close, by either thread.  With the lock it finds no start and no      *)
(* other close; where the list is empty it is over at once.                 *)
LEMMA RegEndLock ==
  ASSUME RegInv, TypeOK', NEW h \in Thread, EndLock(h)
  PROVE  RegInv'
<1>0. Pool \in Object /\ active \in [Object -> Nat]
  BY DEF Object, RegInv, TypeOK, ListsOK
<1>1. /\ zlock = Idle /\ UNCHANGED <<todo, registered, lists, task, irregular>>
      /\ \/ h = "monitor" /\ M = "endLock" /\ S' = S
         \/ h = "shutdown" /\ S = "endLock" /\ M' = M
      /\ IF Empty
         THEN /\ pc'[h] = "ended" /\ app' = "closed" /\ UNCHANGED <<zlock, call>>
         ELSE /\ pc'[h] = "ending" /\ app' = "closing" /\ zlock' = h
              /\ call' = [o \in Object |-> [k \in Task |-> IF k \in Slots(o) THEN "close"
                                                           ELSE Idle]]
  BY <1>0, TotalZero
     DEF EndLock, Move, M, S, Empty, tasks, RegInv, TypeOK, ThreadsOK, Thread
<1>2. ~EndingNow /\ M \notin {"starting", "event", "ending"} /\ registered
  BY <1>1 DEF RegInv, Locks, EndingNow, Idle
<1>3. Locks'
  BY <1>1, <1>2 DEF RegInv, Locks, M, S, Idle, EndingNow
<1>4. InCalls'
  <2>1. failed'[Pool] = 0
    BY <1>1 DEF RegInv, InCalls, lists
  <2>2. CASE Empty
    BY <1>0, <1>1, <1>2, <2>1, <2>2 DEF RegInv, InCalls, M, S
  <2>3. CASE ~Empty
    <3>1. EndingNow'
      BY <1>1, <2>3 DEF M, S, EndingNow
    <3> QED BY <2>1, <3>1 DEF InCalls
  <2> QED BY <2>2, <2>3
<1>5. SUFFICES ASSUME ~irregular PROVE Regular'
  BY <1>1, <1>3, <1>4 DEF RegInv
<1>6. Regular
  BY <1>5 DEF RegInv
<1>7. sem = 0 /\ (active[Pool] = 1 \/ Empty)
  BY <1>2, <1>6 DEF Regular, Settled
<1>8. (M' # "starting" /\ M' # "startLock") \/ M' = M
  BY <1>1 DEF M
<1>9. News' /\ Counted' /\ Waiting' /\ Posted'
  BY <1>1, <1>2, <1>6, <1>8 DEF Regular, News, Counted, Waiting, Posted
<1>10. Rest'
  <2>1. AtRest' /\ ~Empty => AtRest
    BY <1>1, <1>2 DEF AtRest, M, S
  <2>2. AtRest' => Empty
    BY <1>6, <2>1 DEF Regular, Rest
  <2>3. Empty => S' # "ending"
    BY <1>1, <1>2 DEF M, S, EndingNow
  <2>4. M' = "startLock" => M = "startLock"
    BY <1>1 DEF M
  <2> QED BY <1>1, <1>6, <2>2, <2>3, <2>4 DEF Regular, Rest, Empty, lists
<1>11. Settled'
  BY <1>1, <1>7 DEF Settled, Empty, lists
<1>12. Once'
  <2>1. \A u \in Station : Held(u)' = Held(u)
    BY <1>1 DEF Held
  <2> QED BY <1>1, <1>6, <2>1 DEF Regular, Once, lists
<1>13. End'
  <2>1. Empty => ~EndingNow'
    BY <1>1, <1>2 DEF M, S, EndingNow
  <2>2. ASSUME ~Empty, NEW k \in Task, call'[Pool][k] # Idle PROVE k = 1 /\ active[Pool] = 1
    <3>1. k \in Slots(Pool)
      BY <1>0, <1>1, <2>2
    <3> QED BY <1>7, <2>2, <3>1 DEF Slots, Task
  <2> QED BY <1>1, <1>7, <2>1, <2>2 DEF End, lists
<1>14. StartCalls'
  <2>1. \A o \in Object, k \in Task : call'[o][k] # "start"
    BY <1>1, <1>2, <1>6 DEF Regular, StartCalls, Idle
  <2> QED BY <2>1 DEF StartCalls
<1> QED BY <1>9, <1>10, <1>11, <1>12, <1>13, <1>14 DEF Regular

(* The wait of a close ends with the post of the last object, and takes it.  *)
LEMMA RegEndWait ==
  ASSUME RegInv, TypeOK', NEW h \in Thread, EndWait(h)
  PROVE  RegInv' /\ (irregular \/ Empty)
<1>0. Pool \in Object
  BY DEF Object
<1>1. /\ UNCHANGED <<todo, registered, active, failed, task, call, irregular>>
      /\ \/ h = "monitor" /\ M = "ending" /\ M' = "ended" /\ S' = S
         \/ h = "shutdown" /\ S = "ending" /\ S' = "ended" /\ M' = M
      /\ NoCall /\ sem > 0 /\ sem' = sem - 1 /\ app' = "closed" /\ zlock' = Idle
  BY DEF EndWait, WaitAllObjectSemaphore, Move, M, S, tasks, RegInv, TypeOK, ThreadsOK, Thread
<1>2. Locks' /\ ~EndingNow' /\ M' # "starting"
  BY <1>1 DEF RegInv, Locks, EndingNow, Idle
<1>3. InCalls'
  BY <1>0, <1>1 DEF RegInv, InCalls, NoCall
<1>4. SUFFICES ASSUME ~irregular PROVE Regular' /\ Empty
  BY <1>1, <1>2, <1>3 DEF RegInv
<1>5. Regular
  BY <1>4 DEF RegInv
<1>6. sem = 1 /\ Empty
  BY <1>1, <1>5 DEF Regular, End, EndingNow
<1>7. News'
  BY <1>1, <1>5 DEF Regular, News, RegInv, Locks
<1>8. Rest' /\ Settled' /\ Counted' /\ Waiting' /\ Posted' /\ End'
  BY <1>1, <1>2, <1>5, <1>6
     DEF Regular, Rest, EndingNow, Empty, Settled, Counted, Waiting, Posted, End
<1>9. Once'
  <2>1. \A u \in Station : Held(u)' = Held(u)
    BY <1>1 DEF Held
  <2> QED BY <1>1, <1>5, <2>1 DEF Regular, Once
<1>10. StartCalls'
  BY <1>1 DEF StartCalls, NoCall, Idle
<1> QED BY <1>6, <1>7, <1>8, <1>9, <1>10 DEF Regular

LEMMA RegEventLock == RegInv /\ TypeOK' /\ EventLock => RegInv'
<1> SUFFICES ASSUME RegInv, TypeOK', EventLock PROVE RegInv'
  OBVIOUS
<1>0. Pool \in Object /\ Pool \notin Station
  BY ClientAssumption DEF Object
<1>1. /\ M = "eventLock" /\ M' = "event" /\ S' = S /\ zlock = Idle /\ zlock' = "monitor"
      /\ call' = [o \in Object |-> [k \in Task |-> IF o \in todo /\ k \in Slots(o)
                                                  THEN "event" ELSE Idle]]
      /\ UNCHANGED <<app, registered, lists, task, irregular>>
  BY DEF EventLock, Move, M, S, tasks, RegInv, TypeOK, ThreadsOK, Thread
<1>2. Locks'
  BY <1>1 DEF RegInv, Locks, Idle
<1>3. Pool \notin todo
  BY <1>0, <1>1 DEF RegInv, Locks
<1>4. InCalls'
  BY <1>0, <1>1, <1>3 DEF RegInv, InCalls, lists
<1>5. SUFFICES ASSUME ~irregular PROVE Regular'
  BY <1>1, <1>2, <1>4 DEF RegInv
<1>6. Regular
  BY <1>5 DEF RegInv
<1>7. ~EndingNow /\ ~EndingNow'
  BY <1>1 DEF RegInv, Locks, EndingNow, Idle
<1>8. News' /\ Rest' /\ Settled' /\ Counted' /\ Waiting' /\ Posted' /\ End'
  BY <1>1, <1>6, <1>7
     DEF Regular, News, Rest, AtRest, Empty, Settled, Counted, Waiting, Posted, End, lists
<1>9. Once'
  <2>1. \A u \in Station : Held(u)' = Held(u)
    BY <1>1 DEF Held
  <2> QED BY <1>1, <1>6, <2>1 DEF Regular, Once, lists
<1>10. StartCalls'
  BY <1>1 DEF StartCalls, Idle
<1> QED BY <1>8, <1>9, <1>10 DEF Regular

-----------------------------------------------------------------------------
LEMMA RegInit == Init => RegInv
<1> SUFFICES ASSUME Init PROVE RegInv
  OBVIOUS
<1>1. M = "ping" /\ S = "idle"
  BY DEF Init, M, S, Thread
<1>2. Locks
  BY <1>1 DEF Init, Locks, Idle
<1>3. InCalls
  BY DEF Init, InCalls, Object
<1>4. Once
  <2>1. \A s \in Station : Held(s) = {}
    BY DEF Init, Held, Idle
  <2> QED BY <2>1 DEF Init, Once
<1>5. News /\ Rest /\ Settled /\ Counted /\ Waiting /\ Posted /\ End /\ StartCalls
  BY <1>1 DEF Init, News, Rest, AtRest, Empty, Settled, EndingNow, Counted, Waiting, Posted,
     End, StartCalls, Idle
<1> QED BY <1>2, <1>3, <1>4, <1>5, TypedInit DEF RegInv, Regular

LEMMA RegStep == RegInv /\ [Next]_vars => RegInv'
<1> SUFFICES ASSUME RegInv, [Next]_vars PROVE RegInv'
  OBVIOUS
<1>0. TypeOK'
  BY TypedStep DEF RegInv
<1>1. CASE Calls
  BY <1>0, <1>1, RegPool, RegCallStart, RegCall, RegEvent DEF Calls
<1>2. CASE Runs \/ Throws
  BY <1>0, <1>2, RegRun, RegActive, RegClosed, RegRestart DEF Runs, Run, Throws
<1>3. CASE Joins
  BY <1>0, <1>3, RegMonitor, RegReset, RegStartLock, RegNext, RegStartWait DEF Joins
<1>4. CASE Ends
  BY <1>0, <1>4, RegMonitor, RegShutdown, RegEndLock, RegEndWait, RegEventLock DEF Ends
<1>5. CASE Messages \/ Shutdown
  BY <1>0, <1>5, RegMonitor, RegShutdown DEF Messages
<1>6. CASE UNCHANGED vars
  <2>1. UNCHANGED <<Unlisted, lists, call, task, irregular>>
    BY <1>6 DEF vars, threads, tasks, Unlisted, lists
  <2>2. CallsGoOn /\ TasksGoOn
    BY <2>1 DEF CallsGoOn, TasksGoOn, Held
  <2> QED BY <1>0, <2>1, <2>2, RegGoOn
<1> QED BY <1>1, <1>2, <1>3, <1>4, <1>5, <1>6 DEF Next

LEMMA Registered == Spec => []RegInv
BY RegInit, RegStep, PTL DEF Spec

(* Unless a run is irregular, ActiveSemaphore is posted only while a start   *)
(* or a close holds the lock, and its wait takes the post: the next one     *)
(* waits for its own objects.                                               *)
THEOREM NoPostIsLeft == Spec => []NoStalePost
<1>1. RegInv => NoStalePost
  <2> SUFFICES ASSUME RegInv, zlock = Idle, ~irregular PROVE ~(sem > 0)
    BY DEF NoStalePost
  <2>1. M # "starting" /\ ~EndingNow
    BY DEF RegInv, Locks, EndingNow, Idle
  <2> QED BY <2>1 DEF RegInv, Regular, Settled
<1> QED BY <1>1, Registered, PTL

(* Unless a run is irregular, a station is listed as long as its task is     *)
(* between OnObjectActive and OnObjectClose, whatever joins, closes and     *)
(* events come meanwhile.                                                   *)
THEOREM RunningIsListed == Spec => []Listed
<1>1. RegInv => Listed
  <2> SUFFICES ASSUME RegInv, ~irregular, NEW s \in Station
               PROVE active[s] >= Cardinality(Held(s))
    BY DEF Listed
  <2>0. s \in Object /\ active[s] \in Nat
    BY DEF RegInv, TypeOK, ListsOK, Object
  <2>1. CASE Held(s) = {}
    <3>1. Cardinality(Held(s)) = 0
      BY <2>1, FS_EmptySet
    <3> QED BY <2>0, <3>1
  <2>2. CASE Held(s) # {}
    <3>1. PICK t \in Held(s) : TRUE
      BY <2>2
    <3>2. Held(s) = {t} /\ active[s] = 1
      BY <3>1 DEF RegInv, Regular, Once
    <3>3. Cardinality(Held(s)) = 1
      BY <3>2, FS_Singleton
    <3> QED BY <3>2, <3>3
  <2> QED BY <2>1, <2>2
<1> QED BY <1>1, Registered, PTL

(* Only the two ways out of OnZeroEnd report Closed.                         *)
LEMMA ClosedByEnd ==
  ASSUME [Next]_vars, app' = "closed", app # "closed"
  PROVE  \E h \in Thread : EndWait(h) \/ EndLock(h)
<1> USE DEF threads
<1>1. CASE Calls
  <2>1. CASE PoolClose
    BY <2>1 DEF PoolClose
  <2>2. ASSUME NEW s \in Station, NEW k \in Task,
               \/ CallStart(s, k) \/ CallStarted(s, k) \/ CallClose(s, k)
               \/ CallCancel(s, k) \/ CallClosed(s, k) \/ CallEvent(s, k)
        PROVE  app' = app
    BY <2>2 DEF CallStart, CallStarted, CallClose, CallCancel, CallClosed, CallEvent
  <2> QED BY <1>1, <2>1, <2>2 DEF Calls
<1>2. CASE Runs \/ Throws
  <2>1. ASSUME NEW s \in Station, NEW t \in Task, Run(s, t) \/ RunThrow(s, t)
        PROVE  app' = app
    <3>1. CASE RunActive(s, t) \/ RunToken(s, t) \/ RunEnter(s, t) \/ RunBegin(s, t)
      BY <3>1 DEF RunActive, RunToken, RunEnter, RunBegin
    <3>2. CASE RunEnd(s, t) \/ RunThrow(s, t) \/ RunExit(s, t) \/ RunStop(s, t)
      BY <3>2 DEF RunEnd, RunThrow, RunExit, RunStop
    <3>3. CASE RunClosed(s, t) \/ RunLast(s, t) \/ Restart(s, t) \/ Restarted(s, t)
      BY <3>3 DEF RunClosed, RunLast, Restart, Restarted
    <3> QED BY <2>1, <3>1, <3>2, <3>3 DEF Run
  <2> QED BY <1>2, <2>1 DEF Runs, Throws
<1>3. CASE Joins
  BY <1>3 DEF Joins, Ping, Join, Lost, ResetObjectActive, StartLock, StartNext, StartWait, Ready
<1>4. CASE Ends
  BY <1>4 DEF Ends, EventLock, EventEnd, ClosingEnd, MonitorEnd, Destroy, OnZeroDestory, Disposed
<1>5. CASE Messages \/ Shutdown
  BY <1>5 DEF Messages, CenterStart, CenterClosing, CenterStop, StationEvent, Shutdown
<1>6. CASE UNCHANGED vars
  BY <1>6 DEF vars
<1> QED BY <1>1, <1>2, <1>3, <1>4, <1>5, <1>6 DEF Next

(* OnZeroEnd, run by the monitor or by Ctrl-C, reports Closed only with an   *)
(* empty list: its wait ends with the post of its own last object.          *)
THEOREM CloseEndsAll == Spec => EndsAll
<1>1. RegInv /\ [Next]_vars => [app' = "closed" /\ app # "closed" => Total(active) = 0 \/ irregular]_vars
  <2> SUFFICES ASSUME RegInv, [Next]_vars, app' = "closed", app # "closed"
               PROVE Total(active) = 0 \/ irregular
    OBVIOUS
  <2>1. PICK h \in Thread : EndWait(h) \/ EndLock(h)
    BY ClosedByEnd
  <2>2. CASE EndLock(h)
    BY <2>2 DEF EndLock
  <2>3. CASE EndWait(h)
    <3>1. TypeOK'
      BY TypedStep DEF RegInv
    <3>2. irregular \/ Empty
      BY <2>3, <3>1, RegEndWait
    <3> QED BY <3>2, TotalZero DEF Empty, RegInv, TypeOK, ListsOK
  <2> QED BY <2>1, <2>2, <2>3
<1> QED BY <1>1, Registered, PTL DEF Spec, EndsAll
=============================================================================
