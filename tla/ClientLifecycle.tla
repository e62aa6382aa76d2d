-------------------------- MODULE ClientLifecycle --------------------------
(***************************************************************************)
(* How a client application starts and closes its stations                 *)
(* (Application/IZeroObject.cs, ZeroStation/ZeroStation.cs).  The monitor   *)
(* thread joins the center and follows its events; Ctrl-C closes the        *)
(* application from a thread of its own; each station runs in tasks, which  *)
(* start the station again when RunInner throws.  They meet at              *)
(*   ActiveSemaphore  posted when all objects are active, or none is        *)
(*   _waitToken       of a station, 0 or 1: a start waits for it and so     *)
(*                    does a close                                          *)
(*   zlock            the lock of ZeroObjects, held through a whole start,  *)
(*                    close or event                                        *)
(*   slock            the lock of a station, which a task holds while it    *)
(*                    runs                                                  *)
(* A call of Start, Close or OnStationStateChanged is a slot of call; the   *)
(* other objects are the connection pool, whose start and end only register *)
(* (Connection/SocketPool.cs, ProxyPool.cs).                                *)
(***************************************************************************)
EXTENDS Integers, FiniteSets

CONSTANTS
  Station, Pool,
  Known,        \* the stations the center has a config for at the first join
  Told,         \* bound: the stations the center sends messages about
  MaxTask,      \* bound: tasks of a station at the same time
  MaxFault      \* bound: exceptions of RunInner, messages of the center and Ctrl-C

ASSUME ClientAssumption ==
  /\ IsFiniteSet(Station) /\ Pool \notin Station
  /\ MaxTask \in Nat \ {0} /\ MaxFault \in Nat

Object == Station \cup {Pool}
Task   == 1..MaxTask
Thread == {"monitor", "shutdown"}

VARIABLES
  app,          \* ApplicationState
  center,       \* ZerCenterStatus
  pc,           \* where the two threads are
  todo,         \* the objects OnZeroStart has not started
  zlock,
  registered,   \* ZeroObjects has not been cleared
  active, failed,   \* ActiveObjects and FailedObjects, lists: how often an
                    \* object is in them
  sem,          \* ActiveSemaphore
  state,        \* a station's State
  config,       \* the state in its Config, "none" if it has none
  cancel,       \* RunTaskCancel
  token,        \* _waitToken
  slock,        \* the task that holds the station's lock, or 0
  task,         \* where each task is
  success,      \* what RunInner returned to it
  call,         \* where each call is
  irregular,    \* history: a station has started outside OnZeroStart, or ended
                \* while it goes on
  faults        \* how many of MaxFault there were

threads == <<app, center, pc, todo, zlock, registered>>
lists   == <<active, failed, sem>>
own     == <<state, cancel, token, slock>>
tasks   == <<task, success>>
vars    == <<threads, lists, own, config, tasks, call, irregular, faults>>

App     == {"start", "beginRun", "run", "closing", "closed", "failed", "destroy",
            "disposed"}
State   == {"initialized", "start", "run", "closing", "closed", "failed", "configError"}
Config  == {"run", "pause", "closed", "stop", "none"}
Idle    == "no"

CanDo == app \in {"beginRun", "run"} /\ center = "run"
Alive == app \notin {"destroy", "disposed"}
CanLoop(s) == cancel[s] = "live" /\ CanDo /\ state[s] = "run"

Free(s) == {t \in Task : task[s][t] = Idle}
NewTask(s) == CHOOSE t \in Free(s) : TRUE

Entries(list) == UNION {{o} \X (1..list[o]) : o \in Object}
Total(list) == Cardinality(Entries(list))
Count == IF registered THEN Cardinality(Object) ELSE 0

-----------------------------------------------------------------------------
(* The registers.                                                           *)

OnObjectActive(o) ==
  /\ active' = [active EXCEPT ![o] = @ + 1]
  /\ sem' = IF Total(active) + 1 + Total(failed) = Count THEN sem + 1 ELSE sem
  /\ UNCHANGED failed

(* A failed object that is the last one does not post.                      *)
MutantFailed(o) ==
  /\ failed' = [failed EXCEPT ![o] = @ + 1]
  /\ UNCHANGED <<active, sem>>

OnObjectFailed(o) ==
  /\ failed' = [failed EXCEPT ![o] = @ + 1]
  /\ sem' = IF Total(active) + 1 + Total(failed) = Count THEN sem + 1 ELSE sem
  /\ UNCHANGED active

(* Posted one object too early.                                             *)
MutantClose(o) ==
  /\ active' = [active EXCEPT ![o] = IF @ > 0 THEN @ - 1 ELSE 0]
  /\ sem' = IF Total(active') <= 1 THEN sem + 1 ELSE sem
  /\ UNCHANGED failed

OnObjectClose(o) ==
  /\ active' = [active EXCEPT ![o] = IF @ > 0 THEN @ - 1 ELSE 0]
  /\ sem' = IF Total(active') = 0 THEN sem + 1 ELSE sem
  /\ UNCHANGED failed

-----------------------------------------------------------------------------
Init ==
  /\ app = "start" /\ center = "failed"
  /\ pc = [h \in Thread |-> IF h = "monitor" THEN "ping" ELSE "idle"]
  /\ todo = {} /\ zlock = Idle /\ registered = TRUE
  /\ active = [o \in Object |-> 0] /\ failed = [o \in Object |-> 0] /\ sem = 0
  /\ state = [s \in Station |-> "initialized"]
  /\ config = [s \in Station |-> IF s \in Known THEN "run" ELSE "none"]
  /\ cancel = [s \in Station |-> "none"] /\ token = [s \in Station |-> 0]
  /\ slock = [s \in Station |-> 0]
  /\ task = [s \in Station |-> [t \in Task |-> Idle]]
  /\ success = [s \in Station |-> [t \in Task |-> FALSE]]
  /\ call = [o \in Object |-> [t \in Task |-> Idle]]
  /\ irregular = FALSE /\ faults = 0

-----------------------------------------------------------------------------
(* Start, up to the wait for its token: a station that is stopped, or that  *)
(* has no config and cannot be installed, is counted as failed; otherwise a *)
(* task is made for it.  The lock of the station is free for both.          *)

Refuse(s) ==
  /\ slock[s] = 0 /\ config[s] \in {"none", "stop"}
  /\ OnObjectFailed(s)
  /\ state' = [state EXCEPT ![s] = "configError"]
  /\ UNCHANGED <<config, cancel, token, slock>>

Launch(s) ==
  /\ slock[s] = 0 /\ config[s] # "stop"
  /\ config' = [config EXCEPT ![s] = IF @ = "none" THEN "run" ELSE @]
  /\ state' = [state EXCEPT ![s] = "start"]
  /\ cancel' = [cancel EXCEPT ![s] = "live"]
  /\ UNCHANGED <<lists, token, slock>>

(* Start in a call of OnZeroStart or OnStationStateChanged.                 *)
CallStart(s, k) ==
  /\ call[s][k] = "start"
  /\ \/ /\ Refuse(s)
        /\ call' = [call EXCEPT ![s][k] = Idle]
        /\ UNCHANGED task
     \/ /\ Launch(s)
        /\ call' = [call EXCEPT ![s][k] = "started"]
        /\ Free(s) # {} /\ task' = [task EXCEPT ![s][NewTask(s)] = "new"]
  /\ UNCHANGED <<threads, success, irregular, faults>>

TakeToken(s) ==
  /\ token[s] > 0 /\ token' = [token EXCEPT ![s] = @ - 1]
  /\ UNCHANGED <<state, cancel, slock>>

CallStarted(s, k) ==
  /\ call[s][k] = "started" /\ TakeToken(s)
  /\ call' = [call EXCEPT ![s][k] = Idle]
  /\ UNCHANGED <<threads, lists, config, tasks, irregular, faults>>

(* Close: HeartLeft, a call to the center, is between its test of State and *)
(* the cancelling.  Cancel throws if the source has been disposed.          *)
CallClose(s, k) ==
  /\ call[s][k] = "close"
  /\ IF state[s] = "run"
     THEN /\ state' = [state EXCEPT ![s] = "closing"]
          /\ call' = [call EXCEPT ![s][k] = "cancel"]
     ELSE /\ state' = [state EXCEPT ![s] = "closed"]
          /\ call' = [call EXCEPT ![s][k] = Idle]
  /\ UNCHANGED <<threads, lists, cancel, token, slock, config, tasks, irregular, faults>>

(* The close takes the station off the list, and not its task.              *)
MutantCancel(s, k) ==
  /\ call[s][k] = "cancel" /\ OnObjectClose(s)
  /\ cancel' = [cancel EXCEPT ![s] = IF @ = "live" THEN "cancelled" ELSE @]
  /\ call' = [call EXCEPT ![s][k] = IF cancel[s] = "disposed" THEN Idle ELSE "closed"]
  /\ UNCHANGED <<threads, state, token, slock, config, tasks, irregular, faults>>

CallCancel(s, k) ==
  /\ call[s][k] = "cancel"
  /\ cancel' = [cancel EXCEPT ![s] = IF @ = "live" THEN "cancelled" ELSE @]
  /\ call' = [call EXCEPT ![s][k] = IF cancel[s] = "disposed" THEN Idle ELSE "closed"]
  /\ UNCHANGED <<threads, lists, state, token, slock, config, tasks, irregular, faults>>

CallClosed(s, k) ==
  /\ call[s][k] = "closed" /\ TakeToken(s)
  /\ call' = [call EXCEPT ![s][k] = Idle]
  /\ UNCHANGED <<threads, lists, config, tasks, irregular, faults>>

PoolClose ==
  /\ call[Pool][1] = "close" /\ OnObjectClose(Pool)
  /\ call' = [call EXCEPT ![Pool][1] = Idle]
  /\ UNCHANGED <<threads, own, config, tasks, irregular, faults>>

(* OnStationStateChanged of a station.                                      *)
CallEvent(s, k) ==
  /\ call[s][k] = "event"
  /\ LET next == IF state[s] = "run" /\ config[s] \in {"run", "pause"} THEN Idle
                 ELSE IF config[s] = "run" /\ CanDo THEN "start"
                 ELSE "close"
     IN /\ call' = [call EXCEPT ![s][k] = next]
        /\ irregular' = (irregular \/ next = "start")
  /\ UNCHANGED <<threads, lists, own, config, tasks, faults>>

NoCall == \A o \in Object, k \in Task : call[o][k] = Idle

-----------------------------------------------------------------------------
(* Run, the task of a station.                                              *)

At(s, t, here) == task[s][t] = here
Go(s, t, there) == task' = [task EXCEPT ![s][t] = there]

(* OnRun, before the task has the lock of the station.  Release of a token  *)
(* that is there throws, and the task is over.                              *)
RunActive(s, t) ==
  /\ At(s, t, "new") /\ Go(s, t, "token") /\ OnObjectActive(s)
  /\ UNCHANGED <<threads, own, config, success, call, irregular, faults>>

(* _waitToken without a maximum.                                            *)
MutantToken(s, t) ==
  /\ At(s, t, "token") /\ Go(s, t, "enter")
  /\ token' = [token EXCEPT ![s] = @ + 1]
  /\ UNCHANGED <<threads, lists, state, cancel, slock, config, success, call, irregular,
                 faults>>

RunToken(s, t) ==
  /\ At(s, t, "token") /\ Go(s, t, IF token[s] = 0 THEN "enter" ELSE Idle)
  /\ token' = [token EXCEPT ![s] = 1]
  /\ UNCHANGED <<threads, lists, state, cancel, slock, config, success, call, irregular,
                 faults>>

(* A run without the lock of its station.                                   *)
MutantEnter(s, t) ==
  /\ At(s, t, "enter") /\ Go(s, t, "begin")
  /\ slock' = [slock EXCEPT ![s] = t]
  /\ UNCHANGED <<threads, lists, state, cancel, token, config, success, call, irregular,
                 faults>>

RunEnter(s, t) ==
  /\ At(s, t, "enter") /\ slock[s] = 0 /\ Go(s, t, "begin")
  /\ slock' = [slock EXCEPT ![s] = t]
  /\ UNCHANGED <<threads, lists, state, cancel, token, config, success, call, irregular,
                 faults>>

RunInnerReturns(s, t, result) ==
  /\ Go(s, t, "exit")
  /\ success' = [success EXCEPT ![s][t] = result]

(* RunInner sets Run; RunTaskCancel.Token throws if there is none, or if it *)
(* has been disposed.                                                       *)
RunBegin(s, t) ==
  /\ At(s, t, "begin")
  /\ IF cancel[s] \in {"none", "disposed"}
     THEN RunInnerReturns(s, t, FALSE) /\ UNCHANGED state
     ELSE /\ Go(s, t, "loop") /\ state' = [state EXCEPT ![s] = "run"]
          /\ UNCHANGED success
  /\ UNCHANGED <<threads, lists, cancel, token, slock, config, call, irregular, faults>>

RunThrow(s, t) ==
  /\ task[s][t] \in {"begin", "loop"} /\ faults < MaxFault
  /\ RunInnerReturns(s, t, FALSE)
  /\ faults' = faults + 1
  /\ UNCHANGED <<threads, lists, own, config, call, irregular>>

RunEnd(s, t) ==
  /\ At(s, t, "loop") /\ ~CanLoop(s)
  /\ RunInnerReturns(s, t, cancel[s] # "disposed")
  /\ UNCHANGED <<threads, lists, own, config, call, irregular, faults>>

(* The scope leaves the lock, then OnStop: Dispose of no source throws, and *)
(* the task is over.                                                        *)
RunExit(s, t) ==
  /\ At(s, t, "exit") /\ Go(s, t, "stop")
  /\ slock' = [slock EXCEPT ![s] = 0]
  /\ UNCHANGED <<threads, lists, state, cancel, token, config, success, call, irregular,
                 faults>>

RunStop(s, t) ==
  /\ At(s, t, "stop")
  /\ state' = [state EXCEPT ![s] = "closing"]
  /\ IF cancel[s] = "none"
     THEN Go(s, t, Idle) /\ UNCHANGED cancel
     ELSE Go(s, t, "stopped") /\ cancel' = [cancel EXCEPT ![s] = "disposed"]
  /\ UNCHANGED <<threads, lists, token, slock, config, success, call, irregular, faults>>

RunClosed(s, t) ==
  /\ At(s, t, "stopped") /\ Go(s, t, "end")
  /\ cancel' = [cancel EXCEPT ![s] = "none"]
  /\ state' = [state EXCEPT ![s] = "closed"]
  /\ OnObjectClose(s)
  /\ irregular' = (irregular \/ pc["monitor"] = "starting")
  /\ UNCHANGED <<threads, token, slock, config, success, call, faults>>

(* The end of a run releases no token.                                      *)
MutantLast(s, t) ==
  /\ At(s, t, "end") /\ success' = [success EXCEPT ![s][t] = FALSE]
  /\ Go(s, t, IF CanDo /\ ~success[s][t] THEN "start" ELSE Idle)
  /\ UNCHANGED <<threads, lists, state, cancel, token, slock, config, call, irregular,
                 faults>>

RunLast(s, t) ==
  /\ At(s, t, "end") /\ success' = [success EXCEPT ![s][t] = FALSE]
  /\ IF CanDo /\ ~success[s][t]
     THEN Go(s, t, "start") /\ UNCHANGED token
     ELSE Go(s, t, Idle) /\ token' = [token EXCEPT ![s] = 1]
  /\ UNCHANGED <<threads, lists, state, cancel, slock, config, call, irregular, faults>>

(* The task of a restart is that of the run it follows.                     *)
Restart(s, t) ==
  /\ At(s, t, "start")
  /\ \/ Refuse(s) /\ Go(s, t, Idle)
     \/ /\ Launch(s)
        /\ Free(s) # {}
        /\ task' = [task EXCEPT ![s][t] = "wait", ![s][NewTask(s)] = "new"]
  /\ irregular' = TRUE
  /\ UNCHANGED <<threads, success, call, faults>>

Restarted(s, t) ==
  /\ At(s, t, "wait") /\ TakeToken(s) /\ Go(s, t, Idle)
  /\ UNCHANGED <<threads, lists, config, success, call, irregular, faults>>

-----------------------------------------------------------------------------
(* JoinCenter and OnZeroStart, by the monitor thread: the first join is the *)
(* main thread's, and the monitor waits for its end.                        *)

Move(h, here, there) == pc[h] = here /\ pc' = [pc EXCEPT ![h] = there]

Lost == app' = "failed" /\ center' = "failed"

Ping ==
  /\ \/ Move("monitor", "ping", "join") /\ app' = "beginRun" /\ center' = "run"
     \/ Move("monitor", "ping", "idle") /\ Lost
  /\ UNCHANGED <<todo, zlock, registered, lists, own, config, tasks, call, irregular,
                 faults>>

Join ==
  /\ \/ /\ Move("monitor", "join", "reset") /\ UNCHANGED <<app, center>>
        /\ config' = [s \in Station |-> IF config[s] \in {"closed", "pause"} THEN "run"
                                        ELSE config[s]]
     \/ Move("monitor", "join", "idle") /\ Lost /\ UNCHANGED config
  /\ UNCHANGED <<todo, zlock, registered, lists, own, tasks, call, irregular, faults>>

(* ResetObjectActive is run before the lock is taken.                       *)
ResetObjectActive ==
  /\ Move("monitor", "reset", "startLock")
  /\ active' = [o \in Object |-> 0] /\ failed' = [o \in Object |-> 0]
  /\ UNCHANGED <<app, center, todo, zlock, registered, sem, own, config, tasks, call,
                 irregular, faults>>

StartLock ==
  /\ Move("monitor", "startLock", "starting") /\ zlock = Idle
  /\ zlock' = "monitor" /\ todo' = IF registered THEN Object ELSE {}
  /\ UNCHANGED <<app, center, registered, lists, own, config, tasks, call, irregular,
                 faults>>

StartNext(o) ==
  /\ pc["monitor"] = "starting" /\ NoCall /\ o \in todo
  /\ todo' = todo \ {o}
  /\ IF o = Pool
     THEN OnObjectActive(o) /\ UNCHANGED call
     ELSE call' = [call EXCEPT ![o][1] = "start"] /\ UNCHANGED lists
  /\ UNCHANGED <<app, center, pc, zlock, registered, own, config, tasks, irregular, faults>>

WaitAllObjectSemaphore == sem > 0 /\ sem' = sem - 1 /\ UNCHANGED <<active, failed>>

StartWait ==
  /\ Move("monitor", "starting", "ready") /\ todo = {} /\ NoCall
  /\ WaitAllObjectSemaphore /\ zlock' = Idle
  /\ UNCHANGED <<app, center, todo, registered, own, config, tasks, call, irregular, faults>>

Ready ==
  /\ Move("monitor", "ready", "idle") /\ app' = "run"
  /\ UNCHANGED <<center, todo, zlock, registered, lists, own, config, tasks, call,
                 irregular, faults>>

-----------------------------------------------------------------------------
(* OnZeroEnd, by either thread.                                             *)

Slots(o) == {k \in Task : k <= active[o]}

EndLock(h) ==
  /\ zlock = Idle
  /\ IF Total(active) = 0
     THEN /\ Move(h, "endLock", "ended") /\ app' = "closed"
          /\ UNCHANGED <<zlock, call>>
     ELSE /\ Move(h, "endLock", "ending") /\ app' = "closing" /\ zlock' = h
          /\ call' = [o \in Object |-> [k \in Task |-> IF k \in Slots(o) THEN "close"
                                                       ELSE Idle]]
  /\ UNCHANGED <<center, todo, registered, lists, own, config, tasks, irregular, faults>>

(* The close does not wait for the objects.                                 *)
MutantWait(h) ==
  /\ Move(h, "ending", "ended") /\ NoCall
  /\ app' = "closed" /\ zlock' = Idle
  /\ UNCHANGED <<center, todo, registered, lists, own, config, tasks, call, irregular,
                 faults>>

EndWait(h) ==
  /\ Move(h, "ending", "ended") /\ NoCall
  /\ WaitAllObjectSemaphore /\ app' = "closed" /\ zlock' = Idle
  /\ UNCHANGED <<center, todo, registered, own, config, tasks, call, irregular, faults>>

-----------------------------------------------------------------------------
(* The messages of the center.                                              *)

Receive(there) ==
  /\ Move("monitor", "idle", there) /\ Alive
  /\ faults < MaxFault /\ faults' = faults + 1
  /\ UNCHANGED <<zlock, registered, lists, own, tasks, irregular>>

CenterStart ==
  /\ Receive("ping") /\ app = "failed" /\ app' = "start"
  /\ UNCHANGED <<center, todo, config, call>>

CenterClosing ==
  /\ Receive("endLock") /\ app = "run" /\ app' = "closing" /\ center' = "closed"
  /\ UNCHANGED <<todo, config, call>>

CenterStop ==
  /\ Receive("idle") /\ center # "destroy" /\ center' = "destroy"
  /\ UNCHANGED <<app, todo, config, call>>

StationEvent(s, c) ==
  /\ s \in Told /\ Receive("eventLock") /\ app = "run" /\ (config[s] = "none" => c # "none")
  /\ config' = [config EXCEPT ![s] = c]
  /\ todo' = {s}
  /\ UNCHANGED <<app, center, call>>

(* A station that is not active is not told.                                *)
EventLock ==
  /\ Move("monitor", "eventLock", "event") /\ zlock = Idle /\ zlock' = "monitor"
  /\ call' = [o \in Object |-> [k \in Task |-> IF o \in todo /\ k \in Slots(o)
                                              THEN "event" ELSE Idle]]
  /\ todo' = {}
  /\ UNCHANGED <<app, center, registered, lists, own, config, tasks, irregular,
                 faults>>

EventEnd ==
  /\ Move("monitor", "event", "idle") /\ NoCall /\ zlock' = Idle
  /\ UNCHANGED <<app, center, todo, registered, lists, own, config, tasks, call, irregular,
                 faults>>

ClosingEnd ==
  /\ Move("monitor", "ended", "idle") /\ app' = "failed"
  /\ UNCHANGED <<center, todo, zlock, registered, lists, own, config, tasks, call,
                 irregular, faults>>

MonitorEnd ==
  /\ Move("monitor", "idle", "gone") /\ ~Alive
  /\ UNCHANGED <<app, center, todo, zlock, registered, lists, own, config, tasks, call,
                 irregular, faults>>

-----------------------------------------------------------------------------
(* Shutdown.                                                                *)

Shutdown ==
  /\ faults < MaxFault /\ faults' = faults + 1
  /\ Move("shutdown", "idle", IF app \in {"beginRun", "run"} THEN "endLock" ELSE "ended")
  /\ UNCHANGED <<app, center, todo, zlock, registered, lists, own, config, tasks, call,
                 irregular>>

Destroy ==
  /\ Move("shutdown", "ended", "destroy") /\ app' = "destroy"
  /\ UNCHANGED <<center, todo, zlock, registered, lists, own, config, tasks, call,
                 irregular, faults>>

(* The lock is entered twice and left once.                                 *)
OnZeroDestory ==
  /\ Move("shutdown", "destroy", "waitMe")
  /\ IF zlock = Idle THEN zlock' = "shutdown" /\ registered' = FALSE
                     ELSE UNCHANGED <<zlock, registered>>
  /\ UNCHANGED <<app, center, todo, lists, own, config, tasks, call, irregular, faults>>

Disposed ==
  /\ Move("shutdown", "waitMe", "gone") /\ pc["monitor"] = "gone" /\ app' = "disposed"
  /\ UNCHANGED <<center, todo, zlock, registered, lists, own, config, tasks, call,
                 irregular, faults>>

-----------------------------------------------------------------------------
Calls == \/ PoolClose
         \/ \E s \in Station, k \in Task :
              \/ CallStart(s, k) \/ CallStarted(s, k) \/ CallClose(s, k)
              \/ CallCancel(s, k) \/ CallClosed(s, k) \/ CallEvent(s, k)

Run(s, t) ==
  \/ RunActive(s, t) \/ RunToken(s, t) \/ RunEnter(s, t) \/ RunBegin(s, t)
  \/ RunEnd(s, t) \/ RunExit(s, t) \/ RunStop(s, t) \/ RunClosed(s, t)
  \/ RunLast(s, t) \/ Restart(s, t) \/ Restarted(s, t)

Runs == \E s \in Station, t \in Task : Run(s, t)

Throws == \E s \in Station, t \in Task : RunThrow(s, t)

Joins == \/ Ping \/ Join \/ ResetObjectActive \/ StartLock \/ StartWait \/ Ready
         \/ \E o \in Object : StartNext(o)

Ends == \/ \E h \in Thread : EndLock(h) \/ EndWait(h)
        \/ EventLock \/ EventEnd \/ ClosingEnd \/ MonitorEnd
        \/ Destroy \/ OnZeroDestory \/ Disposed

Messages == \/ CenterStart \/ CenterClosing \/ CenterStop
            \/ \E s \in Station, c \in Config : StationEvent(s, c)

Next == Calls \/ Runs \/ Throws \/ Joins \/ Ends \/ Messages \/ Shutdown

Spec == Init /\ [][Next]_vars

-----------------------------------------------------------------------------
(* The values of the places of a thread, a task and a call.                  *)
ThreadAt == {"ping", "join", "reset", "startLock", "starting", "ready", "idle", "endLock",
             "ending", "ended", "eventLock", "event", "destroy", "waitMe", "gone"}
TaskAt   == {Idle, "new", "token", "enter", "begin", "loop", "exit", "stop", "stopped", "end",
             "start", "wait"}
CallAt   == {Idle, "start", "started", "close", "cancel", "closed", "event"}

ThreadsOK ==
  /\ app \in App /\ center \in {"run", "closed", "failed", "destroy"}
  /\ pc \in [Thread -> ThreadAt] /\ todo \in SUBSET Object
  /\ zlock \in Thread \cup {Idle} /\ registered \in BOOLEAN
  /\ irregular \in BOOLEAN /\ faults \in 0..MaxFault

ListsOK == active \in [Object -> Nat] /\ failed \in [Object -> Nat] /\ sem \in Nat

StationsOK ==
  /\ state \in [Station -> State] /\ config \in [Station -> Config]
  /\ cancel \in [Station -> {"none", "live", "cancelled", "disposed"}]
  /\ token \in [Station -> {0, 1}] /\ slock \in [Station -> {0} \cup Task]

TasksOK ==
  /\ task \in [Station -> [Task -> TaskAt]]
  /\ success \in [Station -> [Task -> BOOLEAN]]
  /\ call \in [Object -> [Task -> CallAt]]

TypeOK == ThreadsOK /\ ListsOK /\ StationsOK /\ TasksOK

(* OneLoop: at most one task of a station is in RunInner, whatever starts,   *)
(* restarts and events there were: the lock of the station is held through  *)
(* the whole run, and a restart comes only after its end.                   *)
Inside(s, t) == task[s][t] \in {"begin", "loop", "exit"}

OneLoop == \A s \in Station : \A t, u \in Task : Inside(s, t) /\ Inside(s, u) => t = u

(* NoStalePost: unless a run is irregular, a post of                        *)
(* ActiveSemaphore is there only for the start or the close that is going   *)
(* on (IZeroObject.cs:300, 377): none is left for the next one, which it    *)
(* would end before its time.                                               *)
NoStalePost == sem > 0 => zlock # Idle \/ irregular

(* Listed: unless a run is irregular, every task between its                *)
(* OnObjectActive and its OnObjectClose is in ActiveObjects, so that events *)
(* and closes reach it: ResetObjectActive, which runs outside the lock,     *)
(* never clears the list under a station that runs.                         *)
Held(s) == {t \in Task : task[s][t] \in {"token", "enter", "begin", "loop", "exit", "stop",
                                         "stopped"}}

Listed == \A s \in Station : active[s] >= Cardinality(Held(s)) \/ irregular

(* EndsAll: OnZeroEnd reports Closed only when no object is active, whichever *)
(* of the two threads runs it, unless the run is irregular.                 *)
EndsAll == [][app' = "closed" /\ app # "closed" => Total(active) = 0 \/ irregular]_vars

(* StartsAll: when OnZeroStart has waited for all objects, and nothing closes, *)
(* every station has failed or has a task.  Not so in the code: one that    *)
(* stopped by itself when the center closed has left a token, the next      *)
(* OnRun releases it once more, which throws, and the task is over although *)
(* the station is listed as active.                                         *)
StartsAll == pc["monitor"] = "ready" /\ pc["shutdown"] = "idle" /\ CanDo =>
               \A s \in Station : failed[s] > 0 \/ \E t \in Task : task[s][t] # Idle

(* The process goes on while one of its threads can: the calls, the monitor, *)
(* Shutdown, the tasks.  None of them goes on for ever without the others,  *)
(* so this is as good as fairness to each.  Exceptions, messages and Ctrl-C *)
(* need not come.                                                           *)
FairSpec == Spec /\ WF_vars(Calls \/ Runs \/ Joins \/ Ends)

(* StartEnds: OnZeroStart comes to an end: all objects are counted as active *)
(* or failed and the last one posts.  In an irregular run a station that    *)
(* has started by itself may have taken the token of the start, or one that *)
(* has ended is counted no more, and the start waits for ever.              *)
StartEnds == pc["monitor"] = "starting" ~> pc["monitor"] # "starting" \/ irregular

(* CloseEnds: a close comes to an end: every task leaves its loop, gives     *)
(* back its token, and the last one posts.  It may hang in an irregular run, *)
(* when a station is listed that has no task (StartsAll), and               *)
(* when Ctrl-C came in a start, whose end sets ApplicationState to Run      *)
(* again (IZeroObject.cs:296) while the close waits.                        *)
Ending == \E h \in Thread : pc[h] = "ending"

CloseEnds ==
  Ending /\ ~irregular /\ (\A s \in Station : active[s] <= Cardinality(Held(s)))
    ~> ~Ending \/ app = "run" \/ irregular
=============================================================================
