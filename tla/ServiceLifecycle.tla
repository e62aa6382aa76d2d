------------------------- MODULE ServiceLifecycle -------------------------
(***************************************************************************)
(* How ZeroCenter starts and stops (main/service.cpp) against the threads   *)
(* of its stations (launch in rpc/station_dispatcher.cpp,                   *)
(* rpc/plan_dispatcher.cpp, rpc/api_station.cpp and                         *)
(* rpc/broadcasting_station.cpp).  The main thread launches the station     *)
(* threads and waits on task_semaphore; the threads report that they run,   *)
(* that they failed or that they have ended, and each report may post the   *)
(* semaphore, by the counts zero_thread_run, zero_thread_bad and            *)
(* zero_thread_count.  A station thread whose poll ends while the center is *)
(* running launches its successor before it reports its end.                *)
(*                                                                          *)
(* A report holds task_mutex, so it is one action.                          *)
(***************************************************************************)
EXTENDS Integers, FiniteSets

CONSTANTS
  Business,        \* the api, publish, route and vote stations installed
  Slot,            \* a station's threads that exist side by side
  Base,            \* those among them that cannot be stopped (is_base)
  Vote,            \* vote stations, which can be installed but are never run
  MaxMishaps       \* bound: failed initializations, polls that end while the
                   \* center runs, commands

Sys  == "SystemManage"
Plan == "PlanDispatcher"
Station == Business \cup {Sys, Plan}
Thread  == Station \X Slot

ASSUME ServiceAssumption ==
  /\ IsFiniteSet(Business) /\ {Sys, Plan} \cap Business = {}
  /\ Slot \in SUBSET Nat /\ IsFiniteSet(Slot) /\ 1 \in Slot
  /\ Base \subseteq Business /\ Vote \subseteq Business \ Base
  /\ MaxMishaps \in Nat

VARIABLES
  net_state,       \* none, runing, closing, closed, distory or failed
  main,            \* where the main thread is
  zero_thread_count, zero_thread_run, zero_thread_bad,
  task_semaphore,
  close_semaphore,
  phase,           \* where each thread is
  examples_,       \* the warehouse's running stations
  stop,            \* stations in state Stop
  mishaps,
  relaunched       \* history: threads launched after those of the start

counts   == <<zero_thread_count, zero_thread_run, zero_thread_bad>>
stations == <<phase, examples_, stop>>
vars == <<net_state, main, counts, task_semaphore, close_semaphore, stations,
          mishaps, relaunched>>

NetState == {"none", "runing", "closing", "closed", "distory", "failed"}
MainAt   == {"begin", "sys", "plan", "all", "up", "left", "sender", "exit"}
Phase    == {"none", "init", "joined", "poll", "left", "waiting", "ending"}

-----------------------------------------------------------------------------
Init ==
  /\ net_state = "none" /\ main = "begin"
  /\ zero_thread_count = 0 /\ zero_thread_run = 0 /\ zero_thread_bad = 0
  /\ task_semaphore = 0 /\ close_semaphore = 0
  /\ phase = [t \in Thread |-> "none"]
  /\ examples_ = {} /\ stop \in SUBSET (Business \ Base)
  /\ mishaps = 0 /\ relaunched = 0

CanGoWrong == mishaps < MaxMishaps

(* The slot a new thread of station s takes.                                *)
Free(s, i) == /\ phase[<<s, i>>] = "none"
              /\ \A j \in Slot : j < i => phase[<<s, j>>] # "none"

-----------------------------------------------------------------------------
(* The main thread: start_zero_center.                                      *)

StartCenter ==
  /\ main = "begin" /\ main' = "sys"
  /\ net_state' = "runing"
  /\ zero_thread_count' = Cardinality(Station \ stop)
  /\ zero_thread_run' = 0 /\ zero_thread_bad' = 0
  /\ phase' = [phase EXCEPT ![<<Sys, 1>>] = "init"]
  /\ UNCHANGED <<task_semaphore, close_semaphore, examples_, stop, mishaps,
                 relaunched>>

Wait == task_semaphore > 0 /\ task_semaphore' = task_semaphore - 1

(* After each of the first two waits a single failure ends the start.       *)
GiveUp ==
  /\ main \in {"sys", "plan"} /\ Wait
  /\ zero_thread_bad = 1
  /\ net_state' = "failed" /\ main' = "up"
  /\ UNCHANGED <<counts, close_semaphore, stations, mishaps, relaunched>>

StartPlan ==
  /\ main = "sys" /\ Wait
  /\ zero_thread_bad # 1
  /\ main' = "plan"
  /\ \E i \in Slot : Free(Plan, i) /\ phase' = [phase EXCEPT ![<<Plan, i>>] = "init"]
  /\ UNCHANGED <<net_state, counts, close_semaphore, examples_, stop, mishaps,
                 relaunched>>

Restore ==        \* restore(): every business station that is not stopped
  /\ main = "plan" /\ Wait
  /\ zero_thread_bad # 1
  /\ main' = "all"
  /\ phase' = [t \in Thread |->
       IF t[1] \in Business \ (Vote \cup stop) /\ Free(t[1], t[2]) THEN "init" ELSE phase[t]]
  /\ UNCHANGED <<net_state, counts, close_semaphore, examples_, stop, mishaps,
                 relaunched>>

Started ==
  /\ main = "all" /\ Wait /\ main' = "up"
  /\ UNCHANGED <<net_state, counts, close_semaphore, stations, mishaps, relaunched>>

(* The main thread: close_net_command, when a signal has come.              *)
Signal ==
  /\ main = "up"
  /\ IF net_state = "runing" THEN net_state' = "closing" /\ main' = "left"
     ELSE main' = "exit" /\ UNCHANGED net_state
  /\ UNCHANGED <<counts, task_semaphore, close_semaphore, stations, mishaps,
                 relaunched>>

StationsLeft ==
  /\ main = "left" /\ Wait /\ main' = "sender"
  /\ net_state' = "closed"
  /\ close_semaphore' = close_semaphore + 1
  /\ UNCHANGED <<counts, stations, mishaps, relaunched>>

Distory ==
  /\ main = "sender" /\ Wait /\ main' = "exit"
  /\ net_state' = "distory"
  /\ UNCHANGED <<counts, close_semaphore, stations, mishaps, relaunched>>

-----------------------------------------------------------------------------
(* The station threads.                                                     *)

Goto(t, p) == phase' = [phase EXCEPT ![t] = p]

(* check_semaphore_start with the counts the report left.                   *)
MutantPostAtStart(n) ==   \* one station short
  task_semaphore' = IF n <= 2 \/ n = zero_thread_count - 1
                    THEN task_semaphore + 1 ELSE task_semaphore

PostAtStart(n) ==
  task_semaphore' = IF n <= 2 \/ n = zero_thread_count
                    THEN task_semaphore + 1 ELSE task_semaphore

MutantBad(t) ==           \* reports its end as well
  /\ phase[t] = "init" /\ t[1] \in stop \cup examples_
  /\ zero_thread_bad' = zero_thread_bad + 1
  /\ PostAtStart(zero_thread_run + zero_thread_bad')
  /\ Goto(t, "ending")
  /\ UNCHANGED <<net_state, main, zero_thread_count, zero_thread_run,
                 close_semaphore, examples_, stop, mishaps, relaunched>>

(* set_command_thread_bad: initialize failed, or the station is in the      *)
(* warehouse already.  The thread is gone without a further report.         *)
Bad(t) ==
  /\ phase[t] = "init"
  /\ \/ t[1] \in stop \cup examples_ /\ UNCHANGED mishaps
     \/ CanGoWrong /\ mishaps' = mishaps + 1
  /\ zero_thread_bad' = zero_thread_bad + 1
  /\ PostAtStart(zero_thread_run + zero_thread_bad')
  /\ Goto(t, "none")
  /\ UNCHANGED <<net_state, main, zero_thread_count, zero_thread_run,
                 close_semaphore, examples_, stop, relaunched>>

MutantJoin(t) ==          \* does not look for the station in the warehouse
  /\ phase[t] = "init"
  /\ examples_' = examples_ \cup {t[1]}
  /\ Goto(t, "joined")
  /\ UNCHANGED <<net_state, main, counts, task_semaphore, close_semaphore, stop,
                 mishaps, relaunched>>

(* initialize looks for the state Stop before it binds the sockets: a       *)
(* station that is stopped after that still joins.                          *)
Join(t) ==
  /\ phase[t] = "init" /\ t[1] \notin examples_
  /\ examples_' = examples_ \cup {t[1]}
  /\ Goto(t, "joined")
  /\ UNCHANGED <<net_state, main, counts, task_semaphore, close_semaphore, stop,
                 mishaps, relaunched>>

(* set_command_thread_run, at the start of poll.                            *)
Run(t) ==
  /\ phase[t] = "joined"
  /\ zero_thread_run' = zero_thread_run + 1
  /\ PostAtStart(zero_thread_run' + zero_thread_bad)
  /\ Goto(t, "poll")
  /\ UNCHANGED <<net_state, main, zero_thread_count, zero_thread_bad,
                 close_semaphore, examples_, stop, mishaps, relaunched>>

(* poll returns: can_do is false, or an error of the sockets, or the        *)
(* command close; the thread leaves the warehouse.                          *)
Left(t) ==
  /\ phase[t] = "poll"
  /\ \/ (net_state # "runing" \/ t[1] \in stop) /\ UNCHANGED mishaps
     \/ CanGoWrong /\ mishaps' = mishaps + 1
  /\ examples_' = examples_ \ {t[1]}
  /\ Goto(t, "left")
  /\ UNCHANGED <<net_state, main, counts, task_semaphore, close_semaphore, stop,
                 relaunched>>

(* Then it runs the station anew, or it is done; the system dispatcher      *)
(* waits for close_semaphore first (its own task_semaphore_ was posted when *)
(* worker_monitor began, so that wait does not hold it up).                 *)
Again(t) ==
  /\ phase[t] = "left" /\ net_state = "runing" /\ t[1] \notin stop
  /\ \E i \in Slot :
       /\ Free(t[1], i)
       /\ phase' = [phase EXCEPT ![t] = "ending", ![<<t[1], i>>] = "init"]
  /\ relaunched' = relaunched + 1
  /\ UNCHANGED <<net_state, main, counts, task_semaphore, close_semaphore,
                 examples_, stop, mishaps>>

Done(t) ==
  /\ phase[t] = "left" /\ (net_state # "runing" \/ t[1] \in stop)
  /\ Goto(t, IF t[1] = Sys THEN "waiting" ELSE "ending")
  /\ UNCHANGED <<net_state, main, counts, task_semaphore, close_semaphore,
                 examples_, stop, mishaps, relaunched>>

WaitClose(t) ==
  /\ phase[t] = "waiting" /\ close_semaphore > 0
  /\ close_semaphore' = close_semaphore - 1
  /\ Goto(t, "ending")
  /\ UNCHANGED <<net_state, main, counts, task_semaphore, examples_, stop,
                 mishaps, relaunched>>

(* set_command_thread_end.                                                  *)
MutantEarlyEnd(t) ==      \* posts while two threads are left
  /\ phase[t] = "ending"
  /\ zero_thread_run' = zero_thread_run - 1
  /\ task_semaphore' = IF zero_thread_run' <= 2 THEN task_semaphore + 1
                       ELSE task_semaphore
  /\ Goto(t, "none")
  /\ UNCHANGED <<net_state, main, zero_thread_count, zero_thread_bad,
                 close_semaphore, examples_, stop, mishaps, relaunched>>

MutantEnd(t) ==           \* posts for the last thread only
  /\ phase[t] = "ending"
  /\ zero_thread_run' = zero_thread_run - 1
  /\ task_semaphore' = IF zero_thread_run' < 1 THEN task_semaphore + 1
                       ELSE task_semaphore
  /\ Goto(t, "none")
  /\ UNCHANGED <<net_state, main, zero_thread_count, zero_thread_bad,
                 close_semaphore, examples_, stop, mishaps, relaunched>>

End(t) ==
  /\ phase[t] = "ending"
  /\ zero_thread_run' = zero_thread_run - 1
  /\ task_semaphore' = IF zero_thread_run' <= 1 THEN task_semaphore + 1
                       ELSE task_semaphore
  /\ Goto(t, "none")
  /\ UNCHANGED <<net_state, main, zero_thread_count, zero_thread_bad,
                 close_semaphore, examples_, stop, mishaps, relaunched>>

-----------------------------------------------------------------------------
(* The commands stop and start of a business station, which the thread of   *)
(* the system dispatcher obeys.                                             *)
Commanded == /\ \E i \in Slot : phase[<<Sys, i>>] = "poll"
             /\ CanGoWrong /\ mishaps' = mishaps + 1

StopStation(s) ==
  /\ Commanded /\ s \notin Base \cup stop
  /\ stop' = stop \cup {s}
  /\ UNCHANGED <<net_state, main, counts, task_semaphore, close_semaphore, phase,
                 examples_, relaunched>>

StartStation(s) ==
  /\ Commanded /\ s \notin Vote \cup stop \cup examples_
  /\ \E i \in Slot : Free(s, i) /\ phase' = [phase EXCEPT ![<<s, i>>] = "init"]
  /\ relaunched' = relaunched + 1
  /\ UNCHANGED <<net_state, main, counts, task_semaphore, close_semaphore,
                 examples_, stop>>

-----------------------------------------------------------------------------
MainNext == \/ StartCenter \/ GiveUp \/ StartPlan \/ Restore \/ Started
            \/ StationsLeft \/ Distory

ThreadNext(t) == \/ Bad(t) \/ Join(t) \/ Run(t) \/ Left(t)
                 \/ Again(t) \/ Done(t) \/ WaitClose(t) \/ End(t)

Next == \/ MainNext
        \/ Signal
        \/ \E t \in Thread : ThreadNext(t)
        \/ \E s \in Business : StopStation(s) \/ StartStation(s)

Spec == Init /\ [][Next]_vars

(* The system schedules every thread.  The signal need not come.            *)
FairSpec == /\ Spec
            /\ WF_vars(MainNext)
            /\ \A t \in Thread : WF_vars(ThreadNext(t))

-----------------------------------------------------------------------------
(* Properties.                                                              *)

TypeOK == /\ net_state \in NetState /\ main \in MainAt
          /\ zero_thread_count \in Nat /\ zero_thread_run \in Nat
          /\ zero_thread_bad \in Nat
          /\ task_semaphore \in Nat /\ close_semaphore \in Nat
          /\ phase \in [Thread -> Phase]
          /\ examples_ \in SUBSET Station /\ stop \in SUBSET Business
          /\ mishaps \in Nat /\ relaunched \in Nat

Serving == {t \in Thread : phase[t] \in {"poll", "left", "waiting", "ending"}}

(* zero_thread_run is the number of threads that have reported to run and   *)
(* not to have ended, although a station's successor may report before it   *)
(* ends and a failed thread never reports again.                            *)
RunCounted == zero_thread_run = Cardinality(Serving)

(* A station is in the warehouse once: its thread is the one between join   *)
(* and left, whatever others were launched for it beside.                   *)
OneRuns ==
  \A t, u \in Thread :
    /\ t[1] = u[1] /\ t # u
    /\ phase[t] \in {"joined", "poll"}
    => phase[u] \notin {"joined", "poll"}

(* The center says that all stations are in service when every station it   *)
(* launched runs or has failed, unless a station was launched again: only   *)
(* then can a report be counted in the place of another's.                  *)
StartWaits ==
  main = "up" /\ relaunched = 0 =>
    \A t \in Thread : phase[t] \notin {"init", "joined"}

(* It says that it is closed when only the system dispatcher is left, and   *)
(* shuts ZeroMQ down when none is, with the same exception.                 *)
CloseWaits ==
  relaunched = 0 =>
    /\ net_state = "closed" => \A t \in Serving : t[1] = Sys
    /\ net_state = "distory" => Serving = {}

(* A signal that finds the center running brings it down, whatever failed,  *)
(* was stopped, restarted or launched twice before.                         *)
CloseEnds == main = "left" ~> main = "exit"

(* "The number of threads that should be started" (main/service.cpp:24) is  *)
(* reached: the start of the center returns.                                *)
StartReturns == net_state = "runing" ~> main = "up"
=============================================================================
