------------------------- MODULE StationLifecycle -------------------------
(***************************************************************************)
(* The life of one business station of ZeroCenter (rpc/api_station.cpp,     *)
(* rpc/zero_station.cpp, rpc/station_warehouse.cpp, rpc/zero_config.h).     *)
(* Each run of the station is an instance with a thread of its own; an      *)
(* instance whose poll ends starts the next one before it is destroyed.     *)
(* All instances, and the management commands, which the thread of          *)
(* SystemManage executes one after the other, share one zero_config and its *)
(* station_state_, a plain field.  runtime_state tests it for Stop and then *)
(* sets it: a write that is tested and not yet done is in pending.          *)
(*                                                                          *)
(* What ServiceLifecycle models of the same threads, the counts and         *)
(* semaphores of the center, is left out here.                              *)
(***************************************************************************)
EXTENDS Naturals, FiniteSets

CONSTANTS
  Instance,      \* bound: the instances that exist side by side
  MaxEvent       \* bound: commands, ports that cannot be bound, polls that fail,
                 \* and the close of the center

ASSUME StationAssumption ==
  /\ Instance # {} /\ {"nobody", "leaked", "manager"} \cap Instance = {}
  /\ MaxEvent \in Nat

VARIABLES
  station_state_,
  known,         \* the station is in configs_
  net_state,
  examples_,     \* the instance in the warehouse, or nobody
  ports,         \* the instance that has bound the station's ports, nobody, or
                 \* leaked, when one that has failed keeps them bound
  at,            \* where each instance is
  pending,       \* of the instances and the manager
  command,       \* the command the manager executes
  step,          \* where it is in it
  events

config == <<station_state_, known, net_state>>
shared == <<examples_, ports>>
manager == <<command, step>>
vars == <<config, shared, at, pending, manager, events>>

State == {"None", "ReStart", "Start", "Run", "Pause", "Failed", "Closing", "Closed", "Stop"}
Thread == Instance \cup {"manager"}

(* The upper bound of the states that run is forgotten.                     *)
MutantIsRun == station_state_ \notin {"None", "ReStart"}

is_run == station_state_ \in {"Start", "Run", "Pause"}
MutantCanDo == is_run

can_do == is_run /\ net_state = "runing"

-----------------------------------------------------------------------------
Init ==
  /\ station_state_ = "None" /\ known = TRUE /\ net_state = "runing"
  /\ examples_ = "nobody" /\ ports = "nobody"
  /\ LET first == CHOOSE i \in Instance : TRUE
     IN at = [i \in Instance |-> IF i = first THEN "init" ELSE "none"]
  /\ pending = [h \in Thread |-> "no"]
  /\ command = "none" /\ step = "idle"
  /\ events = 0

Event == events < MaxEvent /\ events' = events + 1

Ready(h) == pending[h] = "no"

(* runtime_state, up to the write.  The mutant does not test it.            *)
MutantState(h, state) == pending' = [pending EXCEPT ![h] = state]

runtime_state(h, state) ==
  pending' = [pending EXCEPT ![h] = IF station_state_ = "Stop" THEN "no" ELSE state]

Write(h) ==
  /\ ~Ready(h)
  /\ station_state_' = pending[h] /\ pending' = [pending EXCEPT ![h] = "no"]
  /\ UNCHANGED <<known, net_state, shared, at, manager, events>>

Go(i, here, there) ==
  /\ Ready(i) /\ at[i] = here /\ at' = [at EXCEPT ![i] = there]

(* A thread for a new instance.                                             *)
NewThread(before) ==
  LET free == {i \in Instance : before[i] = "none"}
  IN free # {} /\ at' = [before EXCEPT ![CHOOSE i \in free : TRUE] = "init"]

(* examples_mutex.                                                          *)
Unlocked == \A i \in Instance : at[i] \notin {"joining", "leaving"}

-----------------------------------------------------------------------------
(* launch.                                                                  *)

initialize(i) ==
  /\ Go(i, "init", IF station_state_ = "Stop" THEN "failed" ELSE "begin")
  /\ UNCHANGED <<config, shared, pending, manager, events>>

initializeStart(i) ==
  /\ Go(i, "begin", "open") /\ runtime_state(i, "Start")
  /\ UNCHANGED <<config, shared, manager, events>>

initializeBind(i) ==
  /\ ports = "nobody" /\ ports' = i
  /\ Go(i, "open", "start")
  /\ UNCHANGED <<config, examples_, pending, manager, events>>

(* Nothing destructs an instance that has failed: the ports it has bound    *)
(* before stay bound.  launch reports the failure once more.                *)
initializeFailed(i) ==
  /\ Go(i, "open", "failed") /\ runtime_state(i, "Failed")
  /\ \/ ports # "nobody" /\ UNCHANGED <<ports, events>>
     \/ /\ ports = "nobody" /\ ports' \in {"nobody", "leaked"}
        /\ Event
  /\ UNCHANGED <<config, examples_, manager>>

failed(i) ==
  /\ Go(i, "failed", "destroy") /\ runtime_state(i, "Failed")
  /\ UNCHANGED <<config, shared, manager, events>>

start(i) ==
  /\ Go(i, "start", "join") /\ runtime_state(i, "Start")
  /\ UNCHANGED <<config, shared, manager, events>>

(* join refuses a second instance of a name, see JoinFree.                  *)
join(i) ==
  /\ Unlocked /\ examples_ = "nobody" /\ examples_' = i
  /\ Go(i, "join", "joining") /\ runtime_state(i, "Run")
  /\ UNCHANGED <<config, ports, manager, events>>

joined(i) ==
  /\ Go(i, "joining", "runing")
  /\ UNCHANGED <<config, shared, pending, manager, events>>

runing(i) ==
  /\ Go(i, "runing", "poll") /\ runtime_state(i, "Run")
  /\ UNCHANGED <<config, shared, manager, events>>

poll(i) ==
  /\ Go(i, "poll", "closing") /\ ~can_do
  /\ UNCHANGED <<config, shared, pending, manager, events>>

pollFailed(i) ==
  /\ Go(i, "poll", "closing") /\ Event
  /\ UNCHANGED <<config, shared, pending, manager>>

(* The sockets are closed before the station leaves the warehouse.          *)
MutantClosing(i) ==
  /\ Go(i, "closing", "left") /\ runtime_state(i, "Closing") /\ ports' = "nobody"
  /\ UNCHANGED <<config, examples_, manager, events>>

closing(i) ==
  /\ Go(i, "closing", "left") /\ runtime_state(i, "Closing")
  /\ UNCHANGED <<config, shared, manager, events>>

(* left does not erase.                                                     *)
MutantLeft(i) ==
  /\ Unlocked /\ examples_ = i
  /\ Go(i, "left", "leaving") /\ runtime_state(i, "Closed")
  /\ UNCHANGED <<config, shared, manager, events>>

left(i) ==
  /\ Unlocked /\ examples_ = i /\ examples_' = "nobody"
  /\ Go(i, "left", "leaving") /\ runtime_state(i, "Closed")
  /\ UNCHANGED <<config, ports, manager, events>>

leaves(i) ==
  /\ Go(i, "leaving", "bound")
  /\ UNCHANGED <<config, shared, pending, manager, events>>

destruct(i) ==
  /\ Go(i, "bound", "again") /\ ports' = "nobody"
  /\ UNCHANGED <<config, examples_, pending, manager, events>>

again(i) ==
  /\ \/ /\ station_state_ # "Stop" /\ net_state = "runing"
        /\ Go(i, "again", "restart") /\ UNCHANGED pending
     \/ /\ ~(station_state_ # "Stop" /\ net_state = "runing")
        /\ Go(i, "again", "destroy") /\ runtime_state(i, "Closed")
  /\ UNCHANGED <<config, shared, manager, events>>

restart(i) ==
  /\ Go(i, "restart", "run") /\ runtime_state(i, "ReStart")
  /\ UNCHANGED <<config, shared, manager, events>>

run(i) ==
  /\ Ready(i) /\ at[i] = "run"
  /\ LET ended == [at EXCEPT ![i] = "destroy"]
     IN IF station_state_ = "Stop" THEN at' = ended ELSE NewThread(ended)
  /\ UNCHANGED <<config, shared, pending, manager, events>>

(* ~zero_station: close(true), on a state that may be that of the next      *)
(* instance.                                                                *)
Closable == station_state_ \in {"Run", "Pause", "Stop"}

destroy(i) ==
  /\ Go(i, "destroy", IF Closable THEN "close" ELSE "none")
  /\ UNCHANGED <<config, shared, pending, manager, events>>

destroyClose(i) ==
  /\ Go(i, "close", "wait") /\ runtime_state(i, "Closing")
  /\ UNCHANGED <<config, shared, manager, events>>

destroyed(i) ==
  /\ Go(i, "wait", "none") /\ station_state_ # "Closing"
  /\ UNCHANGED <<config, shared, pending, manager, events>>

-----------------------------------------------------------------------------
(* exec_command.                                                            *)

Does(c, here, there) ==
  /\ Ready("manager") /\ command = c /\ step = here /\ step' = there
  /\ UNCHANGED <<command, net_state, shared, events>>

exec_command(c) ==
  /\ Ready("manager") /\ step = "idle" /\ net_state = "runing"
  /\ Event
  /\ command' = c /\ step' = IF c \in {"stop", "recover", "remove"} THEN "config" ELSE "find"
  /\ UNCHANGED <<config, shared, at, pending>>

stop ==
  /\ Does("stop", "config", IF known /\ station_state_ # "Stop" THEN "find" ELSE "idle")
  /\ station_state_' = IF known THEN "Stop" ELSE station_state_
  /\ UNCHANGED <<known, at, pending>>

(* The recovered station is like one that was never seen.                   *)
MutantRecover ==
  /\ Does("recover", "config", "idle")
  /\ station_state_' = IF known /\ station_state_ = "Stop" THEN "Unknow" ELSE station_state_
  /\ UNCHANGED <<known, at, pending>>

recover ==
  /\ Does("recover", "config", "idle")
  /\ station_state_' = IF known /\ station_state_ = "Stop" THEN "None" ELSE station_state_
  /\ UNCHANGED <<known, at, pending>>

remove ==
  /\ Does("remove", "config", "idle")
  /\ known' = (known /\ station_state_ # "Stop")
  /\ UNCHANGED <<station_state_, at, pending>>

(* instance: the pointer outlives the lock; what it is used for is its      *)
(* config, which all instances share.                                       *)
find(c) ==
  /\ Unlocked
  /\ Does(c, "find", IF examples_ # "nobody"
                     THEN IF c = "start" THEN "idle" ELSE "test"
                     ELSE IF c \in {"start", "resume"} /\ known THEN "restore" ELSE "idle")
  /\ UNCHANGED <<station_state_, known, at, pending>>

restore(c) ==
  /\ Does(c, "restore", "idle")
  /\ IF station_state_ = "Stop" THEN UNCHANGED at ELSE NewThread(at)
  /\ UNCHANGED <<station_state_, known, pending>>

test(c) ==
  /\ Does(c, "test", IF \/ c = "pause" /\ station_state_ = "Run"
                        \/ c = "resume" /\ station_state_ = "Pause"
                        \/ c \in {"close", "stop"} /\ Closable
                     THEN "set" ELSE "idle")
  /\ UNCHANGED <<station_state_, known, at, pending>>

set(c) ==
  /\ \/ c = "pause" /\ Does(c, "set", "idle") /\ runtime_state("manager", "Pause")
     \/ c = "resume" /\ Does(c, "set", "idle") /\ runtime_state("manager", "Run")
     \/ c \in {"close", "stop"} /\ Does(c, "set", "wait") /\ runtime_state("manager", "Closing")
  /\ UNCHANGED <<station_state_, known, at>>

closed(c) ==
  /\ Does(c, "wait", "idle") /\ station_state_ # "Closing"
  /\ UNCHANGED <<station_state_, known, at, pending>>

(* The center closes.                                                       *)
close_net ==
  /\ Event /\ net_state = "runing" /\ net_state' = "closing"
  /\ UNCHANGED <<station_state_, known, shared, at, pending, manager>>

-----------------------------------------------------------------------------
Lives(i) ==
  \/ Write(i)
  \/ initialize(i) \/ initializeStart(i) \/ initializeBind(i) \/ initializeFailed(i)
  \/ failed(i) \/ start(i) \/ join(i) \/ joined(i) \/ runing(i) \/ poll(i) \/ closing(i) \/ left(i)
  \/ leaves(i) \/ destruct(i) \/ again(i) \/ restart(i) \/ run(i)
  \/ destroy(i) \/ destroyClose(i) \/ destroyed(i)

Command == {"pause", "resume", "start", "close", "stop", "recover", "remove"}

Executes ==
  \/ Write("manager")
  \/ stop \/ recover \/ remove
  \/ \E c \in Command : find(c) \/ restore(c) \/ test(c) \/ set(c) \/ closed(c)

Next ==
  \/ \E i \in Instance : Lives(i)
  \/ Executes \/ close_net \/ \E i \in Instance : pollFailed(i)
  \/ \E c \in Command : exec_command(c)

Spec == Init /\ [][Next]_vars

(* Every thread runs; a poll comes back after ten seconds at the latest and  *)
(* tests can_do.  Commands, failing polls and the close need not come.      *)
FairSpec == Spec /\ WF_vars(Executes) /\ \A i \in Instance : WF_vars(Lives(i))

-----------------------------------------------------------------------------
Place == {"none", "init", "begin", "open", "failed", "start", "join", "joining", "runing",
          "poll", "closing", "left", "leaving", "bound", "again", "restart", "run", "destroy",
          "close", "wait"}

TypeOK ==
  /\ station_state_ \in State /\ known \in BOOLEAN /\ net_state \in {"runing", "closing"}
  /\ examples_ \in Instance \cup {"nobody"} /\ ports \in Instance \cup {"nobody", "leaked"}
  /\ at \in [Instance -> Place] /\ pending \in [Thread -> State \cup {"no"}]
  /\ command \in Command \cup {"none"}
  /\ step \in {"idle", "config", "find", "restore", "test", "set", "wait"}
  /\ events \in 0..MaxEvent

(* Registered: the warehouse holds an instance exactly from its join to its  *)
(* left, whatever other instances were started, failed or ended meanwhile:  *)
(* a command never gets an instance that has left, and left always finds    *)
(* its own (station_warehouse.cpp:470).                                     *)
Serving(i) == at[i] \in {"joining", "runing", "poll", "closing", "left"}

Registered == \A i \in Instance : Serving(i) <=> examples_ = i

(* JoinFree: an instance that comes to join finds its name free.  Start       *)
(* commands and restarts may bring several instances of a station to        *)
(* initialize; the ports let one of them pass, and that one only when its   *)
(* predecessor has left the warehouse.  So launch never leaves by the way   *)
(* of a refused join, on which the sockets would stay open.                 *)
JoinFree == \A i \in Instance : at[i] = "join" => examples_ = "nobody"

(* StopEnds: a stop keeps.  Once no thread is between the test and the     *)
(* write of runtime_state (zero_config.h:341), where Stop can be lost, all  *)
(* instances of a stopped station end, those that are starting, failing or  *)
(* being destroyed too, and none follows, unless it is recovered.           *)
StopEnds ==
  station_state_ = "Stop" /\ (\A h \in Thread : Ready(h)) ~>
    command = "recover" \/ \A i \in Instance : at[i] = "none"

(* CenterEnds: once the center closes, its stations leave the warehouse for  *)
(* good, also one that is just restarting, or whose state a destructor sets *)
(* to Closing.                                                              *)
CenterEnds == net_state = "closing" ~> [](\A i \in Instance : ~Serving(i))
=============================================================================
