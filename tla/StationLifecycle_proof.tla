---------------------- MODULE StationLifecycle_proof ----------------------
(***************************************************************************)
(* Proofs about the life of a station, for any number of instances, any     *)
(* commands and any failures:                                               *)
(*                                                                          *)
(*   StationTyped       Spec => []TypeOK                                    *)
(*   StationRegistered  Spec => []Registered                                *)
(*   JoinsFree          Spec => []JoinFree                                  *)
(*                                                                          *)
(* The inductive invariant adds Owned: an instance holds the ports exactly  *)
(* from initialize to destruct.  An instance is in the warehouse only while *)
(* it holds the ports, so the one that comes to join, which holds them, is  *)
(* the only one that could be there: JoinFree.  A left finds the instance   *)
(* it erases because join has put it there and nobody else could.           *)
(***************************************************************************)
EXTENDS StationLifecycle, TLAPS

Bound == {"start", "join", "joining", "runing", "poll", "closing", "left", "leaving", "bound"}
Serves == {"joining", "runing", "poll", "closing", "left"}

Owned == \A i \in Instance : at[i] \in Bound <=> ports = i

Keeps == Owned /\ Registered
Inv == TypeOK /\ Keeps

Step == {"idle", "config", "find", "restore", "test", "set", "wait"}

-----------------------------------------------------------------------------
(* Parts of TypeOK.                                                         *)
ConfigOK  == station_state_ \in State /\ known \in BOOLEAN /\ net_state \in {"runing", "closing"}
SharedOK  == /\ examples_ \in Instance \cup {"nobody"}
             /\ ports \in Instance \cup {"nobody", "leaked"}
AtOK      == at \in [Instance -> Place]
PendingOK == pending \in [Thread -> State \cup {"no"}]
ManagerOK == command \in Command \cup {"none"} /\ step \in Step
EventsOK  == events \in 0..MaxEvent

LEMMA TypeParts ==
  TypeOK <=> ConfigOK /\ SharedOK /\ AtOK /\ PendingOK /\ ManagerOK /\ EventsOK
BY DEF TypeOK, ConfigOK, SharedOK, AtOK, PendingOK, ManagerOK, EventsOK, Step

LEMMA TypeNext ==
  TypeOK' <=> ConfigOK' /\ SharedOK' /\ AtOK' /\ PendingOK' /\ ManagerOK' /\ EventsOK'
BY TypeParts DEF TypeOK, ConfigOK, SharedOK, AtOK, PendingOK, ManagerOK, EventsOK, Step

(* A write that is tested, or not, and one that is done.                    *)
LEMMA StateType ==
  ASSUME PendingOK, NEW h \in Thread, NEW state \in State, runtime_state(h, state)
  PROVE  PendingOK'
BY DEF PendingOK, runtime_state

(* What a thread is in the middle of, it moves on from.                     *)
LEMMA GoType ==
  ASSUME AtOK, NEW i \in Instance, NEW here, NEW there \in Place, Go(i, here, there)
  PROVE  /\ AtOK' /\ at[i] = here /\ at'[i] = there
         /\ \A j \in Instance : j # i => at'[j] = at[j]
BY DEF AtOK, Go

LEMMA NewType ==
  ASSUME NEW before \in [Instance -> Place], NewThread(before)
  PROVE  /\ AtOK'
         /\ \A j \in Instance : at'[j] # before[j] => before[j] = "none" /\ at'[j] = "init"
<1> DEFINE free == {i \in Instance : before[i] = "none"}
           new == CHOOSE i \in free : TRUE
<1>1. new \in free
  BY DEF NewThread
<1>2. new \in Instance /\ before[new] = "none"
  BY <1>1
<1>3. at' = [before EXCEPT ![new] = "init"]
  BY DEF NewThread
<1> QED BY <1>2, <1>3 DEF AtOK, Place

(* A step that leaves the ports and the warehouse alone, and moves no       *)
(* instance into or out of the parts of its life in which it has them.      *)
LEMMA Quiet ==
  ASSUME Keeps, UNCHANGED shared,
         \A j \in Instance : /\ (at'[j] \in Bound <=> at[j] \in Bound)
                             /\ (at'[j] \in Serves <=> at[j] \in Serves)
  PROVE  Keeps'
BY DEF Keeps, Owned, Registered, Serving, Serves, shared

LEMMA InThread == \A i \in Instance : i \in Thread
BY DEF Thread

LEMMA ManagerThread == "manager" \in Thread
BY DEF Thread
-----------------------------------------------------------------------------
LEMMA InitInv == Init => Inv
<1> SUFFICES ASSUME Init PROVE Inv
  OBVIOUS
<1>1. PICK first \in Instance : at = [i \in Instance |-> IF i = first THEN "init" ELSE "none"]
  <2> DEFINE first == CHOOSE i \in Instance : TRUE
  <2>1. first \in Instance
    BY StationAssumption
  <2>2. at = [i \in Instance |-> IF i = first THEN "init" ELSE "none"]
    BY DEF Init
  <2> QED BY <2>1, <2>2
<1>2. AtOK /\ \A i \in Instance : at[i] \in {"init", "none"}
  BY <1>1 DEF AtOK, Place
<1>3. ConfigOK /\ SharedOK /\ PendingOK /\ ManagerOK /\ EventsOK
  BY StationAssumption DEF Init, ConfigOK, SharedOK, PendingOK, ManagerOK, EventsOK, State, Step
<1>4. Owned /\ Registered
  BY <1>2, StationAssumption DEF Init, Owned, Bound, Registered, Serving
<1> QED BY <1>2, <1>3, <1>4, TypeParts DEF Inv, Keeps

(* A thread does the write it has tested for.                               *)
LEMMA WriteInv ==
  ASSUME Inv, NEW h \in Thread, Write(h)
  PROVE  Inv'
<1>1. ConfigOK' /\ PendingOK'
  BY TypeParts, TypeNext DEF Inv, Write, Ready, ConfigOK, PendingOK, State
<1>2. SharedOK' /\ AtOK' /\ ManagerOK' /\ EventsOK'
  BY TypeParts, TypeNext DEF Inv, Write, shared, manager, SharedOK, AtOK, ManagerOK, EventsOK
<1>3. Keeps'
  BY Quiet DEF Inv, Write
<1> QED BY <1>1, <1>2, <1>3, TypeParts, TypeNext DEF Inv

(* The steps of an instance that neither bind nor release the ports, nor    *)
(* join nor leave the warehouse.                                            *)
Walks(i) ==
  \/ initialize(i) \/ initializeStart(i) \/ failed(i) \/ start(i) \/ joined(i) \/ runing(i)
  \/ poll(i) \/ pollFailed(i) \/ closing(i) \/ leaves(i) \/ again(i) \/ restart(i)
  \/ destroy(i) \/ destroyClose(i) \/ destroyed(i)

LEMMA WalksGo ==
  ASSUME NEW i \in Instance, Walks(i)
  PROVE  \E here \in Place, there \in Place :
           /\ Go(i, here, there)
           /\ (here \in Bound <=> there \in Bound)
           /\ (here \in Serves <=> there \in Serves)
BY DEF Walks, initialize, initializeStart, failed, start, joined, runing, poll, pollFailed,
       closing, leaves, again, restart, destroy, destroyClose, destroyed, Place, Bound, Serves

LEMMA WalksRest ==
  ASSUME NEW i \in Instance, Walks(i)
  PROVE  /\ UNCHANGED <<config, shared, manager>>
         /\ UNCHANGED events \/ Event
         /\ UNCHANGED pending \/ \E state \in State : runtime_state(i, state)
BY DEF Walks, initialize, initializeStart, failed, start, joined, runing, poll, pollFailed,
       closing, leaves, again, restart, destroy, destroyClose, destroyed, State

LEMMA EventType ==
  ASSUME EventsOK, UNCHANGED events \/ Event
  PROVE  EventsOK'
BY StationAssumption DEF EventsOK, Event

LEMMA WalksInv ==
  ASSUME Inv, NEW i \in Instance, Walks(i)
  PROVE  Inv'
<1>1. PICK here \in Place, there \in Place : /\ Go(i, here, there)
                                             /\ (here \in Bound <=> there \in Bound)
                                             /\ (here \in Serves <=> there \in Serves)
  BY WalksGo
<1>2. /\ AtOK' /\ at[i] = here /\ at'[i] = there
      /\ \A j \in Instance : j # i => at'[j] = at[j]
  <2>1. AtOK
    BY TypeParts DEF Inv
  <2> QED BY <1>1, <2>1, GoType
<1>3. PendingOK'
  BY WalksRest, StateType, InThread, TypeParts, TypeNext DEF Inv, PendingOK
<1>4. ConfigOK' /\ SharedOK' /\ ManagerOK'
  BY WalksRest, TypeParts, TypeNext DEF Inv, config, shared, manager, ConfigOK, SharedOK, ManagerOK
<1>5. EventsOK'
  BY WalksRest, EventType, TypeParts, TypeNext DEF Inv
<1>6. Keeps'
  BY <1>1, <1>2, WalksRest, Quiet DEF Inv
<1> QED BY <1>2, <1>3, <1>4, <1>5, <1>6, TypeParts, TypeNext DEF Inv

-----------------------------------------------------------------------------
(* initialize takes free ports.                                             *)
LEMMA BindInv ==
  ASSUME Inv, NEW i \in Instance, initializeBind(i)
  PROVE  Inv'
<1>1. /\ AtOK' /\ at[i] = "open" /\ at'[i] = "start"
      /\ \A j \in Instance : j # i => at'[j] = at[j]
  BY GoType, TypeParts, TypeNext DEF Inv, initializeBind, Place
<1>2. TypeOK'
  BY <1>1, TypeParts, TypeNext DEF Inv, initializeBind, config, manager, ConfigOK, SharedOK, PendingOK,
     ManagerOK, EventsOK
<1>3. Owned'
  BY <1>1, StationAssumption DEF Inv, Keeps, Owned, initializeBind, Bound
<1>4. Registered'
  BY <1>1 DEF Inv, Keeps, Registered, Serving, initializeBind
<1> QED BY <1>2, <1>3, <1>4 DEF Inv, Keeps

(* What a failed initialize leaves bound belongs to no instance.            *)
LEMMA FailedInv ==
  ASSUME Inv, NEW i \in Instance, initializeFailed(i)
  PROVE  Inv'
<1>1. /\ AtOK' /\ at[i] = "open" /\ at'[i] = "failed"
      /\ \A j \in Instance : j # i => at'[j] = at[j]
  BY GoType, TypeParts, TypeNext DEF Inv, initializeFailed, Place
<1>2. PendingOK'
  BY StateType, InThread, TypeParts, TypeNext DEF Inv, initializeFailed, State
<1>3. EventsOK'
  BY EventType, TypeParts, TypeNext DEF Inv, initializeFailed
<1>4. TypeOK'
  BY <1>1, <1>2, <1>3, TypeParts, TypeNext DEF Inv, initializeFailed, config, manager, ConfigOK,
     SharedOK, ManagerOK
<1>5. ports' = ports \/ (ports = "nobody" /\ ports' = "leaked")
  BY DEF initializeFailed
<1>6. Owned'
  BY <1>1, <1>5, StationAssumption DEF Inv, Keeps, Owned, Bound
<1>7. Registered'
  BY <1>1 DEF Inv, Keeps, Registered, Serving, initializeFailed
<1> QED BY <1>4, <1>6, <1>7 DEF Inv, Keeps

(* The instance that joins has the ports, so no other is there.             *)
LEMMA JoinInv ==
  ASSUME Inv, NEW i \in Instance, join(i)
  PROVE  Inv'
<1>1. /\ AtOK' /\ at[i] = "join" /\ at'[i] = "joining"
      /\ \A j \in Instance : j # i => at'[j] = at[j]
  BY GoType, TypeParts, TypeNext DEF Inv, join, Place
<1>2. PendingOK'
  BY StateType, InThread, TypeParts, TypeNext DEF Inv, join, State
<1>3. TypeOK'
  BY <1>1, <1>2, TypeParts, TypeNext DEF Inv, join, config, manager, ConfigOK, SharedOK, ManagerOK,
     EventsOK
<1>4. Owned'
  BY <1>1 DEF Inv, Keeps, Owned, join, Bound
<1>5. Registered'
  BY <1>1, StationAssumption DEF Inv, Keeps, Registered, Serving, join
<1> QED BY <1>3, <1>4, <1>5 DEF Inv, Keeps

LEMMA LeftInv ==
  ASSUME Inv, NEW i \in Instance, left(i)
  PROVE  Inv'
<1>1. /\ AtOK' /\ at[i] = "left" /\ at'[i] = "leaving"
      /\ \A j \in Instance : j # i => at'[j] = at[j]
  BY GoType, TypeParts, TypeNext DEF Inv, left, Place
<1>2. PendingOK'
  BY StateType, InThread, TypeParts, TypeNext DEF Inv, left, State
<1>3. TypeOK'
  BY <1>1, <1>2, TypeParts, TypeNext DEF Inv, left, config, manager, ConfigOK, SharedOK, ManagerOK,
     EventsOK
<1>4. Owned'
  BY <1>1 DEF Inv, Keeps, Owned, left, Bound
<1>5. Registered'
  BY <1>1, StationAssumption DEF Inv, Keeps, Registered, Serving, left
<1> QED BY <1>3, <1>4, <1>5 DEF Inv, Keeps

(* destruct releases the ports of its own instance.                         *)
LEMMA DestructInv ==
  ASSUME Inv, NEW i \in Instance, destruct(i)
  PROVE  Inv'
<1>1. /\ AtOK' /\ at[i] = "bound" /\ at'[i] = "again"
      /\ \A j \in Instance : j # i => at'[j] = at[j]
  BY GoType, TypeParts, TypeNext DEF Inv, destruct, Place
<1>2. TypeOK'
  BY <1>1, TypeParts, TypeNext DEF Inv, destruct, config, manager, ConfigOK, SharedOK, PendingOK,
     ManagerOK, EventsOK
<1>3. Owned'
  BY <1>1, StationAssumption DEF Inv, Keeps, Owned, destruct, Bound
<1>4. Registered'
  BY <1>1 DEF Inv, Keeps, Registered, Serving, destruct
<1> QED BY <1>2, <1>3, <1>4 DEF Inv, Keeps

(* The instance that ends starts the next one.                              *)
LEMMA RunInv ==
  ASSUME Inv, NEW i \in Instance, run(i)
  PROVE  Inv'
<1> DEFINE ended == [at EXCEPT ![i] = "destroy"]
<1>1. at[i] = "run" /\ AtOK
  BY TypeParts, TypeNext DEF Inv, run
<1>2. ended \in [Instance -> Place]
  BY <1>1 DEF AtOK, Place
<1>3. AtOK' /\ \A j \in Instance : at'[j] # ended[j] => ended[j] = "none" /\ at'[j] = "init"
  <2>1. CASE at' = ended
    BY <1>2, <2>1 DEF AtOK
  <2>2. CASE NewThread(ended)
    BY <1>2, <2>2, NewType
  <2> QED BY <2>1, <2>2 DEF run
<1>4. \A j \in Instance : ended[j] = IF j = i THEN "destroy" ELSE at[j]
  BY <1>1 DEF AtOK
<1>5. TypeOK'
  BY <1>3, TypeParts, TypeNext DEF Inv, run, config, shared, manager, ConfigOK, SharedOK, PendingOK,
     ManagerOK, EventsOK
<1>6. Keeps'
  <2>1. \A j \in Instance : /\ (at'[j] \in Bound <=> at[j] \in Bound)
                            /\ (at'[j] \in Serves <=> at[j] \in Serves)
    BY <1>1, <1>3, <1>4 DEF Bound, Serves
  <2> QED BY <2>1, Quiet DEF Inv, run
<1> QED BY <1>5, <1>6 DEF Inv

-----------------------------------------------------------------------------
(* The commands move no instance, but a start or a resume may launch one.   *)
Commands == Executes \/ close_net \/ \E c \in Command : exec_command(c)

LEMMA ManagerType ==
  ASSUME Inv, Commands, ~Write("manager")
  PROVE  ManagerOK' /\ EventsOK'
<1>1. ManagerOK /\ EventsOK
  BY TypeParts, TypeNext DEF Inv
<1>2. CASE Executes
  <2>1. \E c \in Command \cup {"none"}, here, there \in Step : Does(c, here, there)
    BY <1>2 DEF Commands, Executes, stop, recover, remove, find, restore, test, set, closed,
       Command, Step
  <2> QED BY <1>1, <2>1 DEF Does, ManagerOK, EventsOK, Step
<1>3. CASE close_net
  BY <1>1, <1>3, EventType DEF close_net, manager, ManagerOK
<1>4. CASE \E c \in Command : exec_command(c)
  BY <1>1, <1>4, EventType DEF exec_command, ManagerOK, Step
<1> QED BY <1>2, <1>3, <1>4 DEF Commands

LEMMA CommandKeeps ==
  ASSUME Inv, Commands, ~Write("manager")
  PROVE  /\ UNCHANGED shared
         /\ UNCHANGED at \/ NewThread(at)
         /\ UNCHANGED pending \/ \E state \in State : runtime_state("manager", state)
BY DEF Commands, Executes, stop, recover, remove, find, restore, test, set, closed, close_net,
       exec_command, Does, shared, State

LEMMA CommandConfig ==
  ASSUME Inv, Commands, ~Write("manager")
  PROVE  ConfigOK'
<1>1. ConfigOK
  BY TypeParts, TypeNext DEF Inv
<1> QED BY <1>1 DEF Commands, Executes, stop, recover, remove, find, restore, test, set, closed,
        close_net, exec_command, Does, config, ConfigOK, State

LEMMA CommandInv ==
  ASSUME Inv, Commands
  PROVE  Inv'
<1>1. CASE Write("manager")
  BY <1>1, WriteInv, ManagerThread
<1>2. CASE ~Write("manager")
  <2>1. AtOK' /\ \A j \in Instance : at'[j] # at[j] => at[j] = "none" /\ at'[j] = "init"
    BY <1>2, CommandKeeps, NewType, TypeParts, TypeNext DEF Inv, AtOK
  <2>2. PendingOK'
    BY <1>2, CommandKeeps, StateType, ManagerThread, TypeParts, TypeNext DEF Inv, PendingOK
  <2>3. SharedOK'
    BY <1>2, CommandKeeps, TypeParts, TypeNext DEF Inv, SharedOK, shared
  <2>4. TypeOK'
    BY <1>2, <2>1, <2>2, <2>3, ManagerType, CommandConfig, TypeParts, TypeNext
  <2>5. Keeps'
    <3>1. \A j \in Instance : /\ (at'[j] \in Bound <=> at[j] \in Bound)
                              /\ (at'[j] \in Serves <=> at[j] \in Serves)
      BY <2>1 DEF Bound, Serves
    <3> QED BY <1>2, <3>1, CommandKeeps, Quiet DEF Inv
  <2> QED BY <2>4, <2>5 DEF Inv
<1> QED BY <1>1, <1>2

LEMMA NextInv == Inv /\ [Next]_vars => Inv'
<1> SUFFICES ASSUME Inv, [Next]_vars PROVE Inv'
  OBVIOUS
<1>1. CASE UNCHANGED vars
  <2>1. TypeOK'
    BY <1>1 DEF Inv, TypeOK, vars, config, shared, manager
  <2>2. Keeps'
    BY <1>1, Quiet DEF Inv, vars
  <2> QED BY <2>1, <2>2 DEF Inv
<1>2. ASSUME NEW i \in Instance, Lives(i) \/ pollFailed(i)
      PROVE  Inv'
  <2>1. CASE Write(i)
    BY <2>1, WriteInv, InThread
  <2>2. CASE ~Write(i)
    BY <1>2, <2>2, WalksInv, BindInv, FailedInv, JoinInv, LeftInv, DestructInv, RunInv
    DEF Lives, Walks
  <2> QED BY <2>1, <2>2
<1>3. CASE Commands
  BY <1>3, CommandInv
<1> QED BY <1>1, <1>2, <1>3 DEF Next, Commands

-----------------------------------------------------------------------------
(* Every state, place and write a station comes to is one of those listed,  *)
(* for any number of instances beside each other.                           *)
THEOREM StationTyped == Spec => []TypeOK
<1>1. Inv => TypeOK
  BY DEF Inv
<1> QED BY <1>1, InitInv, NextInv, PTL DEF Spec

(* examples_ holds an instance exactly from its join to its left            *)
(* (station_warehouse.cpp), whatever other instances do.                    *)
THEOREM StationRegistered == Spec => []Registered
<1>1. Inv => Registered
  BY DEF Inv, Keeps
<1> QED BY <1>1, InitInv, NextInv, PTL DEF Spec

(* The refusal of join (api_station.cpp, launch) is never taken: who has    *)
(* the ports finds its name free.                                           *)
THEOREM JoinsFree == Spec => []JoinFree
<1>1. Inv => JoinFree
  <2> SUFFICES ASSUME Inv, NEW i \in Instance, at[i] = "join" PROVE examples_ = "nobody"
    BY DEF JoinFree
  <2>1. ports = i
    BY DEF Inv, Keeps, Owned, Bound
  <2>2. ASSUME NEW j \in Instance, examples_ = j PROVE FALSE
    <3>1. Serving(j)
      BY <2>2 DEF Inv, Keeps, Registered
    <3>2. ports = j
      BY <3>1 DEF Inv, Keeps, Owned, Serving, Bound
    <3> QED BY <2>1, <3>1, <3>2 DEF Serving
  <2> QED BY <2>2 DEF Inv, TypeOK
<1> QED BY <1>1, InitInv, NextInv, PTL DEF Spec
=============================================================================
