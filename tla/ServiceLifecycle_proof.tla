---------------------- MODULE ServiceLifecycle_proof ----------------------
(***************************************************************************)
(* Proofs about the start and stop of ZeroCenter, for any installed         *)
(* stations, any number of threads beside each other and any commands and   *)
(* failures:                                                                *)
(*                                                                          *)
(*   RunIsCounted     Spec => []RunCounted                                  *)
(*   StationRunsOnce  Spec => []OneRuns                                     *)
(*   ServiceTyped     Spec => []TypeOK                                      *)
(*   StartIsWaitedFor Spec => []StartWaits                                  *)
(*   CloseIsWaitedFor Spec => []CloseWaits                                  *)
(*                                                                          *)
(* They are proved together with TypeOK, which needs RunCounted to know     *)
(* that zero_thread_run stays a natural number.  OneRuns rests on the       *)
(* warehouse (InWarehouse): join refuses a station that is in examples_,    *)
(* and no thread between join and left is missing there.  reset_command_    *)
(* thread sets the counts to zero, which NotBegun justifies.                *)
(*                                                                          *)
(* StartWaits and CloseWaits are about what a post of task_semaphore means  *)
(* to the main thread that takes it.  StartInv says that for every stage of *)
(* the start and the close, as long as no station was launched anew: the    *)
(* reports made and those still to come are no more than the stage waits    *)
(* for (the two dispatchers are never uncounted while the center runs), so  *)
(* the report that posts is the last.                                       *)
(***************************************************************************)
EXTENDS ServiceLifecycle, FiniteSetTheorems, TLAPS

Reported == {"poll", "left", "waiting", "ending"}
Active   == {"joined", "poll"}

NotBegun    == main = "begin" => \A t \in Thread : phase[t] = "none"
InWarehouse == \A t \in Thread : phase[t] \in Active => t[1] \in examples_

Inv == TypeOK /\ RunCounted /\ NotBegun /\ InWarehouse /\ OneRuns

-----------------------------------------------------------------------------
LEMMA StationFinite == IsFiniteSet(Station)
<1>1. IsFiniteSet({} \cup {Sys})
  BY FS_EmptySet, FS_AddElement
<1>2. IsFiniteSet(({} \cup {Sys}) \cup {Plan})
  BY <1>1, FS_AddElement
<1>3. {Sys, Plan} = ({} \cup {Sys}) \cup {Plan}
  OBVIOUS
<1> QED BY <1>2, <1>3, ServiceAssumption, FS_Union DEF Station

LEMMA ServingFinite == IsFiniteSet(Serving) /\ Cardinality(Serving) \in Nat
<1>1. IsFiniteSet(Thread)
  BY StationFinite, ServiceAssumption, FS_Product DEF Thread
<1>2. Serving \in SUBSET Thread
  BY DEF Serving
<1> QED BY <1>1, <1>2, FS_Subset, FS_CardinalityType

LEMMA StationOf ==
  ASSUME NEW t \in Thread
  PROVE  t[1] \in Station /\ t[2] \in Slot /\ t = <<t[1], t[2]>>
BY DEF Thread

LEMMA FirstSlot ==
  ASSUME NEW s \in Station
  PROVE  <<s, 1>> \in Thread
BY ServiceAssumption DEF Thread

(* A step that leaves the reported threads and the count alone and activates*)
(* no thread keeps what is not about types.                                 *)
Keeps == RunCounted /\ NotBegun /\ InWarehouse /\ OneRuns

LEMMA Quiet ==
  ASSUME Inv, main' # "begin", UNCHANGED zero_thread_run,
         \A t \in Thread : phase'[t] \in Reported <=> phase[t] \in Reported,
         \A t \in Thread : phase'[t] \in Active =>
                             phase[t] \in Active /\ t[1] \in examples_'
  PROVE  Keeps'
<1>1. RunCounted'
  <2>1. Serving' = Serving
    BY DEF Serving, Reported
  <2> QED BY <2>1 DEF Inv, RunCounted
<1>2. NotBegun'
  BY DEF NotBegun
<1>3. InWarehouse'
  BY DEF InWarehouse
<1>4. OneRuns'
  BY DEF Inv, OneRuns, Active
<1> QED BY <1>1, <1>2, <1>3, <1>4 DEF Keeps

(* A step of the main thread or a command that moves no thread.             *)
LEMMA Still ==
  ASSUME Inv, main' # "begin", UNCHANGED <<zero_thread_run, phase, examples_>>
  PROVE  Keeps'
BY Quiet DEF Inv, InWarehouse

(* New threads start in phase init.                                         *)
LEMMA Launched ==
  ASSUME Inv, main' # "begin", UNCHANGED <<zero_thread_run, examples_>>,
         \A t \in Thread : \/ phase'[t] = phase[t]
                           \/ phase[t] = "none" /\ phase'[t] = "init"
  PROVE  Keeps'
<1>1. \A t \in Thread : phase'[t] \in Reported <=> phase[t] \in Reported
  BY DEF Reported
<1>2. \A t \in Thread : phase'[t] \in Active => phase[t] \in Active /\ t[1] \in examples_'
  BY DEF Active, Inv, InWarehouse
<1> QED BY <1>1, <1>2, Quiet

-----------------------------------------------------------------------------
(* The actions, each with the part that is not about types first.           *)
LEMMA InitInv == Init => Inv
<1> SUFFICES ASSUME Init PROVE Inv
  OBVIOUS
<1>1. \A t \in Thread : phase[t] = "none"
  BY DEF Init
<1>2. TypeOK
  BY DEF Init, TypeOK, NetState, MainAt, Phase
<1>3. RunCounted
  <2>1. Serving = {}
    BY <1>1 DEF Serving
  <2> QED BY <2>1, FS_EmptySet DEF Init, RunCounted
<1>4. NotBegun /\ InWarehouse /\ OneRuns
  BY <1>1 DEF NotBegun, InWarehouse, OneRuns, Active
<1> QED BY <1>2, <1>3, <1>4 DEF Inv

LEMMA StartCenterInv ==
  ASSUME Inv, StartCenter
  PROVE  Inv'
<1>1. \A t \in Thread : phase[t] = "none"
  BY DEF StartCenter, Inv, NotBegun
<1>2. <<Sys, 1>> \in Thread
  BY FirstSlot DEF Station
<1>3. \A t \in Thread : phase'[t] \in {"none", "init"}
  BY <1>1, <1>2 DEF StartCenter, Inv, TypeOK
<1>4. Cardinality(Station \ stop) \in Nat
  BY StationFinite, FS_Subset, FS_CardinalityType
<1>5. TypeOK'
  BY <1>2, <1>4 DEF StartCenter, Inv, TypeOK, NetState, MainAt, Phase
<1>6. RunCounted'
  <2>1. Serving' = {}
    BY <1>3 DEF Serving
  <2> QED BY <2>1, FS_EmptySet DEF StartCenter, RunCounted
<1>7. NotBegun' /\ InWarehouse' /\ OneRuns'
  BY <1>3 DEF StartCenter, NotBegun, InWarehouse, OneRuns, Active
<1> QED BY <1>5, <1>6, <1>7 DEF Inv

LEMMA WaitType ==
  ASSUME Inv, Wait
  PROVE  task_semaphore' \in Nat
BY DEF Inv, TypeOK, Wait

LEMMA MainInv ==
  ASSUME Inv, MainNext \/ Signal
  PROVE  Inv'
<1>1. CASE StartCenter
  BY <1>1, StartCenterInv
<1>2. CASE StartPlan
  <2>1. PICK i \in Slot : /\ Free(Plan, i)
                          /\ phase' = [phase EXCEPT ![<<Plan, i>>] = "init"]
    BY <1>2 DEF StartPlan
  <2>2. <<Plan, i>> \in Thread /\ phase[<<Plan, i>>] = "none"
    BY <2>1 DEF Thread, Station, Free
  <2>3. Keeps'
    BY <1>2, <2>1, <2>2, Launched DEF StartPlan, Inv, TypeOK, counts
  <2>4. phase' \in [Thread -> Phase]
    BY <2>1, <2>2 DEF Inv, TypeOK, Phase
  <2>5. TypeOK'
    BY <1>2, <2>4, WaitType DEF StartPlan, Inv, TypeOK, counts, MainAt
  <2> QED BY <2>3, <2>5 DEF Inv, Keeps
<1>3. CASE Restore
  <2>1. ASSUME NEW t \in Thread
        PROVE  \/ phase'[t] = phase[t]
               \/ phase[t] = "none" /\ phase'[t] = "init"
    <3>1. phase'[t] = IF t[1] \in Business \ (Vote \cup stop) /\ Free(t[1], t[2])
                      THEN "init" ELSE phase[t]
      BY <1>3 DEF Restore
    <3>2. CASE Free(t[1], t[2])
      BY <3>1, <3>2, StationOf DEF Free
    <3>3. CASE ~Free(t[1], t[2])
      BY <3>1, <3>3
    <3> QED BY <3>2, <3>3
  <2>2. Keeps'
    BY <1>3, <2>1, Launched DEF Restore, counts
  <2>3. phase' \in [Thread -> Phase]
    BY <1>3, <2>1 DEF Restore, Inv, TypeOK, Phase
  <2>4. TypeOK'
    BY <1>3, <2>3, WaitType DEF Restore, Inv, TypeOK, counts, MainAt
  <2> QED BY <2>2, <2>4 DEF Inv, Keeps
<1>4. ASSUME GiveUp \/ Started \/ StationsLeft \/ Distory \/ Signal
      PROVE  Inv'
  <2>1. Keeps'
    BY <1>4, Still DEF GiveUp, Started, StationsLeft, Distory, Signal, counts, stations
  <2>2. task_semaphore' \in Nat
    BY <1>4, WaitType DEF GiveUp, Started, StationsLeft, Distory, Signal, Inv, TypeOK
  <2>3. close_semaphore' \in Nat
    BY <1>4 DEF GiveUp, Started, StationsLeft, Distory, Signal, Inv, TypeOK
  <2>4. net_state' \in NetState /\ main' \in MainAt
    BY <1>4 DEF GiveUp, Started, StationsLeft, Distory, Signal, Inv, TypeOK,
                NetState, MainAt
  <2>5. UNCHANGED <<counts, stations, mishaps, relaunched>>
    BY <1>4 DEF GiveUp, Started, StationsLeft, Distory, Signal
  <2>6. TypeOK'
    BY <2>2, <2>3, <2>4, <2>5 DEF Inv, TypeOK, counts, stations
  <2> QED BY <2>1, <2>6 DEF Inv, Keeps
<1> QED BY <1>1, <1>2, <1>3, <1>4 DEF MainNext

(* A thread exists only once the center has begun to start.                 *)
LEMMA Begun ==
  ASSUME Inv, NEW t \in Thread, phase[t] # "none"
  PROVE  main # "begin"
BY DEF Inv, NotBegun

LEMMA PostType ==
  ASSUME Inv, NEW n \in Nat, PostAtStart(n)
  PROVE  task_semaphore' \in Nat
BY DEF Inv, TypeOK, PostAtStart

LEMMA GotoType ==
  ASSUME Inv, NEW t \in Thread, NEW p \in Phase, Goto(t, p)
  PROVE  /\ phase' \in [Thread -> Phase]
         /\ phase'[t] = p
         /\ \A u \in Thread : u # t => phase'[u] = phase[u]
BY DEF Inv, TypeOK, Goto

LEMMA BadInv ==
  ASSUME Inv, NEW t \in Thread, Bad(t)
  PROVE  Inv'
<1>1. /\ phase' \in [Thread -> Phase] /\ phase'[t] = "none" /\ phase[t] = "init"
      /\ \A u \in Thread : u # t => phase'[u] = phase[u]
  BY GotoType DEF Bad, Phase
<1>2. Keeps'
  <2>1. \A u \in Thread : phase'[u] \in Reported <=> phase[u] \in Reported
    BY <1>1 DEF Reported
  <2>2. \A u \in Thread : phase'[u] \in Active =>
                             phase[u] \in Active /\ u[1] \in examples_'
    BY <1>1 DEF Bad, Active, Inv, InWarehouse
  <2>3. main' # "begin"
    BY <1>1, Begun DEF Bad
  <2> QED BY <2>1, <2>2, <2>3, Quiet DEF Bad
<1>3. zero_thread_run + zero_thread_bad' \in Nat /\ zero_thread_bad' \in Nat
  BY DEF Bad, Inv, TypeOK
<1>4. task_semaphore' \in Nat
  BY <1>3, PostType DEF Bad
<1>5. mishaps' \in Nat
  BY DEF Bad, Inv, TypeOK
<1>6. TypeOK'
  BY <1>1, <1>3, <1>4, <1>5 DEF Bad, Inv, TypeOK
<1> QED BY <1>2, <1>6 DEF Inv, Keeps

LEMMA JoinInv ==
  ASSUME Inv, NEW t \in Thread, Join(t)
  PROVE  Inv'
<1>1. /\ phase' \in [Thread -> Phase] /\ phase'[t] = "joined" /\ phase[t] = "init"
      /\ \A u \in Thread : u # t => phase'[u] = phase[u]
  BY GotoType DEF Join, Phase
<1>2. t[1] \notin examples_ /\ examples_' = examples_ \cup {t[1]}
  BY DEF Join
<1>3. TypeOK'
  BY <1>1, <1>2, StationOf DEF Join, Inv, TypeOK, counts
<1>4. RunCounted'
  <2>1. Serving' = Serving
    BY <1>1 DEF Serving
  <2> QED BY <2>1 DEF Join, Inv, RunCounted, counts
<1>5. NotBegun'
  BY <1>1, Begun DEF Join, NotBegun
<1>6. InWarehouse'
  BY <1>1, <1>2 DEF Inv, InWarehouse, Active
<1>7. OneRuns'
  <2>1. \A u \in Thread : u[1] = t[1] => phase[u] \notin Active
    BY <1>2 DEF Inv, InWarehouse
  <2> QED BY <1>1, <2>1 DEF Inv, OneRuns, Active
<1> QED BY <1>3, <1>4, <1>5, <1>6, <1>7 DEF Inv

LEMMA RunInv ==
  ASSUME Inv, NEW t \in Thread, Run(t)
  PROVE  Inv'
<1>1. /\ phase' \in [Thread -> Phase] /\ phase'[t] = "poll" /\ phase[t] = "joined"
      /\ \A u \in Thread : u # t => phase'[u] = phase[u]
  BY GotoType DEF Run, Phase
<1>2. zero_thread_run' \in Nat /\ zero_thread_run' + zero_thread_bad \in Nat
  BY DEF Run, Inv, TypeOK
<1>3. TypeOK'
  <2>1. task_semaphore' \in Nat
    BY <1>2, PostType DEF Run
  <2> QED BY <1>1, <1>2, <2>1 DEF Run, Inv, TypeOK
<1>4. RunCounted'
  <2>1. Serving' = Serving \cup {t} /\ t \notin Serving
    BY <1>1 DEF Serving
  <2>2. Cardinality(Serving') = Cardinality(Serving) + 1
    BY <2>1, ServingFinite, FS_AddElement
  <2> QED BY <2>2 DEF Run, Inv, RunCounted
<1>5. NotBegun'
  BY <1>1, Begun DEF Run, NotBegun
<1>6. InWarehouse'
  BY <1>1 DEF Run, Inv, InWarehouse, Active
<1>7. OneRuns'
  BY <1>1 DEF Inv, OneRuns
<1> QED BY <1>3, <1>4, <1>5, <1>6, <1>7 DEF Inv

(* No other thread of the station is in the warehouse, so the one that      *)
(* leaves takes out its own entry.                                          *)
LEMMA LeftInv ==
  ASSUME Inv, NEW t \in Thread, Left(t)
  PROVE  Inv'
<1>1. /\ phase' \in [Thread -> Phase] /\ phase'[t] = "left" /\ phase[t] = "poll"
      /\ \A u \in Thread : u # t => phase'[u] = phase[u]
  BY GotoType DEF Left, Phase
<1>2. Keeps'
  <2>1. \A u \in Thread : phase'[u] \in Reported <=> phase[u] \in Reported
    BY <1>1 DEF Reported
  <2>2. ASSUME NEW u \in Thread, phase'[u] \in Active
        PROVE  phase[u] \in Active /\ u[1] \in examples_'
    <3>1. u # t /\ phase[u] \in Active
      BY <1>1, <2>2 DEF Active
    <3>2. u[1] # t[1]
      BY <1>1, <3>1 DEF Inv, OneRuns, Active
    <3>3. u[1] \in examples_
      BY <3>1 DEF Inv, InWarehouse
    <3> QED BY <3>1, <3>2, <3>3 DEF Left
  <2>3. main' # "begin" /\ UNCHANGED zero_thread_run
    BY <1>1, Begun DEF Left, counts
  <2> QED BY <2>1, <2>2, <2>3, Quiet
<1>3. mishaps' \in Nat
  BY DEF Left, Inv, TypeOK
<1>4. TypeOK'
  BY <1>1, <1>3 DEF Left, Inv, TypeOK, counts
<1> QED BY <1>2, <1>4 DEF Inv, Keeps

LEMMA AgainInv ==
  ASSUME Inv, NEW t \in Thread, Again(t)
  PROVE  Inv'
<1>1. PICK i \in Slot :
        /\ Free(t[1], i)
        /\ phase' = [phase EXCEPT ![t] = "ending", ![<<t[1], i>>] = "init"]
  BY DEF Again
<1> DEFINE n == <<t[1], i>>
<1>2. n \in Thread /\ phase[n] = "none" /\ phase[t] = "left" /\ n # t
  BY <1>1, StationOf DEF Again, Free, Thread
<1>3. phase' = [phase EXCEPT ![t] = "ending", ![n] = "init"]
  BY <1>1
<1> HIDE DEF n
<1>4. /\ phase' \in [Thread -> Phase] /\ phase'[t] = "ending" /\ phase'[n] = "init"
      /\ \A u \in Thread : u # t /\ u # n => phase'[u] = phase[u]
  BY <1>2, <1>3 DEF Inv, TypeOK, Phase
<1>5. Keeps'
  <2>1. \A u \in Thread : phase'[u] \in Reported <=> phase[u] \in Reported
    BY <1>2, <1>4 DEF Reported
  <2>2. \A u \in Thread : phase'[u] \in Active =>
                             phase[u] \in Active /\ u[1] \in examples_'
    BY <1>2, <1>4 DEF Again, Active, Inv, InWarehouse
  <2>3. main' # "begin" /\ UNCHANGED zero_thread_run
    BY <1>2, Begun DEF Again, counts
  <2> QED BY <2>1, <2>2, <2>3, Quiet
<1>6. TypeOK'
  BY <1>4 DEF Again, Inv, TypeOK, counts
<1> QED BY <1>5, <1>6 DEF Inv, Keeps

LEMMA DoneInv ==
  ASSUME Inv, NEW t \in Thread, Done(t) \/ WaitClose(t)
  PROVE  Inv'
<1>1. PICK p \in {"waiting", "ending"} : Goto(t, p)
  BY DEF Done, WaitClose
<1>2. /\ phase' \in [Thread -> Phase] /\ phase'[t] = p
      /\ \A u \in Thread : u # t => phase'[u] = phase[u]
  BY <1>1, GotoType DEF Phase
<1>3. phase[t] \in {"left", "waiting"}
  BY DEF Done, WaitClose
<1>4. UNCHANGED <<main, counts, examples_>>
  BY DEF Done, WaitClose
<1>5. Keeps'
  <2>1. \A u \in Thread : phase'[u] \in Reported <=> phase[u] \in Reported
    BY <1>2, <1>3 DEF Reported
  <2>2. \A u \in Thread : phase'[u] \in Active =>
                             phase[u] \in Active /\ u[1] \in examples_'
    BY <1>2, <1>4 DEF Active, Inv, InWarehouse
  <2>3. main' # "begin" /\ UNCHANGED zero_thread_run
    BY <1>3, <1>4, Begun DEF counts
  <2> QED BY <2>1, <2>2, <2>3, Quiet
<1>6. close_semaphore' \in Nat
  BY DEF Done, WaitClose, Inv, TypeOK
<1>7. TypeOK'
  BY <1>2, <1>4, <1>6 DEF Done, WaitClose, Inv, TypeOK, counts
<1> QED BY <1>5, <1>7 DEF Inv, Keeps

LEMMA EndInv ==
  ASSUME Inv, NEW t \in Thread, End(t)
  PROVE  Inv'
<1>1. /\ phase' \in [Thread -> Phase] /\ phase'[t] = "none" /\ phase[t] = "ending"
      /\ \A u \in Thread : u # t => phase'[u] = phase[u]
  BY GotoType DEF End, Phase
<1>2. Serving' = Serving \ {t} /\ t \in Serving
  BY <1>1 DEF Serving
<1>3. IsFiniteSet(Serving') /\ Cardinality(Serving') = Cardinality(Serving) - 1
      /\ Cardinality(Serving') \in Nat
  BY <1>2, ServingFinite, FS_RemoveElement, FS_CardinalityType
<1>4. RunCounted'
  BY <1>3 DEF End, Inv, RunCounted
<1>5. zero_thread_run' \in Nat
  BY <1>3, <1>4 DEF RunCounted
<1>6. TypeOK'
  <2>1. task_semaphore' \in Nat
    BY DEF End, Inv, TypeOK
  <2> QED BY <1>1, <1>5, <2>1 DEF End, Inv, TypeOK
<1>7. NotBegun'
  BY <1>1, Begun DEF End, NotBegun
<1>8. InWarehouse'
  BY <1>1 DEF End, Inv, InWarehouse, Active
<1>9. OneRuns'
  BY <1>1 DEF Inv, OneRuns
<1> QED BY <1>4, <1>6, <1>7, <1>8, <1>9 DEF Inv

LEMMA CommandInv ==
  ASSUME Inv, NEW s \in Business, StopStation(s) \/ StartStation(s)
  PROVE  Inv'
<1>1. mishaps' \in Nat /\ main # "begin"
  <2>1. PICK i \in Slot : phase[<<Sys, i>>] = "poll"
    BY DEF StopStation, StartStation, Commanded
  <2>2. <<Sys, i>> \in Thread
    BY DEF Thread, Station
  <2> QED BY <2>1, <2>2, Begun DEF StopStation, StartStation, Commanded, Inv, TypeOK
<1>2. CASE StopStation(s)
  <2>1. Keeps'
    BY <1>1, <1>2, Still DEF StopStation, counts
  <2>2. TypeOK'
    BY <1>1, <1>2 DEF StopStation, Inv, TypeOK, counts
  <2> QED BY <2>1, <2>2 DEF Inv, Keeps
<1>3. CASE StartStation(s)
  <2>1. PICK i \in Slot : /\ Free(s, i)
                          /\ phase' = [phase EXCEPT ![<<s, i>>] = "init"]
    BY <1>3 DEF StartStation
  <2>2. <<s, i>> \in Thread /\ phase[<<s, i>>] = "none"
    BY <2>1 DEF Thread, Station, Free
  <2>3. phase' \in [Thread -> Phase]
    BY <2>1, <2>2 DEF Inv, TypeOK, Phase
  <2>4. Keeps'
    BY <1>1, <1>3, <2>1, <2>2, Launched DEF StartStation, Inv, TypeOK, counts
  <2>5. TypeOK'
    BY <1>1, <1>3, <2>3 DEF StartStation, Inv, TypeOK, counts
  <2> QED BY <2>4, <2>5 DEF Inv, Keeps
<1> QED BY <1>2, <1>3

LEMMA NextInv == Inv /\ [Next]_vars => Inv'
<1> SUFFICES ASSUME Inv, [Next]_vars PROVE Inv'
  OBVIOUS
<1>1. CASE UNCHANGED vars
  BY <1>1 DEF vars, counts, stations, Inv, TypeOK, RunCounted, Serving, NotBegun,
              InWarehouse, OneRuns
<1>2. ASSUME NEW t \in Thread, ThreadNext(t)
      PROVE  Inv'
  BY <1>2, BadInv, JoinInv, RunInv, LeftInv, AgainInv, DoneInv, EndInv DEF ThreadNext
<1> QED BY <1>1, <1>2, MainInv, CommandInv DEF Next

-----------------------------------------------------------------------------
(* zero_thread_run is the number of threads that have reported to run and   *)
(* not to have ended (set_command_thread_run and _end, main/service.cpp),   *)
(* whatever fails, is stopped or is started again.                          *)
THEOREM RunIsCounted == Spec => []RunCounted
<1>1. Inv => RunCounted
  BY DEF Inv
<1> QED BY <1>1, InitInv, NextInv, PTL DEF Spec

(* No two threads of one station are between join and left                  *)
(* (station_warehouse.cpp), although several may be launched.               *)
THEOREM StationRunsOnce == Spec => []OneRuns
<1>1. Inv => OneRuns
  BY DEF Inv
<1> QED BY <1>1, InitInv, NextInv, PTL DEF Spec

(* The counts and both semaphores never go below zero (main/service.cpp),   *)
(* and every thread is where launch can bring it.                           *)
THEOREM ServiceTyped == Spec => []TypeOK
<1>1. Inv => TypeOK
  BY DEF Inv
<1> QED BY <1>1, InitInv, NextInv, PTL DEF Spec

-----------------------------------------------------------------------------
(* What the main thread may take a post of task_semaphore for.  One clause  *)
(* per stage of the start and of the close, as long as every report counts  *)
(* once, that is until a station is launched anew (relaunched).             *)

Pending == {t \in Thread : phase[t] \in {"init", "joined"}}
Early   == main \in {"sys", "plan", "all"}

Alive(s)  == \E t \in Thread :
               t[1] = s /\ phase[t] \in {"init", "joined", "poll", "left"}
InPoll(s) == \E t \in Thread : t[1] = s /\ phase[t] \in {"poll", "left"}

(* The state of the center by the place of the main thread, and how many    *)
(* reports the start counts on: no fewer than the stations not stopped.     *)
Stage ==
  /\ main = "begin"  => net_state = "none" /\ task_semaphore = 0
  /\ Early           => net_state = "runing"
  /\ main = "up"     => net_state \in {"runing", "failed"}
  /\ main = "left"   => net_state = "closing"
  /\ main = "sender" => net_state = "closed"
  /\ main = "exit"   => net_state \in {"distory", "failed"}
  /\ main \in {"begin", "sys", "plan", "all", "up", "left"} => close_semaphore = 0
  /\ main # "begin"  => Cardinality(Station \ stop) <= zero_thread_count

(* A station has one thread.                                                *)
OneEach ==
  \A t, u \in Thread :
    t[1] = u[1] /\ t # u /\ phase[t] # "none" => phase[u] = "none"

(* The two that cannot be stopped do not end while the center runs.         *)
Firm ==
  net_state = "runing" =>
    \A t \in Thread : t[1] \in {Sys, Plan} => phase[t] \notin {"waiting", "ending"}

(* A post during the start says that nobody is still to report: the reports *)
(* made and those to come stay within what the stage waits for.             *)
Reports ==
  /\ Early => /\ task_semaphore \in {0, 1}
              /\ task_semaphore = 1 => Pending = {}
  /\ main = "sys" =>
       /\ zero_thread_run + zero_thread_bad + Cardinality(Pending) <= 1
       /\ \A t \in Thread : phase[t] # "none" => t[1] = Sys
       /\ zero_thread_bad = 0 => Alive(Sys)
  /\ main = "plan" =>
       /\ zero_thread_run + zero_thread_bad + Cardinality(Pending) <= 2
       /\ \A t \in Thread : phase[t] # "none" => t[1] \in {Sys, Plan}
       /\ InPoll(Sys)
       /\ zero_thread_bad = 0 => Alive(Plan)
  /\ main = "all" =>
       /\ zero_thread_run + zero_thread_bad + Cardinality(Pending) <= zero_thread_count
       /\ InPoll(Sys) /\ InPoll(Plan)

(* After the start no thread is to report, and no post is left over.        *)
Served ==
  /\ main \in {"up", "left", "sender", "exit"} => Pending = {}
  /\ main = "up" /\ net_state = "runing" =>
       task_semaphore = 0 /\ InPoll(Sys) /\ InPoll(Plan)

(* The first post of the close is that of the last station but the system   *)
(* dispatcher, which cannot end before the main thread took it.             *)
Closing ==
  /\ main = "left" =>
       /\ \E t \in Thread : t[1] = Sys /\ phase[t] \in {"poll", "left", "waiting"}
       /\ task_semaphore \in {0, 1}
       /\ task_semaphore = 1 => \A t \in Serving : t[1] = Sys
  /\ main = "sender" =>
       /\ \A t \in Serving : t[1] = Sys
       /\ task_semaphore > 0 => Serving = {}
  /\ main = "exit" /\ net_state = "distory" => Serving = {}

Whole    == OneEach /\ Firm /\ Reports /\ Served /\ Closing
StartInv == Stage /\ (relaunched = 0 => Whole)

-----------------------------------------------------------------------------
LEMMA StageInit == Init => StartInv
<1> SUFFICES ASSUME Init PROVE StartInv
  OBVIOUS
<1>1. \A t \in Thread : phase[t] = "none"
  BY DEF Init
<1>2. Stage
  BY DEF Init, Stage, Early
<1>3. OneEach /\ Firm
  BY <1>1 DEF OneEach, Firm
<1>4. Reports /\ Served /\ Closing
  BY DEF Init, Reports, Served, Closing, Early
<1> QED BY <1>2, <1>3, <1>4 DEF StartInv, Whole

LEMMA StageInv == Inv /\ Stage /\ [Next]_vars => Stage'
<1> SUFFICES ASSUME Inv, Stage, [Next]_vars PROVE Stage'
  OBVIOUS
<1>1. ASSUME UNCHANGED <<main, net_state, zero_thread_count, stop>>,
             main # "begin", close_semaphore = 0 => close_semaphore' = 0
      PROVE  Stage'
  BY <1>1 DEF Stage, Early
<1>2. ASSUME NEW t \in Thread, ThreadNext(t)
      PROVE  Stage'
  <2>1. phase[t] # "none"
    BY <1>2 DEF ThreadNext, Bad, Join, Run, Left, Again, Done, WaitClose, End
  <2>2. UNCHANGED <<main, net_state, zero_thread_count, stop>>
    BY <1>2 DEF ThreadNext, Bad, Join, Run, Left, Again, Done, WaitClose, End, counts
  <2>3. close_semaphore = 0 => close_semaphore' = 0
    BY <1>2 DEF ThreadNext, Bad, Join, Run, Left, Again, Done, WaitClose, End
  <2> QED BY <1>1, <2>1, <2>2, <2>3, Begun
<1>3. CASE StartCenter
  <2>1. Cardinality(Station \ stop) \in Nat
    BY StationFinite, FS_Subset, FS_CardinalityType
  <2> QED BY <1>3, <2>1 DEF StartCenter, Stage, Early
<1>4. CASE GiveUp \/ StartPlan \/ Restore \/ Started \/ Signal \/ StationsLeft \/ Distory
  <2>1. UNCHANGED <<zero_thread_count, stop>>
    BY <1>4 DEF GiveUp, StartPlan, Restore, Started, Signal, StationsLeft, Distory,
                counts, stations
  <2> QED BY <1>4, <2>1 DEF GiveUp, StartPlan, Restore, Started, Signal,
              StationsLeft, Distory, Stage, Early, Inv, TypeOK, MainAt
<1>5. ASSUME NEW s \in Business, StopStation(s) \/ StartStation(s)
      PROVE  Stage'
  <2>1. UNCHANGED <<main, net_state, zero_thread_count, close_semaphore>>
    BY <1>5 DEF StopStation, StartStation, counts
  <2>2. main # "begin"
    <3>1. PICK i \in Slot : phase[<<Sys, i>>] = "poll"
      BY <1>5 DEF StopStation, StartStation, Commanded
    <3>2. <<Sys, i>> \in Thread
      BY DEF Thread, Station
    <3> QED BY <3>1, <3>2, Begun
  <2>3. CASE StopStation(s)
    <3>1. Station \ stop' \in SUBSET (Station \ stop)
      BY <2>3 DEF StopStation
    <3>2. IsFiniteSet(Station \ stop) /\ IsFiniteSet(Station \ stop')
      BY StationFinite, FS_Subset
    <3>3. /\ Cardinality(Station \ stop') <= Cardinality(Station \ stop)
          /\ Cardinality(Station \ stop') \in Nat /\ Cardinality(Station \ stop) \in Nat
      BY <3>1, <3>2, FS_Subset, FS_CardinalityType
    <3>4. Cardinality(Station \ stop') <= zero_thread_count
      BY <2>2, <3>3 DEF Stage, Inv, TypeOK
    <3> QED BY <2>1, <2>2, <3>4 DEF Stage, Early
  <2>4. CASE StartStation(s)
    BY <1>1, <2>1, <2>2, <2>4 DEF StartStation
  <2> QED BY <1>5, <2>3, <2>4
<1>6. CASE UNCHANGED vars
  BY <1>6 DEF vars, counts, stations, Stage, Early
<1> QED BY <1>2, <1>3, <1>4, <1>5, <1>6 DEF Next, MainNext

-----------------------------------------------------------------------------
(* Sets of threads.                                                         *)
LEMMA ThreadsFinite ==
  /\ IsFiniteSet(Thread)
  /\ \A S \in SUBSET Thread : IsFiniteSet(S) /\ Cardinality(S) \in Nat
<1>1. IsFiniteSet(Thread)
  BY StationFinite, ServiceAssumption, FS_Product DEF Thread
<1> QED BY <1>1, FS_Subset, FS_CardinalityType

LEMMA AtLeastOne ==
  ASSUME NEW S, IsFiniteSet(S), NEW x \in S
  PROVE  Cardinality(S) \in Nat /\ Cardinality(S) >= 1
BY FS_EmptySet, FS_CardinalityType

LEMMA AtLeastTwo ==
  ASSUME NEW S, IsFiniteSet(S), NEW x \in S, NEW y \in S, x # y
  PROVE  Cardinality(S) \in Nat /\ Cardinality(S) >= 2
<1>1. Cardinality(S \ {x}) = Cardinality(S) - 1 /\ IsFiniteSet(S \ {x})
  BY FS_RemoveElement
<1>2. Cardinality(S \ {x}) \in Nat /\ Cardinality(S \ {x}) >= 1
  BY <1>1, AtLeastOne
<1> QED BY <1>1, <1>2, FS_CardinalityType

(* Whoever is in poll has been counted, and two have been counted twice.    *)
LEMMA PollCounts ==
  ASSUME Inv
  PROVE  /\ InPoll(Sys) => zero_thread_run >= 1
         /\ InPoll(Sys) /\ InPoll(Plan) => zero_thread_run >= 2
<1>1. zero_thread_run = Cardinality(Serving) /\ IsFiniteSet(Serving)
  BY ServingFinite DEF Inv, RunCounted
<1>2. ASSUME InPoll(Sys)
      PROVE  zero_thread_run >= 1
  <2>1. PICK t \in Thread : t[1] = Sys /\ phase[t] \in {"poll", "left"}
    BY <1>2 DEF InPoll
  <2>2. t \in Serving
    BY <2>1 DEF Serving
  <2> QED BY <1>1, <2>2, AtLeastOne
<1>3. ASSUME InPoll(Sys), InPoll(Plan)
      PROVE  zero_thread_run >= 2
  <2>1. PICK t \in Thread : t[1] = Sys /\ phase[t] \in {"poll", "left"}
    BY <1>3 DEF InPoll
  <2>2. PICK u \in Thread : u[1] = Plan /\ phase[u] \in {"poll", "left"}
    BY <1>3 DEF InPoll
  <2>3. t # u /\ t \in Serving /\ u \in Serving
    BY <2>1, <2>2 DEF Sys, Plan, Serving
  <2> QED BY <1>1, <2>3, AtLeastTwo
<1> QED BY <1>2, <1>3

(* A thread takes a step of its own that reports nothing.                   *)
LEMMA Silent ==
  ASSUME Inv, Stage, Whole,
         UNCHANGED <<main, net_state, zero_thread_run, zero_thread_bad,
                     zero_thread_count, task_semaphore>>,
         \A t \in Thread : /\ phase[t] = "none" => phase'[t] = "none"
                           /\ phase'[t] \in {"init", "joined"} <=>
                                phase[t] \in {"init", "joined"}
                           /\ phase'[t] \in Reported <=> phase[t] \in Reported,
         \A t \in Thread : t[1] \in {Sys, Plan} /\ net_state = "runing" =>
                             /\ phase[t] \in {"poll", "left"} =>
                                  phase'[t] \in {"poll", "left"}
                             /\ phase'[t] \notin {"waiting", "ending"},
         \A t \in Thread :
           t[1] = Sys /\ phase[t] \in {"poll", "left", "waiting"} /\ main = "left" =>
             phase'[t] \in {"poll", "left", "waiting"}
  PROVE  Whole'
<1>1. Pending' = Pending
  BY DEF Pending
<1>2. Serving' = Serving
  BY DEF Serving, Reported
<1>3. net_state = "runing" /\ InPoll(Sys) => InPoll(Sys)'
  BY DEF InPoll
<1>4. net_state = "runing" /\ InPoll(Plan) => InPoll(Plan)'
  BY DEF InPoll
<1>5. net_state = "runing" /\ Alive(Sys) => Alive(Sys)'
  BY DEF Alive
<1>6. net_state = "runing" /\ Alive(Plan) => Alive(Plan)'
  BY DEF Alive
<1>7. Early => net_state = "runing"
  BY DEF Stage
<1>8. OneEach' /\ Firm'
  BY DEF Whole, OneEach, Firm
<1>9. Reports'
  BY <1>1, <1>3, <1>4, <1>5, <1>6, <1>7 DEF Whole, Reports, Early
<1>10. Served'
  BY <1>1, <1>3, <1>4 DEF Whole, Served
<1>11. Closing'
  BY <1>2 DEF Whole, Closing
<1> QED BY <1>8, <1>9, <1>10, <1>11 DEF Whole

LEMMA SilentStep ==
  ASSUME Inv, Stage, Whole, NEW t \in Thread,
         Join(t) \/ Left(t) \/ Done(t) \/ WaitClose(t)
  PROVE  Whole'
<1>1. UNCHANGED <<main, net_state, zero_thread_run, zero_thread_bad,
                  zero_thread_count, task_semaphore>>
  BY DEF Join, Left, Done, WaitClose, counts
<1>2. PICK p \in Phase : Goto(t, p) /\ \/ phase[t] = "init" /\ p = "joined"
                                       \/ phase[t] = "poll" /\ p = "left"
                                       \/ phase[t] = "left" /\ p = IF t[1] = Sys THEN "waiting" ELSE "ending"
                                       \/ phase[t] = "waiting" /\ p = "ending"
  BY DEF Join, Left, Done, WaitClose, Phase
<1>3. /\ phase'[t] = p /\ phase[t] # "none"
      /\ \A u \in Thread : u # t => phase'[u] = phase[u]
  BY <1>2, GotoType
<1>4. phase[t] = "left" /\ net_state = "runing" => t[1] \notin {Sys, Plan} \/ p = "left"
  BY <1>2, ServiceAssumption DEF Join, Left, Done, WaitClose, Inv, TypeOK
<1>5. phase[t] = "waiting" => main # "left" /\ (net_state = "runing" => t[1] \notin {Sys, Plan})
  BY DEF Join, Left, Done, WaitClose, Stage, Whole, Firm
<1>6. \A u \in Thread : /\ phase[u] = "none" => phase'[u] = "none"
                        /\ phase'[u] \in {"init", "joined"} <=>
                             phase[u] \in {"init", "joined"}
                        /\ phase'[u] \in Reported <=> phase[u] \in Reported
  BY <1>2, <1>3 DEF Reported
<1>7. \A u \in Thread : u[1] \in {Sys, Plan} /\ net_state = "runing" =>
                          /\ phase[u] \in {"poll", "left"} => phase'[u] \in {"poll", "left"}
                          /\ phase'[u] \notin {"waiting", "ending"}
  BY <1>2, <1>3, <1>4, <1>5 DEF Whole, Firm
<1>8. \A u \in Thread :
        u[1] = Sys /\ phase[u] \in {"poll", "left", "waiting"} /\ main = "left" =>
          phase'[u] \in {"poll", "left", "waiting"}
  BY <1>2, <1>3, <1>5
<1> QED BY <1>1, <1>6, <1>7, <1>8, Silent

-----------------------------------------------------------------------------
(* A report, of either kind: one less is to come.                           *)
LEMMA PendingLess ==
  ASSUME NEW t \in Thread, phase[t] \in {"init", "joined"},
         phase'[t] \notin {"init", "joined"},
         \A u \in Thread : u # t => phase'[u] = phase[u]
  PROVE  /\ t \in Pending /\ Pending' = Pending \ {t}
         /\ Cardinality(Pending') = Cardinality(Pending) - 1
         /\ Cardinality(Pending') \in Nat
         /\ Cardinality(Pending') = 0 => Pending' = {}
<1>1. t \in Pending /\ Pending' = Pending \ {t}
  BY DEF Pending
<1>2. IsFiniteSet(Pending) /\ IsFiniteSet(Pending')
  BY <1>1, ThreadsFinite, FS_RemoveElement DEF Pending
<1> QED BY <1>1, <1>2, FS_RemoveElement, FS_CardinalityType, FS_EmptySet

LEMMA Report ==
  ASSUME Inv, Stage, Whole, NEW t \in Thread, NEW r \in Nat, NEW b \in Nat,
         phase[t] \in {"init", "joined"},
         zero_thread_run' = r, zero_thread_bad' = b,
         r + b = zero_thread_run + zero_thread_bad + 1,
         r >= zero_thread_run, b >= zero_thread_bad,
         phase'[t] = "poll" \/ (phase'[t] = "none" /\ b # 0),
         \A u \in Thread : u # t => phase'[u] = phase[u],
         PostAtStart(r + b),
         UNCHANGED <<main, net_state, zero_thread_count>>
  PROVE  Whole'
<1> DEFINE P == Cardinality(Pending)
           Q == Cardinality(Pending')
<1>1. /\ t \in Pending /\ Q = P - 1 /\ P \in Nat /\ Q \in Nat
      /\ Q = 0 => Pending' = {}
  BY PendingLess, ThreadsFinite DEF Pending
<1>2. Early
  BY <1>1, Begun DEF Early, Whole, Served, Inv, TypeOK, MainAt
<1>3. task_semaphore = 0
  BY <1>1, <1>2 DEF Whole, Reports
<1>4. task_semaphore' = IF r + b <= 2 \/ r + b = zero_thread_count THEN 1 ELSE 0
  BY <1>3 DEF PostAtStart
<1>5. InPoll(Sys) => InPoll(Sys)'
  BY DEF InPoll
<1>6. InPoll(Plan) => InPoll(Plan)'
  BY DEF InPoll
<1>7. /\ b = 0 /\ Alive(Sys) => Alive(Sys)'
      /\ b = 0 /\ Alive(Plan) => Alive(Plan)'
  BY DEF Alive
<1>8. \A u \in Thread : phase'[u] # "none" => phase[u] # "none"
  OBVIOUS
<1>9. /\ zero_thread_run \in Nat /\ zero_thread_bad \in Nat /\ zero_thread_count \in Nat
  BY DEF Inv, TypeOK
<1>10. OneEach' /\ Firm'
  BY <1>8 DEF Whole, OneEach, Firm
<1>11. Served' /\ Closing'
  BY <1>2, <1>3 DEF Early, Served, Closing
<1>12. CASE main = "sys"
  <2>1. zero_thread_run + zero_thread_bad + P <= 1
    BY <1>12 DEF Whole, Reports
  <2> HIDE DEF P, Q
  <2>2. r + b + Q <= 1 /\ Q = 0
    BY <1>1, <1>9, <2>1
  <2>3. b = 0 => zero_thread_bad = 0
    BY <1>9
  <2> QED BY <1>1, <1>4, <1>7, <1>8, <1>10, <1>11, <1>12, <2>2, <2>3
          DEF Whole, Reports, Early, Q
<1>13. CASE main = "plan"
  <2>1. zero_thread_run + zero_thread_bad + P <= 2 /\ zero_thread_run >= 1
    BY <1>13, PollCounts DEF Whole, Reports
  <2> HIDE DEF P, Q
  <2>2. r + b + Q <= 2 /\ Q = 0
    BY <1>1, <1>9, <2>1
  <2>3. b = 0 => zero_thread_bad = 0
    BY <1>9
  <2> QED BY <1>1, <1>4, <1>5, <1>7, <1>8, <1>10, <1>11, <1>13, <2>2, <2>3
          DEF Whole, Reports, Early, Q
<1>14. CASE main = "all"
  <2>1. zero_thread_run + zero_thread_bad + P <= zero_thread_count /\ zero_thread_run >= 2
    BY <1>14, PollCounts DEF Whole, Reports
  <2> HIDE DEF P, Q
  <2>2. r + b + Q <= zero_thread_count /\ r + b >= 3
    BY <1>1, <1>9, <2>1
  <2>3. r + b = zero_thread_count => Q = 0
    BY <1>1, <1>9, <2>2
  <2>4. task_semaphore' \in {0, 1} /\ (task_semaphore' = 1 => Pending' = {})
    BY <1>1, <1>4, <2>2, <2>3
  <2> QED BY <1>5, <1>6, <1>10, <1>11, <1>14, <2>2, <2>4
          DEF Whole, Reports, Early, Q
<1> QED BY <1>2, <1>12, <1>13, <1>14 DEF Early

LEMMA ReportStep ==
  ASSUME Inv, Stage, Whole, NEW t \in Thread, Bad(t) \/ Run(t)
  PROVE  Whole'
<1>2. zero_thread_run \in Nat /\ zero_thread_bad \in Nat
  BY DEF Inv, TypeOK
<1>3. CASE Bad(t)
  <2>1. /\ phase'[t] = "none" /\ phase[t] = "init"
        /\ \A u \in Thread : u # t => phase'[u] = phase[u]
    BY <1>3, GotoType DEF Bad, Phase
  <2> DEFINE b == zero_thread_bad + 1
  <2>2. /\ b \in Nat /\ b # 0 /\ b >= zero_thread_bad
        /\ zero_thread_run + b = zero_thread_run + zero_thread_bad + 1
    BY <1>2
  <2>3. /\ zero_thread_run' = zero_thread_run /\ zero_thread_bad' = b
        /\ PostAtStart(zero_thread_run + b)
        /\ UNCHANGED <<main, net_state, zero_thread_count>>
    BY <1>3 DEF Bad
  <2> HIDE DEF b
  <2> QED BY <1>2, <2>1, <2>2, <2>3, Report
<1>4. CASE Run(t)
  <2>1. /\ phase'[t] = "poll" /\ phase[t] = "joined"
        /\ \A u \in Thread : u # t => phase'[u] = phase[u]
    BY <1>4, GotoType DEF Run, Phase
  <2> DEFINE r == zero_thread_run + 1
  <2>2. /\ r \in Nat /\ r >= zero_thread_run
        /\ r + zero_thread_bad = zero_thread_run + zero_thread_bad + 1
    BY <1>2
  <2>3. /\ zero_thread_run' = r /\ zero_thread_bad' = zero_thread_bad
        /\ PostAtStart(r + zero_thread_bad)
        /\ UNCHANGED <<main, net_state, zero_thread_count>>
    BY <1>4 DEF Run
  <2> HIDE DEF r
  <2> QED BY <1>2, <2>1, <2>2, <2>3, Report
<1> QED BY <1>3, <1>4

-----------------------------------------------------------------------------
(* The report of an end.                                                    *)
LEMMA EndStep ==
  ASSUME Inv, Stage, Whole, NEW t \in Thread, End(t)
  PROVE  Whole'
<1>1. /\ phase'[t] = "none" /\ phase[t] = "ending" /\ t \in Serving
      /\ \A u \in Thread : u # t => phase'[u] = phase[u]
  BY GotoType DEF End, Phase, Serving
<1>2. Inv'
  BY EndInv
<1>3. /\ Serving' = Serving \ {t} /\ Pending' = Pending
      /\ zero_thread_run' = Cardinality(Serving')
  BY <1>1, <1>2 DEF Serving, Pending, Inv, RunCounted
<1>4. UNCHANGED <<main, net_state, zero_thread_bad, zero_thread_count>>
  BY DEF End
<1>5. zero_thread_run' = zero_thread_run - 1
      /\ task_semaphore' = IF zero_thread_run' <= 1 THEN task_semaphore + 1
                           ELSE task_semaphore
  BY DEF End
<1>6. /\ zero_thread_run \in Nat /\ zero_thread_bad \in Nat /\ zero_thread_count \in Nat
      /\ zero_thread_run' \in Nat /\ task_semaphore \in Nat
  BY <1>2 DEF Inv, TypeOK
<1>7. OneEach' /\ Firm'
  BY <1>1, <1>4 DEF Whole, OneEach, Firm
<1>8. CASE net_state = "runing"
  <2>1. t[1] \notin {Sys, Plan}
    BY <1>1, <1>8 DEF Whole, Firm
  <2>2. (InPoll(Sys) => InPoll(Sys)') /\ (InPoll(Plan) => InPoll(Plan)')
    BY <1>1 DEF InPoll
  <2>3. main \notin {"sys", "plan"}
    BY <1>1, <2>1 DEF Whole, Reports
  <2>4. main \in {"all", "up"}
    BY <1>1, <1>8, <2>3, Begun DEF Stage, Inv, TypeOK, MainAt
  <2>5. InPoll(Sys) /\ InPoll(Plan)
    BY <1>8, <2>4 DEF Whole, Reports, Served
  <2>6. zero_thread_run' >= 2
    <3>1. PICK u \in Thread : u[1] = Sys /\ phase[u] \in {"poll", "left"}
      BY <2>5 DEF InPoll
    <3>2. PICK v \in Thread : v[1] = Plan /\ phase[v] \in {"poll", "left"}
      BY <2>5 DEF InPoll
    <3>3. u # v /\ u \in Serving' /\ v \in Serving'
      BY <1>1, <3>1, <3>2 DEF Sys, Plan, Serving
    <3>4. IsFiniteSet(Serving')
      BY <1>3, ServingFinite, FS_RemoveElement
    <3> QED BY <1>3, <3>3, <3>4, AtLeastTwo
  <2>7. UNCHANGED task_semaphore
    BY <1>5, <1>6, <2>6
  <2>8. Reports'
    <3>1. Cardinality(Pending) \in Nat
      BY ThreadsFinite DEF Pending
    <3>2. main = "all" => zero_thread_run' + zero_thread_bad + Cardinality(Pending) <= zero_thread_count
      BY <1>5, <1>6, <3>1 DEF Whole, Reports
    <3> QED BY <1>3, <1>4, <2>2, <2>3, <2>5, <2>7, <3>2 DEF Whole, Reports, Early
  <2>9. Served' /\ Closing'
    BY <1>3, <1>4, <2>2, <2>4, <2>7 DEF Whole, Served, Closing
  <2> QED BY <1>7, <2>8, <2>9 DEF Whole
<1>9. CASE net_state # "runing"
  <2>1. main \in {"up", "left", "sender", "exit"}
    BY <1>1, <1>9, Begun DEF Stage, Early, Inv, TypeOK, MainAt
  <2>2. Reports' /\ Served'
    BY <1>3, <1>4, <1>9, <2>1 DEF Whole, Reports, Early, Served
  <2>3. CASE main = "left"
    <3>1. PICK u \in Thread : u[1] = Sys /\ phase[u] \in {"poll", "left", "waiting"}
      BY <2>3 DEF Whole, Closing
    <3>2. u # t /\ t[1] # Sys /\ u \in Serving'
      BY <1>1, <1>3, <3>1 DEF Whole, OneEach, Serving
    <3>3. task_semaphore = 0
      BY <1>1, <2>3, <3>2 DEF Whole, Closing
    <3>4. task_semaphore' = 1 => \A v \in Serving' : v[1] = Sys
      <4>1. SUFFICES ASSUME zero_thread_run' <= 1, NEW v \in Serving'
                     PROVE  v[1] = Sys
        BY <1>5, <3>3
      <4>2. IsFiniteSet(Serving') /\ IsFiniteSet(Serving' \ {u})
        BY <1>3, ServingFinite, FS_RemoveElement
      <4>3. Cardinality(Serving' \ {u}) = Cardinality(Serving') - 1
            /\ Cardinality(Serving' \ {u}) \in Nat
        BY <3>2, <4>2, FS_RemoveElement, FS_CardinalityType
      <4>4. Cardinality(Serving' \ {u}) = 0
        BY <1>3, <1>6, <4>1, <4>3
      <4>5. Serving' \ {u} = {}
        BY <4>2, <4>4, FS_EmptySet
      <4>6. v = u
        BY <4>5
      <4> QED BY <3>1, <4>6
    <3>5. phase'[u] \in {"poll", "left", "waiting"}
      BY <1>1, <3>1, <3>2
    <3>6. task_semaphore' \in {0, 1}
      BY <1>5, <3>3
    <3>7. Closing'
      BY <1>4, <2>3, <3>1, <3>4, <3>5, <3>6 DEF Closing
    <3> QED BY <1>7, <2>2, <3>7 DEF Whole
  <2>4. CASE main = "sender"
    <3>1. ASSUME NEW u \in Serving PROVE u = t
      <4>1. u \in Thread /\ u[1] = Sys /\ t[1] = Sys /\ phase[u] # "none"
        BY <1>1, <2>4 DEF Whole, Closing, Serving
      <4> QED BY <1>1, <4>1 DEF Whole, OneEach
    <3>2. Serving' = {}
      BY <1>3, <3>1
    <3> QED BY <1>4, <1>7, <2>2, <2>4, <3>2 DEF Whole, Closing
  <2>5. CASE main \in {"up", "exit"}
    <3>1. Closing'
      BY <1>3, <1>4, <2>5 DEF Whole, Closing
    <3> QED BY <1>7, <2>2, <3>1 DEF Whole
  <2> QED BY <2>1, <2>3, <2>4, <2>5
<1> QED BY <1>8, <1>9

-----------------------------------------------------------------------------
(* The main thread.                                                         *)
LEMMA StartCenterStep ==
  ASSUME Inv, Stage, StartCenter
  PROVE  Whole'
<1>1. \A t \in Thread : phase[t] = "none"
  BY DEF StartCenter, Inv, NotBegun
<1>2. <<Sys, 1>> \in Thread
  BY FirstSlot DEF Station
<1>3. /\ phase'[<<Sys, 1>>] = "init"
      /\ \A t \in Thread : t # <<Sys, 1>> => phase'[t] = "none"
  BY <1>1, <1>2 DEF StartCenter, Inv, TypeOK
<1>4. Pending' = {<<Sys, 1>>}
  BY <1>2, <1>3 DEF Pending
<1>5. Cardinality(Pending') = 1
  BY <1>4, FS_Singleton
<1>6. OneEach' /\ Firm'
  BY <1>3 DEF OneEach, Firm
<1>7. \A t \in Thread : phase'[t] # "none" => t[1] = Sys
  BY <1>3
<1>8. Alive(Sys)'
  BY <1>2, <1>3 DEF Alive
<1>9. Reports'
  BY <1>5, <1>7, <1>8 DEF StartCenter, Stage, Reports, Early
<1>10. Served' /\ Closing'
  BY DEF StartCenter, Served, Closing
<1> QED BY <1>6, <1>9, <1>10 DEF Whole

(* The posts that end a stage of the start: nobody is still to report.      *)
LEMMA Posted ==
  ASSUME Inv, Whole, Early, Wait
  PROVE  task_semaphore = 1 /\ task_semaphore' = 0 /\ Pending = {}
BY DEF Whole, Reports, Wait

LEMMA StartPlanStep ==
  ASSUME Inv, Stage, Whole, StartPlan
  PROVE  Whole'
<1>1. main = "sys" /\ main' = "plan" /\ UNCHANGED <<net_state, counts>>
      /\ task_semaphore' = 0 /\ Pending = {}
  BY Posted DEF StartPlan, Early
<1>2. PICK i \in Slot : /\ Free(Plan, i)
                        /\ phase' = [phase EXCEPT ![<<Plan, i>>] = "init"]
  BY DEF StartPlan
<1> DEFINE n == <<Plan, i>>
<1>3. n \in Thread /\ n[1] = Plan /\ phase[n] = "none"
      /\ phase' = [phase EXCEPT ![n] = "init"]
  BY <1>2 DEF Thread, Station, Free
<1> HIDE DEF n
<1>4. /\ phase'[n] = "init"
      /\ \A t \in Thread : t # n => phase'[t] = phase[t]
  BY <1>3 DEF Inv, TypeOK
<1>5. zero_thread_run \in Nat /\ zero_thread_bad \in Nat
  BY DEF Inv, TypeOK
<1>6. zero_thread_run + zero_thread_bad <= 1
  <2>1. Cardinality(Pending) \in Nat
    BY ThreadsFinite DEF Pending
  <2> QED BY <1>1, <1>5, <2>1 DEF Whole, Reports
<1>7. zero_thread_bad = 0
  BY <1>5, <1>6 DEF StartPlan
<1>8. InPoll(Sys)
  BY <1>1, <1>7 DEF Whole, Reports, Alive, InPoll, Pending
<1>9. InPoll(Sys)'
  BY <1>3, <1>4, <1>8 DEF InPoll
<1>10. Pending' = {n}
  BY <1>1, <1>3, <1>4 DEF Pending
<1>11. Cardinality(Pending') = 1
  BY <1>10, FS_Singleton
<1>12. zero_thread_run' + zero_thread_bad' + Cardinality(Pending') <= 2
  BY <1>1, <1>5, <1>6, <1>11 DEF counts
<1>13. \A t \in Thread : phase[t] # "none" => t[1] = Sys
  BY <1>1 DEF Whole, Reports
<1>14. \A t \in Thread : phase'[t] # "none" => t[1] \in {Sys, Plan}
  BY <1>3, <1>4, <1>13
<1>15. Alive(Plan)'
  BY <1>3, <1>4 DEF Alive
<1>16. OneEach'
  <2>1. \A t \in Thread : t[1] = Plan => phase[t] = "none"
    BY <1>13 DEF Sys, Plan
  <2> QED BY <1>3, <1>4, <2>1 DEF Whole, OneEach
<1>17. Firm'
  BY <1>1, <1>4 DEF Whole, Firm
<1>18. Reports'
  BY <1>1, <1>9, <1>12, <1>14, <1>15 DEF Reports, Early
<1>19. Served' /\ Closing'
  BY <1>1 DEF Served, Closing
<1> QED BY <1>16, <1>17, <1>18, <1>19 DEF Whole

(* restore() launches no more than the stations that are not stopped.       *)
LEMMA LaunchCount ==
  ASSUME NEW P \in SUBSET Thread, NEW B \in SUBSET Business,
         \A t \in P : t[1] \in B,
         \A t, u \in P : t[1] = u[1] => t = u
  PROVE  /\ Cardinality(P) <= Cardinality(B)
         /\ Cardinality(P) \in Nat /\ Cardinality(B) \in Nat
<1> DEFINE g == [t \in P |-> t[1]]
<1>1. g \in Injection(P, B)
  BY DEF Injection, IsInjective
<1>2. IsFiniteSet(B)
  BY ServiceAssumption, FS_Subset
<1> QED BY <1>1, <1>2, FS_Injection, FS_CardinalityType

(* Beside those there are the two dispatchers.                              *)
LEMMA TwoMore ==
  ASSUME NEW S \in SUBSET Business
  PROVE  /\ Cardinality(Business \ S) + 2 = Cardinality(Station \ S)
         /\ Cardinality(Business \ S) \in Nat
<1> DEFINE B == Business \ S
<1>1. IsFiniteSet(B) /\ Cardinality(B) \in Nat
  BY ServiceAssumption, FS_Subset, FS_CardinalityType
<1>2. Sys \notin B /\ Plan \notin B /\ Sys # Plan
  BY ServiceAssumption DEF Sys, Plan
<1>3. IsFiniteSet(B \cup {Sys}) /\ Cardinality(B \cup {Sys}) = Cardinality(B) + 1
  BY <1>1, <1>2, FS_AddElement
<1>4. Cardinality((B \cup {Sys}) \cup {Plan}) = Cardinality(B) + 1 + 1
  BY <1>2, <1>3, FS_AddElement
<1>5. Station \ S = (B \cup {Sys}) \cup {Plan}
  BY ServiceAssumption DEF Station
<1>6. Cardinality(Station \ S) = Cardinality(B) + 1 + 1
  BY <1>4, <1>5
<1> QED BY <1>1, <1>6

LEMMA RestoreStep ==
  ASSUME Inv, Stage, Whole, Restore
  PROVE  Whole'
<1> DEFINE B == Business \ stop
<1>1. /\ main = "plan" /\ main' = "all" /\ UNCHANGED <<net_state, counts>>
      /\ task_semaphore' = 0 /\ Pending = {}
  BY Posted DEF Restore, Early
<1>2. /\ zero_thread_run \in Nat /\ zero_thread_bad \in Nat /\ zero_thread_count \in Nat
      /\ stop \in SUBSET Business
  BY DEF Inv, TypeOK
<1>3. zero_thread_run + zero_thread_bad <= 2 /\ zero_thread_run >= 1
  <2>1. Cardinality(Pending) \in Nat
    BY ThreadsFinite DEF Pending
  <2> QED BY <1>1, <1>2, <2>1, PollCounts DEF Whole, Reports
<1>4. zero_thread_bad = 0
  BY <1>2, <1>3 DEF Restore
<1>5. InPoll(Sys) /\ InPoll(Plan)
  BY <1>1, <1>4 DEF Whole, Reports, Alive, InPoll, Pending
<1>6. ASSUME NEW t \in Thread
      PROVE  \/ phase'[t] = phase[t] /\ phase[t] \notin {"init", "joined"}
             \/ /\ phase[t] = "none" /\ phase'[t] = "init"
                /\ t[1] \in B /\ Free(t[1], t[2])
  <2>1. phase'[t] = IF t[1] \in Business \ (Vote \cup stop) /\ Free(t[1], t[2])
                    THEN "init" ELSE phase[t]
    BY DEF Restore
  <2>2. phase[t] \notin {"init", "joined"}
    BY <1>1 DEF Pending
  <2>3. Free(t[1], t[2]) => phase[t] = "none"
    BY StationOf DEF Free
  <2> QED BY <2>1, <2>2, <2>3
<1>7. \A t \in Pending' : /\ t \in Thread /\ t[1] \in B /\ Free(t[1], t[2])
                          /\ phase[t] = "none" /\ phase'[t] = "init"
  BY <1>6 DEF Pending
<1>8. ASSUME NEW t \in Thread, NEW u \in Thread, t[1] = u[1],
             Free(t[1], t[2]), Free(u[1], u[2])
      PROVE  t = u
  <2>1. t[2] \in Nat /\ u[2] \in Nat /\ t = <<t[1], t[2]>> /\ u = <<u[1], u[2]>>
        /\ t[2] \in Slot /\ u[2] \in Slot
    BY StationOf, ServiceAssumption
  <2>2. ~(t[2] < u[2]) /\ ~(u[2] < t[2])
    BY <1>8, <2>1 DEF Free
  <2>3. t[2] = u[2]
    BY <2>1, <2>2
  <2> QED BY <1>8, <2>1, <2>3
<1>9. zero_thread_run' + zero_thread_bad' + Cardinality(Pending') <= zero_thread_count
  <2>1. Pending' \in SUBSET Thread /\ B \in SUBSET Business
    BY DEF Pending
  <2>2. \A t, u \in Pending' : t[1] = u[1] => t = u
    BY <1>7, <1>8
  <2>3. /\ Cardinality(Pending') <= Cardinality(B)
        /\ Cardinality(Pending') \in Nat /\ Cardinality(B) \in Nat
    BY <1>7, <2>1, <2>2, LaunchCount
  <2>4. Cardinality(B) + 2 = Cardinality(Station \ stop)
    BY <1>2, TwoMore
  <2>5. Cardinality(Station \ stop) <= zero_thread_count
    BY <1>1 DEF Stage
  <2>6. Cardinality(B) + 2 <= zero_thread_count
    BY <2>4, <2>5
  <2> HIDE DEF B
  <2>7. zero_thread_run + zero_thread_bad + Cardinality(Pending') <= zero_thread_count
    BY <1>2, <1>3, <2>3, <2>6
  <2> QED BY <1>1, <2>7 DEF counts
<1>10. InPoll(Sys)' /\ InPoll(Plan)'
  <2>1. \A t \in Thread : phase[t] \in {"poll", "left"} => phase'[t] = phase[t]
    BY <1>6
  <2> QED BY <1>5, <2>1 DEF InPoll
<1>11. OneEach'
  <2>1. \A t \in Thread : t[1] \in B => phase[t] = "none"
    BY <1>1, ServiceAssumption DEF Whole, Reports
  <2>2. SUFFICES ASSUME NEW t \in Thread, NEW u \in Thread, t[1] = u[1], t # u,
                        phase'[t] # "none", phase'[u] # "none"
                 PROVE  FALSE
    BY DEF OneEach
  <2>3. CASE t[1] \in B
    BY <1>6, <1>8, <2>1, <2>2, <2>3
  <2>4. CASE t[1] \notin B
    BY <1>6, <2>2, <2>4 DEF Whole, OneEach
  <2> QED BY <2>3, <2>4
<1>12. Firm'
  BY <1>1, <1>6 DEF Whole, Firm
<1>13. Reports'
  BY <1>1, <1>9, <1>10 DEF Reports, Early, counts
<1>14. Served' /\ Closing'
  BY <1>1 DEF Served, Closing
<1> QED BY <1>11, <1>12, <1>13, <1>14 DEF Whole

LEMMA OtherMainStep ==
  ASSUME Inv, Stage, Whole,
         GiveUp \/ Started \/ Signal \/ StationsLeft \/ Distory
  PROVE  Whole'
<1>1. UNCHANGED <<phase, counts>>
  BY DEF GiveUp, Started, Signal, StationsLeft, Distory, stations
<1>2. Pending' = Pending /\ Serving' = Serving /\ OneEach'
      /\ (InPoll(Sys) => InPoll(Sys)') /\ (InPoll(Plan) => InPoll(Plan)')
  BY <1>1 DEF Pending, Serving, Whole, OneEach, InPoll
<1>3. Firm'
  BY <1>1 DEF GiveUp, Started, Signal, StationsLeft, Distory, Whole, Firm
<1>4. CASE GiveUp
  BY <1>2, <1>3, <1>4, Posted DEF GiveUp, Early, Whole, Reports, Served, Closing
<1>5. CASE Started
  <2>1. task_semaphore' = 0 /\ Pending = {}
    BY <1>5, Posted DEF Started, Early
  <2>2. InPoll(Sys) /\ InPoll(Plan)
    BY <1>5 DEF Started, Whole, Reports
  <2> QED BY <1>2, <1>3, <1>5, <2>1, <2>2 DEF Started, Early, Whole, Reports, Served, Closing
<1>6. CASE Signal
  <2>1. CASE net_state = "runing"
    <3>1. task_semaphore = 0 /\ \E t \in Thread : t[1] = Sys /\ phase[t] \in {"poll", "left", "waiting"}
      BY <1>6, <2>1 DEF Signal, Whole, Served, InPoll
    <3>2. Closing'
      BY <1>1, <1>6, <2>1, <3>1 DEF Signal, Closing
    <3> QED BY <1>2, <1>3, <1>6, <2>1, <3>2 DEF Signal, Early, Whole, Reports, Served
  <2>2. CASE net_state # "runing"
    <3>1. net_state' = "failed"
      BY <1>6, <2>2 DEF Signal, Stage
    <3> QED BY <1>2, <1>3, <1>6, <2>2, <3>1 DEF Signal, Early, Whole, Reports, Served, Closing
  <2> QED BY <2>1, <2>2
<1>7. CASE StationsLeft
  <2>1. task_semaphore' = 0 /\ \A t \in Serving : t[1] = Sys
    BY <1>7 DEF StationsLeft, Wait, Whole, Closing
  <2> QED BY <1>2, <1>3, <1>7, <2>1 DEF StationsLeft, Early, Whole, Reports, Served, Closing
<1>8. CASE Distory
  <2>1. Serving = {}
    BY <1>8 DEF Distory, Wait, Whole, Closing
  <2> QED BY <1>2, <1>3, <1>8, <2>1 DEF Distory, Early, Whole, Reports, Served, Closing
<1> QED BY <1>4, <1>5, <1>6, <1>7, <1>8

LEMMA StartNext == Inv /\ StartInv /\ [Next]_vars => StartInv'
<1> SUFFICES ASSUME Inv, StartInv, [Next]_vars PROVE StartInv'
  OBVIOUS
<1>1. Stage /\ Stage'
  BY StageInv DEF StartInv
<1>2. relaunched \in Nat
  BY DEF Inv, TypeOK
<1>3. ASSUME UNCHANGED <<main, net_state, counts, task_semaphore, phase>>, Whole
      PROVE  Whole'
  BY <1>3 DEF counts, Whole, OneEach, Firm, Reports, Served, Closing, Early, Pending,
              Serving, InPoll, Alive
<1>4. ASSUME NEW t \in Thread, ThreadNext(t), relaunched' = 0
      PROVE  Whole'
  <2>1. ~Again(t)
    BY <1>2, <1>4 DEF Again
  <2>2. relaunched = 0
    BY <1>4, <2>1 DEF ThreadNext, Bad, Join, Run, Left, Done, WaitClose, End
  <2>3. Whole
    BY <2>2 DEF StartInv
  <2> QED BY <1>1, <1>4, <2>1, <2>3, ReportStep, SilentStep, EndStep DEF ThreadNext
<1>5. ASSUME MainNext \/ Signal, relaunched' = 0
      PROVE  Whole'
  <2>1. relaunched = 0
    BY <1>5 DEF MainNext, StartCenter, GiveUp, StartPlan, Restore, Started, Signal,
                StationsLeft, Distory
  <2>2. Whole
    BY <2>1 DEF StartInv
  <2> QED BY <1>1, <1>5, <2>2, StartCenterStep, StartPlanStep, RestoreStep, OtherMainStep
          DEF MainNext
<1>6. ASSUME NEW s \in Business, StopStation(s) \/ StartStation(s), relaunched' = 0
      PROVE  Whole'
  <2>1. ~StartStation(s)
    BY <1>2, <1>6 DEF StartStation
  <2>2. relaunched = 0 /\ UNCHANGED <<main, net_state, counts, task_semaphore, phase>>
    BY <1>6, <2>1 DEF StopStation
  <2> QED BY <1>3, <2>2 DEF StartInv
<1>7. CASE UNCHANGED vars
  BY <1>1, <1>3, <1>7 DEF StartInv, vars, stations
<1> QED BY <1>1, <1>4, <1>5, <1>6, <1>7 DEF Next, StartInv

-----------------------------------------------------------------------------
(* The center says that all stations are in service only when none of those *)
(* it launched is still to report (start_zero_center and                    *)
(* check_semaphore_start, main/service.cpp), whatever fails meanwhile and   *)
(* whatever is stopped: only a station that is launched again can have its  *)
(* report taken for another's.                                              *)
THEOREM StartIsWaitedFor == Spec => []StartWaits
<1>1. StartInv => StartWaits
  BY DEF StartInv, Whole, Served, Pending, StartWaits
<1> QED BY <1>1, InitInv, NextInv, StageInit, StartNext, PTL DEF Spec

(* It says that it is closed when none but the system dispatcher is left,   *)
(* and shuts ZeroMQ down when none is (close_net_command,                   *)
(* set_command_thread_end, main/service.cpp), with the same exception.      *)
THEOREM CloseIsWaitedFor == Spec => []CloseWaits
<1>1. Inv /\ StartInv => CloseWaits
  <2> SUFFICES ASSUME Inv, StartInv, relaunched = 0
               PROVE  /\ net_state = "closed" => \A t \in Serving : t[1] = Sys
                      /\ net_state = "distory" => Serving = {}
    BY DEF CloseWaits
  <2>1. Closing /\ Stage /\ main \in MainAt
    BY DEF StartInv, Whole, Inv, TypeOK
  <2>2. net_state = "closed" => main = "sender"
    BY <2>1 DEF Stage, Early, MainAt
  <2>3. net_state = "distory" => main = "exit"
    BY <2>1 DEF Stage, Early, MainAt
  <2> QED BY <2>1, <2>2, <2>3 DEF Closing
<1> QED BY <1>1, InitInv, NextInv, StageInit, StartNext, PTL DEF Spec
=============================================================================
