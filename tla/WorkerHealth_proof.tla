------------------------ MODULE WorkerHealth_proof ------------------------
(***************************************************************************)
(* Proofs about the worker count, for every finite set of workers and every *)
(* check interval:                                                          *)
(*                                                                          *)
(*   ReadyIsCounted    Spec => []ReadyCounted                               *)
(*   ServedByLive      Spec => []SendsToLive                                *)
(*   SilentAreGone     Spec => []SilentIsForgotten                          *)
(*   HealthTyped       Spec => []TypeOK                                     *)
(*   ReadyOnItsWord    Spec => ReadyByItsWord                               *)
(*                                                                          *)
(* SendsToLive is not inductive: it says something of one ready worker      *)
(* only.  Fresh is: it bounds the silence of every ready worker by the age  *)
(* of the last check, and the silence of every worker likewise.             *)
(* ReadyByItsWord is about steps and needs OutIsSilent: who is out of       *)
(* contact at a check is still silent there, so that worker::check, which   *)
(* would make it ready, takes that back.                                    *)
(***************************************************************************)
EXTENDS WorkerHealth, FiniteSetTheorems, TLAPS

Ready == {w \in Worker : IsReady(w)}

Fresh == \A w \in Worker :
           /\ IsReady(w) => workers[w].silence <= 10 + since
           /\ Known(w)   => workers[w].silence <= 60 + since

Inv == TypeOK /\ ReadyCounted /\ Fresh

-----------------------------------------------------------------------------
(* The entries of the map.                                                  *)

LEMMA KnownType ==
  ASSUME TypeOK, NEW w \in Worker
  PROVE  /\ Known(w) => workers[w] \in Health
         /\ Known(w) => workers[w].silence \in Nat
         /\ ~Known(w) => workers[w] = Unknown
BY DEF TypeOK, Known, Health

(* A record of health is never Unknown.                                     *)
LEMMA HealthIsKnown ==
  ASSUME NEW h \in Health
  PROVE  h # Unknown
BY DEF Health, Unknown

LEMMA NewHealth ==
  ASSUME NEW s \in Nat, NEW l \in {-1, 0, 1, 2, 3, 4, 5}, NEW st \in WorkerState
  PROVE  LET h == [silence |-> s, level |-> l, state |-> st]
         IN  h \in Health /\ h.silence = s /\ h.state = st
BY DEF Health

(* worker::check keeps the silence, and leaves nobody ready who was silent  *)
(* for more than ten seconds.                                               *)
LEMMA SeenType ==
  ASSUME NEW h \in Health
  PROVE  \/ Seen(h) = Unknown
         \/ /\ Seen(h) \in Health /\ Seen(h).silence = h.silence
            /\ h.silence <= 60
            /\ Seen(h).state = 1 => h.silence <= 10
<1> DEFINE t == h.silence
           l == LevelOf(t)
           s == StateOf(h)
<1>1. t \in Nat /\ h.state \in WorkerState
  BY DEF Health
<1>2. l \in {-1, 0, 1, 2, 3, 4, 5} /\ (l >= 0 => t <= 60)
  BY <1>1 DEF LevelOf
<1>3. s \in WorkerState /\ (s = 1 => t <= 10)
  BY <1>1 DEF StateOf, WorkerState
<1>4. Seen(h) = IF l < 0 THEN Unknown
                ELSE [silence |-> t, level |-> l, state |-> s]
  BY DEF Seen
<1> HIDE DEF t, l, s
<1>5. CASE l < 0
  BY <1>4, <1>5
<1>6. CASE ~(l < 0)
  <2>1. Seen(h) \in Health /\ Seen(h).silence = t /\ Seen(h).state = s
    BY <1>1, <1>2, <1>3, <1>4, <1>6, NewHealth
  <2> QED BY <1>2, <1>3, <1>6, <2>1 DEF t
<1> QED BY <1>5, <1>6

LEMMA OlderType ==
  ASSUME NEW h \in Health
  PROVE  /\ Older(h) \in Health /\ Older(h).silence = h.silence + 1
         /\ Older(h).state = h.state
<1>1. h.silence + 1 \in Nat /\ h.state \in WorkerState
      /\ h.level \in {-1, 0, 1, 2, 3, 4, 5}
  BY DEF Health
<1> QED BY <1>1, NewHealth DEF Older

LEMMA ReadyFinite == IsFiniteSet(Ready) /\ Cardinality(Ready) \in Nat
BY WorkerAssumption, FS_Subset, FS_CardinalityType DEF Ready

-----------------------------------------------------------------------------
(* One message of a worker: its entry changes, the others stay.             *)
LEMMA OneWorker ==
  ASSUME Inv, NEW w \in Worker, NEW h \in Health \cup {Unknown},
         workers' = [workers EXCEPT ![w] = h], UNCHANGED since,
         h # Unknown => h.silence = 0,
         ready_works_' = IF h # Unknown /\ h.state = 1
                         THEN IF IsReady(w) THEN ready_works_ ELSE ready_works_ + 1
                         ELSE IF IsReady(w) THEN ready_works_ - 1 ELSE ready_works_
  PROVE  Inv'
<1>1. /\ workers \in [Worker -> Health \cup {Unknown}] /\ ready_works_ \in Nat
      /\ since \in Nat /\ CheckInterval \in Nat /\ since \in 0..CheckInterval
  BY WorkerAssumption DEF Inv, TypeOK
<1>2. /\ workers'[w] = h
      /\ \A v \in Worker \ {w} : workers'[v] = workers[v]
  BY <1>1
<1>3. /\ IsReady(w)' <=> (h # Unknown /\ h.state = 1)
      /\ \A v \in Worker \ {w} : IsReady(v)' <=> IsReady(v)
      /\ \A v \in Worker \ {w} : Known(v)' <=> Known(v)
  BY <1>2 DEF IsReady, Known
<1>4. ReadyCounted'
  <2>1. Ready' = IF h # Unknown /\ h.state = 1 THEN Ready \cup {w} ELSE Ready \ {w}
    BY <1>3 DEF Ready
  <2>2. w \in Ready <=> IsReady(w)
    BY DEF Ready
  <2>3. Cardinality(Ready') = ready_works_'
    <3>1. ready_works_ = Cardinality(Ready)
      BY DEF Inv, ReadyCounted, Ready
    <3>2. /\ Cardinality(Ready \cup {w}) =
               IF w \in Ready THEN Cardinality(Ready) ELSE Cardinality(Ready) + 1
          /\ Cardinality(Ready \ {w}) =
               IF w \in Ready THEN Cardinality(Ready) - 1 ELSE Cardinality(Ready)
      BY ReadyFinite, FS_AddElement, FS_RemoveElement
    <3> QED BY <2>1, <2>2, <3>1, <3>2
  <2> QED BY <2>3 DEF ReadyCounted, Ready
<1>5. TypeOK'
  <2>1. ready_works_' = Cardinality(Ready')
    BY <1>4 DEF ReadyCounted, Ready
  <2>2. Ready' \in SUBSET Worker
    BY DEF Ready
  <2>3. ready_works_' \in Nat
    BY <2>1, <2>2, WorkerAssumption, FS_Subset, FS_CardinalityType
  <2> QED BY <1>1, <2>3 DEF TypeOK
<1>6. Fresh'
  <2> SUFFICES ASSUME NEW v \in Worker
               PROVE  /\ IsReady(v)' => workers'[v].silence <= 10 + since'
                      /\ Known(v)'   => workers'[v].silence <= 60 + since'
    BY DEF Fresh
  <2>1. CASE v = w
    BY <1>1, <1>2, <2>1 DEF IsReady, Known
  <2>2. CASE v # w
    BY <1>2, <1>3, <2>2 DEF Inv, Fresh
  <2> QED BY <2>1, <2>2
<1> QED BY <1>4, <1>5, <1>6 DEF Inv

-----------------------------------------------------------------------------
LEMMA InitInv == Init => Inv
<1> SUFFICES ASSUME Init PROVE Inv
  OBVIOUS
<1>1. \A w \in Worker : ~Known(w) /\ ~IsReady(w)
  BY DEF Init, Known, IsReady
<1>2. Ready = {}
  BY <1>1 DEF Ready
<1>3. ReadyCounted
  BY <1>2, FS_EmptySet DEF ReadyCounted, Ready, Init
<1>4. TypeOK
  BY WorkerAssumption DEF Init, TypeOK
<1>5. Fresh
  BY <1>1 DEF Fresh
<1> QED BY <1>3, <1>4, <1>5 DEF Inv

LEMMA MessageInv ==
  ASSUME Inv, NEW w \in Worker, WorkerJoin(w) \/ WorkerReady(w) \/ WorkerLeft(w)
  PROVE  Inv'
<1>1. CASE WorkerJoin(w)
  <2> DEFINE l == IF Known(w) THEN -1 ELSE 5
             h == [silence |-> 0, level |-> l, state |-> 0]
  <2>1. h \in Health /\ h.silence = 0 /\ h.state = 0
    BY NewHealth DEF WorkerState
  <2>2. workers' = [workers EXCEPT ![w] = h] /\ UNCHANGED since
    BY <1>1 DEF WorkerJoin
  <2>3. ready_works_' = IF IsReady(w) THEN ready_works_ - 1 ELSE ready_works_
    BY <1>1 DEF WorkerJoin
  <2> HIDE DEF h
  <2>4. ~(h # Unknown /\ h.state = 1)
    BY <2>1
  <2> QED BY <2>1, <2>2, <2>3, <2>4, OneWorker
<1>2. CASE WorkerReady(w)
  <2> DEFINE h == [silence |-> 0, level |-> 5, state |-> 1]
  <2>1. h \in Health /\ h.silence = 0 /\ h.state = 1
    BY NewHealth DEF WorkerState
  <2>2. workers' = [workers EXCEPT ![w] = h] /\ UNCHANGED since
    BY <1>2 DEF WorkerReady
  <2>3. ready_works_' = IF IsReady(w) THEN ready_works_ ELSE ready_works_ + 1
    BY <1>2 DEF WorkerReady
  <2> HIDE DEF h
  <2>4. h # Unknown
    BY <2>1, HealthIsKnown
  <2> QED BY <2>1, <2>2, <2>3, <2>4, OneWorker
<1>3. CASE WorkerLeft(w)
  BY <1>3, OneWorker DEF WorkerLeft
<1> QED BY <1>1, <1>2, <1>3

LEMMA CheckInv ==
  ASSUME Inv, CheckWorks
  PROVE  Inv'
<1>1. \A w \in Worker : workers'[w] = IF Known(w) THEN Seen(workers[w]) ELSE Unknown
  BY DEF CheckWorks
<1>2. ASSUME NEW w \in Worker
      PROVE  /\ workers'[w] \in Health \cup {Unknown}
             /\ Known(w)' => workers'[w].silence \in Nat /\ workers'[w].silence <= 60
             /\ IsReady(w)' => workers'[w].silence <= 10
  <2>1. CASE Known(w)
    <3>1. workers[w] \in Health /\ workers'[w] = Seen(workers[w])
      BY <1>1, <2>1, KnownType DEF Inv
    <3>2. workers[w].silence \in Nat
      BY <2>1, KnownType DEF Inv
    <3> QED BY <3>1, <3>2, SeenType DEF Known, IsReady
  <2>2. CASE ~Known(w)
    BY <1>1, <2>2 DEF Known, IsReady
  <2> QED BY <2>1, <2>2
<1>3. since' = 0
  BY DEF CheckWorks
<1>4. ReadyCounted'
  BY DEF CheckWorks, ReadyCounted, IsReady, Known
<1>5. TypeOK'
  <2>1. workers' \in [Worker -> Health \cup {Unknown}]
    BY <1>2 DEF CheckWorks
  <2>2. ready_works_' \in Nat
    <3>1. ready_works_' = Cardinality({w \in Worker : IsReady(w)'})
      BY <1>4 DEF ReadyCounted
    <3>2. {w \in Worker : IsReady(w)'} \in SUBSET Worker
      OBVIOUS
    <3> QED BY <3>1, <3>2, WorkerAssumption, FS_Subset, FS_CardinalityType
  <2> QED BY <1>3, <2>1, <2>2, WorkerAssumption DEF TypeOK
<1>6. Fresh'
  BY <1>2, <1>3 DEF Fresh
<1> QED BY <1>4, <1>5, <1>6 DEF Inv

LEMMA TickInv ==
  ASSUME Inv, Tick
  PROVE  Inv'
<1>1. \A w \in Worker : workers'[w] = IF Known(w) THEN Older(workers[w]) ELSE Unknown
  BY DEF Tick
<1>2. since \in Nat /\ CheckInterval \in Nat /\ since' = since + 1
      /\ since' \in 0..CheckInterval /\ ready_works_' = ready_works_
  BY WorkerAssumption DEF Tick, Inv, TypeOK
<1>3. ASSUME NEW w \in Worker
      PROVE  /\ workers'[w] \in Health \cup {Unknown}
             /\ Known(w)' <=> Known(w)
             /\ IsReady(w)' <=> IsReady(w)
             /\ Known(w) => /\ workers[w].silence \in Nat
                            /\ workers'[w].silence = workers[w].silence + 1
  <2>1. CASE Known(w)
    <3>1. /\ workers[w] \in Health /\ workers'[w] = Older(workers[w])
          /\ workers[w].silence \in Nat
      BY <1>1, <2>1, KnownType DEF Inv
    <3>2. workers'[w] # Unknown
      BY <3>1, OlderType, HealthIsKnown
    <3> QED BY <2>1, <3>1, <3>2, OlderType DEF Known, IsReady
  <2>2. CASE ~Known(w)
    BY <1>1, <2>2 DEF Known, IsReady
  <2> QED BY <2>1, <2>2
<1>4. TypeOK'
  <2>1. workers' \in [Worker -> Health \cup {Unknown}]
    BY <1>3 DEF Tick
  <2> QED BY <1>2, <2>1 DEF Inv, TypeOK
<1>5. ReadyCounted'
  <2>1. {w \in Worker : IsReady(w)'} = {w \in Worker : IsReady(w)}
    BY <1>3
  <2> QED BY <1>2, <2>1 DEF Inv, ReadyCounted
<1>6. Fresh'
  BY <1>2, <1>3 DEF Inv, Fresh, IsReady
<1> QED BY <1>4, <1>5, <1>6 DEF Inv

LEMMA NextInv == Inv /\ [Next]_vars => Inv'
<1> SUFFICES ASSUME Inv, [Next]_vars PROVE Inv'
  OBVIOUS
<1>1. CASE UNCHANGED vars
  BY <1>1 DEF vars, Inv, TypeOK, ReadyCounted, Fresh, IsReady, Known
<1> QED BY <1>1, MessageInv, CheckInv, TickInv DEF Next

LEMMA InvIsLive == Inv => SendsToLive /\ SilentIsForgotten
<1> SUFFICES ASSUME Inv PROVE SendsToLive /\ SilentIsForgotten
  OBVIOUS
<1>1. since \in Nat /\ CheckInterval \in Nat /\ since <= CheckInterval
  BY WorkerAssumption DEF Inv, TypeOK
<1>2. SilentIsForgotten
  BY <1>1, KnownType DEF Inv, Fresh, SilentIsForgotten
<1>3. ASSUME ready_works_ > 0
      PROVE  \E w \in Worker : Known(w) /\ workers[w].silence <= 10 + CheckInterval
  <2>1. Cardinality(Ready) > 0
    BY <1>3 DEF Inv, ReadyCounted, Ready
  <2>2. PICK w \in Worker : IsReady(w)
    BY <2>1, FS_EmptySet DEF Ready
  <2>3. Known(w) /\ workers[w].silence <= 10 + since /\ workers[w].silence \in Nat
    BY <2>2, KnownType DEF Inv, Fresh, IsReady
  <2> QED BY <1>1, <2>3
<1> QED BY <1>2, <1>3 DEF SendsToLive

-----------------------------------------------------------------------------
(* ready_works_ is the number of ready workers (zero_config.cpp), for any   *)
(* number of workers and any sequence of their messages.                    *)
THEOREM ReadyIsCounted == Spec => []ReadyCounted
<1>1. Inv => ReadyCounted
  BY DEF Inv
<1> QED BY <1>1, InitInv, NextInv, PTL DEF Spec

(* A station that hands requests out (hase_ready_works) has heard from a    *)
(* worker within ten seconds and one check interval.                        *)
THEOREM ServedByLive == Spec => []SendsToLive
<1> QED BY InvIsLive, InitInv, NextInv, PTL DEF Spec

(* A silent worker is erased within a minute and one check interval.        *)
THEOREM SilentAreGone == Spec => []SilentIsForgotten
<1> QED BY InvIsLive, InitInv, NextInv, PTL DEF Spec

(* The count of ready workers is never below zero and each level is one of  *)
(* worker::check (zero_config.cpp:9-41), in every behaviour.                *)
THEOREM HealthTyped == Spec => []TypeOK
<1>1. Inv => TypeOK
  BY DEF Inv
<1> QED BY <1>1, InitInv, NextInv, PTL DEF Spec

-----------------------------------------------------------------------------
(* A worker out of contact has been silent for more than ten seconds ever   *)
(* since the check that noticed it.                                         *)
OutIsSilent ==
  \A w \in Worker : Known(w) /\ workers[w].state = -1 => workers[w].silence > 10

LEMMA StateOfOut ==
  ASSUME NEW h \in Health, Seen(h) # Unknown
  PROVE  /\ Seen(h).state = StateOf(h) /\ Seen(h).silence = h.silence
         /\ StateOf(h) = -1 => h.silence > 10
<1>1. Seen(h) = [silence |-> h.silence, level |-> LevelOf(h.silence),
                 state |-> StateOf(h)]
  BY DEF Seen
<1>2. h.silence \in Nat
  BY DEF Health
<1>3. StateOf(h) = -1 => h.silence > 10
  BY <1>2 DEF StateOf
<1> QED BY <1>1, <1>3

LEMMA OutInv == Inv /\ OutIsSilent /\ [Next]_vars => OutIsSilent'
<1> SUFFICES ASSUME Inv, OutIsSilent, [Next]_vars,
                    NEW w \in Worker, Known(w)', workers'[w].state = -1
             PROVE  workers'[w].silence > 10
  BY DEF OutIsSilent
<1>0. workers \in [Worker -> Health \cup {Unknown}]
  BY DEF Inv, TypeOK
<1>1. ASSUME workers'[w] = workers[w]
      PROVE  workers'[w].silence > 10
  BY <1>1 DEF OutIsSilent, Known
<1>2. ASSUME NEW v \in Worker, WorkerJoin(v) \/ WorkerReady(v) \/ WorkerLeft(v)
      PROVE  workers'[w] = workers[w]
  <2>1. v # w => workers'[w] = workers[w]
    BY <1>0, <1>2 DEF WorkerJoin, WorkerReady, WorkerLeft
  <2>2. v = w => workers'[w] = Unknown \/ workers'[w].state \in {0, 1}
    BY <1>0, <1>2 DEF WorkerJoin, WorkerReady, WorkerLeft
  <2> QED BY <2>1, <2>2 DEF Known
<1>3. CASE CheckWorks
  <2>1. workers'[w] = IF Known(w) THEN Seen(workers[w]) ELSE Unknown
    BY <1>3 DEF CheckWorks
  <2>2. Known(w) /\ workers'[w] = Seen(workers[w]) /\ Seen(workers[w]) # Unknown
    BY <2>1 DEF Known
  <2> QED BY <2>2, KnownType, StateOfOut DEF Inv
<1>4. CASE Tick
  <2>1. workers'[w] = IF Known(w) THEN Older(workers[w]) ELSE Unknown
    BY <1>4 DEF Tick
  <2>2. Known(w) /\ workers'[w] = Older(workers[w])
    BY <2>1 DEF Known
  <2>3. /\ workers[w].silence \in Nat /\ workers'[w].silence = workers[w].silence + 1
        /\ workers'[w].state = workers[w].state
    BY <2>2, KnownType, OlderType DEF Inv
  <2> QED BY <2>2, <2>3 DEF OutIsSilent
<1>5. CASE UNCHANGED vars
  BY <1>1, <1>5 DEF vars
<1> QED BY <1>1, <1>2, <1>3, <1>4, <1>5 DEF Next

(* The step a behaviour may take, without the box.                          *)
ByItsWord(w) ==
  IsReady(w)' # IsReady(w) =>
    \/ workers'[w].silence = 0 \/ ~Known(w)'
    \/ IsReady(w) /\ workers[w].silence > 10

LEMMA WordStep ==
  ASSUME Inv, OutIsSilent, [Next]_vars, NEW w \in Worker
  PROVE  ByItsWord(w)
<1>0. workers \in [Worker -> Health \cup {Unknown}]
  BY DEF Inv, TypeOK
<1>1. ASSUME workers'[w] = workers[w]
      PROVE  ByItsWord(w)
  BY <1>1 DEF ByItsWord, IsReady, Known
<1>2. ASSUME NEW v \in Worker, WorkerJoin(v) \/ WorkerReady(v) \/ WorkerLeft(v)
      PROVE  ByItsWord(w)
  <2>1. v # w => workers'[w] = workers[w]
    BY <1>0, <1>2 DEF WorkerJoin, WorkerReady, WorkerLeft
  <2>2. v = w => workers'[w] = Unknown \/ workers'[w].silence = 0
    BY <1>0, <1>2 DEF WorkerJoin, WorkerReady, WorkerLeft
  <2> QED BY <1>1, <2>1, <2>2 DEF ByItsWord, Known
<1>3. CASE CheckWorks
  <2>1. workers'[w] = IF Known(w) THEN Seen(workers[w]) ELSE Unknown
    BY <1>3 DEF CheckWorks
  <2>2. CASE Known(w) /\ Seen(workers[w]) # Unknown
    <3>1. /\ workers[w] \in Health /\ workers[w].silence \in Nat
          /\ workers[w].state \in WorkerState
      BY <2>2, KnownType DEF Inv, Health
    <3>2. workers'[w].state = StateOf(workers[w])
      BY <2>1, <2>2, <3>1, StateOfOut
    <3>3. workers[w].state = -1 => workers[w].silence > 10
      BY <2>2 DEF OutIsSilent
    <3>4. workers[w].silence <= 10 => StateOf(workers[w]) = workers[w].state
      BY <3>1, <3>3 DEF StateOf
    <3>5. workers[w].silence > 10 => StateOf(workers[w]) = -1
      BY <3>1 DEF StateOf
    <3>6. /\ IsReady(w) <=> workers[w].state = 1
          /\ IsReady(w)' <=> workers'[w].state = 1
      BY <2>1, <2>2 DEF IsReady, Known
    <3>7. CASE workers[w].silence <= 10
      <4>1. IsReady(w)' <=> IsReady(w)
        BY <3>2, <3>4, <3>6, <3>7
      <4>2. IsReady(w)' = IsReady(w)
        BY <4>1 DEF IsReady
      <4> QED BY <4>2 DEF ByItsWord
    <3>8. CASE workers[w].silence > 10
      <4>1. ~IsReady(w)'
        BY <3>2, <3>5, <3>6, <3>8
      <4>2. IsReady(w)' # IsReady(w) => IsReady(w)
        BY <4>1 DEF IsReady
      <4> QED BY <3>8, <4>2 DEF ByItsWord
    <3> QED BY <3>1, <3>7, <3>8
  <2>3. CASE ~(Known(w) /\ Seen(workers[w]) # Unknown)
    BY <2>1, <2>3 DEF ByItsWord, Known
  <2> QED BY <2>2, <2>3
<1>4. CASE Tick
  <2>1. workers'[w] = IF Known(w) THEN Older(workers[w]) ELSE Unknown
    BY <1>4 DEF Tick
  <2>2. CASE Known(w)
    <3>1. workers[w] \in Health /\ workers'[w] = Older(workers[w])
      BY <2>1, <2>2, KnownType DEF Inv
    <3>2. workers'[w] # Unknown /\ workers'[w].state = workers[w].state
      BY <3>1, OlderType, HealthIsKnown
    <3> QED BY <2>2, <3>2 DEF ByItsWord, IsReady, Known
  <2>3. CASE ~Known(w)
    BY <2>1, <2>3 DEF ByItsWord, Known
  <2> QED BY <2>2, <2>3
<1>5. CASE UNCHANGED vars
  BY <1>1, <1>5 DEF vars
<1> QED BY <1>1, <1>2, <1>3, <1>4, <1>5 DEF Next

(* Whether a worker is ready changes by its own word or by more than ten    *)
(* seconds of silence only: worker::check, which sets a worker out of       *)
(* contact to ready before it looks at the time (zero_config.cpp:9-41),     *)
(* never brings one back that has not spoken.                               *)
THEOREM ReadyOnItsWord == Spec => ReadyByItsWord
<1>1. Init => OutIsSilent
  BY DEF Init, OutIsSilent, Known
<1>2. Inv /\ OutIsSilent /\ [Next]_vars => [\A w \in Worker : ByItsWord(w)]_vars
  BY WordStep
<1>3. [\A w \in Worker : ByItsWord(w)]_vars
        => [\A w \in Worker :
              IsReady(w)' # IsReady(w) =>
                \/ workers'[w].silence = 0 \/ ~Known(w)'
                \/ IsReady(w) /\ workers[w].silence > 10]_vars
  BY DEF ByItsWord
<1> QED BY <1>1, <1>2, <1>3, InitInv, NextInv, OutInv, PTL DEF Spec, ReadyByItsWord
=============================================================================
