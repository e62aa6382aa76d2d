--------------------------- MODULE WorkerHealth ---------------------------
(***************************************************************************)
(* The workers of one station as ZeroCenter sees them (rpc/zero_config.h,   *)
(* rpc/zero_config.cpp).  A worker announces itself, says that it is ready, *)
(* answers the sound-off events and leaves, through the system dispatcher's *)
(* thread (heartbeat); the monitor thread calls check_works every           *)
(* worker_sound_ivl.  Each of these holds the mutex of the zero_config, so  *)
(* each is one action; send_response reads the count ready_works_ between   *)
(* any two of them, without the mutex, and sends where it is above zero.    *)
(*                                                                          *)
(* What a worker does is not restricted: it may be started twice, beat      *)
(* before it is ready or after it has left, and fall silent at any time.    *)
(***************************************************************************)
EXTENDS Integers, FiniteSets

CONSTANTS
  Worker,          \* real names of workers
  CheckInterval    \* worker_sound_ivl, in seconds: no two checks are further apart

ASSUME WorkerAssumption ==
  /\ IsFiniteSet(Worker)
  /\ CheckInterval \in Nat \ {0}

VARIABLES
  workers,         \* the map of the station's workers
  ready_works_,    \* how many of them are ready
  since            \* seconds since the last check

vars == <<workers, ready_works_, since>>

(* A worker's silence is the age of its pre_time; its state is -1 out of    *)
(* contact, 0 preparing, 1 ready.                                           *)
WorkerState == {-1, 0, 1}
Health == [silence : Nat, level : -1..5, state : WorkerState]
Unknown == [silence |-> -1]

Known(w) == workers[w] # Unknown
IsReady(w) == Known(w) /\ workers[w].state = 1

-----------------------------------------------------------------------------
Init ==
  /\ workers = [w \in Worker |-> Unknown]
  /\ ready_works_ = 0
  /\ since = 0

(* worker(): a new worker has level 5; one that joins again has none until  *)
(* it is checked.                                                           *)
MutantWorkerJoin(w) ==       \* does not take a ready worker off the count
  /\ workers' = [workers EXCEPT ![w] =
       [silence |-> 0, level |-> IF Known(w) THEN -1 ELSE 5, state |-> 0]]
  /\ UNCHANGED <<ready_works_, since>>

WorkerJoin(w) ==
  /\ workers' = [workers EXCEPT ![w] =
       [silence |-> 0, level |-> IF Known(w) THEN -1 ELSE 5, state |-> 0]]
  /\ ready_works_' = IF IsReady(w) THEN ready_works_ - 1 ELSE ready_works_
  /\ UNCHANGED since

(* worker_ready, which every heartbeat calls.                               *)
WorkerReady(w) ==
  /\ workers' = [workers EXCEPT ![w] = [silence |-> 0, level |-> 5, state |-> 1]]
  /\ ready_works_' = IF IsReady(w) THEN ready_works_ ELSE ready_works_ + 1
  /\ UNCHANGED since

MutantWorkerLeft(w) ==       \* takes every worker off the count
  /\ Known(w)
  /\ workers' = [workers EXCEPT ![w] = Unknown]
  /\ ready_works_' = ready_works_ - 1
  /\ UNCHANGED since

WorkerLeft(w) ==
  /\ Known(w)
  /\ workers' = [workers EXCEPT ![w] = Unknown]
  /\ ready_works_' = IF IsReady(w) THEN ready_works_ - 1 ELSE ready_works_
  /\ UNCHANGED since

(* worker::check: the level that a silence of t seconds earns, and the      *)
(* state it leaves.                                                         *)
LevelOf(t) == CASE t <= 2            -> 5
                [] t > 2  /\ t <= 6  -> 4
                [] t > 6  /\ t <= 10 -> 3
                [] t > 10 /\ t <= 15 -> 2
                [] t > 15 /\ t <= 30 -> 1
                [] t > 30 /\ t <= 60 -> 0
                [] t > 60            -> -1

MutantStateOf(h) ==          \* what was out of contact is ready again
  IF h.state = -1 THEN 1 ELSE IF h.silence > 10 THEN -1 ELSE h.state

StateOf(h) == IF h.silence > 10 THEN -1 ELSE IF h.state = -1 THEN 1 ELSE h.state

MutantSeen(h) ==             \* never gives a worker up
  [silence |-> h.silence, level |-> LevelOf(h.silence), state |-> StateOf(h)]

Seen(h) == IF LevelOf(h.silence) < 0 THEN Unknown
           ELSE [silence |-> h.silence, level |-> LevelOf(h.silence),
                 state |-> StateOf(h)]

(* The monitor: every worker is checked, those without a level are erased,  *)
(* the others that are ready are counted.                                   *)
CheckWorks ==
  /\ workers' = [w \in Worker |-> IF Known(w) THEN Seen(workers[w]) ELSE Unknown]
  /\ ready_works_' = Cardinality({w \in Worker :
                                    workers'[w] # Unknown /\ workers'[w].state = 1})
  /\ since' = 0

(* A second passes; the monitor does not sleep longer than its interval.    *)
Older(h) == [silence |-> h.silence + 1, level |-> h.level, state |-> h.state]

Tick ==
  /\ since < CheckInterval /\ since' = since + 1
  /\ workers' = [w \in Worker |-> IF Known(w) THEN Older(workers[w]) ELSE Unknown]
  /\ UNCHANGED ready_works_

Next == \/ \E w \in Worker : WorkerJoin(w) \/ WorkerReady(w) \/ WorkerLeft(w)
        \/ CheckWorks
        \/ Tick

Spec == Init /\ [][Next]_vars

-----------------------------------------------------------------------------
(* Properties.                                                              *)

TypeOK == /\ workers \in [Worker -> Health \cup {Unknown}]
          /\ ready_works_ \in Nat
          /\ since \in 0..CheckInterval

(* ready_works_ is kept by increments and decrements in four handlers and   *)
(* recomputed in a fifth: in spite of repeated joins, repeated beats and    *)
(* beats from workers that left or went out of contact, it is the number of *)
(* ready workers.                                                           *)
ReadyCounted == ready_works_ = Cardinality({w \in Worker : IsReady(w)})

(* A station that sends (hase_ready_works) has heard from one of its        *)
(* workers within ten seconds and one check interval: a request is not      *)
(* handed out on the word of workers that died longer ago.                  *)
SendsToLive ==
  ready_works_ > 0 =>
    \E w \in Worker : Known(w) /\ workers[w].silence <= 10 + CheckInterval

(* Whether a worker is ready changes by its own word only, or by more than  *)
(* ten seconds of silence, although worker::check first sets a worker that  *)
(* was out of contact to ready.                                             *)
ReadyByItsWord ==
  [][\A w \in Worker :
       IsReady(w)' # IsReady(w) =>
         \/ workers'[w].silence = 0 \/ ~Known(w)'
         \/ IsReady(w) /\ workers[w].silence > 10]_vars

(* A worker that died without a word is forgotten within a minute and one   *)
(* check interval (check_works erases it), whatever it did before.          *)
SilentIsForgotten ==
  \A w \in Worker : Known(w) => workers[w].silence <= 60 + CheckInterval
=============================================================================
