---------------------------- MODULE BatchQueue ----------------------------
(***************************************************************************)
(* The queue of a batch publisher (Queue/SyncBatchQueue.cs) and the loop    *)
(* that empties it (PubSub/BatchPublisher.cs).  Any number of threads push  *)
(* while the station's thread takes one of two lines, over and over: Switch *)
(* turns the producers to the other line and takes what is in the old one,  *)
(* then puts a new bag in its place.                                        *)
(*                                                                          *)
(* A bag is not ordered, so a line is a set of items.  A producer reads the *)
(* reference now and adds to that bag later: ref is the line whose bag it   *)
(* is, and Gone if the bag has been replaced since.  After Load (which runs *)
(* before the first push: ApiCounter.Initialize hooks the producers after   *)
(* it) now is always the line of index, so it has no variable of its own.   *)
(***************************************************************************)
EXTENDS Integers, FiniteSets

CONSTANTS
  Item,         \* what is pushed, each by a thread of its own
  Portion,      \* the size of a portion (255)
  Limit,        \* above it, a batch that is not Tson is sent in portions (300)
  MaxStops      \* bound: closes of the station, its exceptions and ends of
                \* the process

ASSUME BatchAssumption ==
  /\ IsFiniteSet(Item)
  /\ Portion \in Nat \ {0} /\ Limit \in Nat /\ Portion <= Limit
  /\ MaxStops \in Nat

VARIABLES
  lines,        \* Line1 and Line2
  index,        \* the line producers add to
  inSwitch,
  push, ref,    \* where each push is, and the bag it holds
  loop,         \* where the station's thread is in RunInner and Switch
  running,      \* CanLoop
  hand,         \* array: what Switch returned and is not yet sent
  tson,         \* the publisher has a TsonOperator
  file, hasFile,            \* what Save wrote
  taken,        \* history: items Switch has returned
  dropped,      \* history: items whose send was given up in a close
  skipped,      \* history: items of a batch that were passed over
  across,       \* history: pushes in the course of which now was changed
  stops

producers == <<push, ref>>
queue     == <<lines, index, inSwitch>>
disk      == <<file, hasFile>>
history   == <<taken, dropped, skipped>>
vars == <<queue, producers, loop, running, hand, tson, disk, history, across, stops>>

Line == {1, 2}
Gone == 0
Push == {"new", "wait", "ready", "read", "done", "cut"}
Loop == {"down", "stopped", "idle", "began", "locked", "turned", "list", "listed",
         "batch"}

Other(l) == 3 - l
Queued == lines[1] \cup lines[2]
Sent   == taken \ (hand \cup dropped \cup skipped)

-----------------------------------------------------------------------------
Init ==
  /\ lines = [l \in Line |-> {}] /\ index = 1 /\ inSwitch = FALSE
  /\ push = [i \in Item |-> "new"] /\ ref = [i \in Item |-> Gone]
  /\ loop = "down" /\ running = FALSE /\ hand = {}
  /\ tson \in BOOLEAN
  /\ file = {} /\ hasFile = FALSE
  /\ taken = {} /\ dropped = {} /\ skipped = {} /\ across = {}
  /\ stops = 0

-----------------------------------------------------------------------------
(* Push, by the thread of item i.                                           *)

EnterPush(i) ==
  /\ push[i] = "new" /\ loop # "down"
  /\ push' = [push EXCEPT ![i] = IF inSwitch THEN "wait" ELSE "ready"]
  /\ UNCHANGED <<queue, ref, loop, running, hand, tson, disk, history, across, stops>>

PassLock(i) ==
  /\ push[i] = "wait" /\ loop # "locked"
  /\ push' = [push EXCEPT ![i] = "ready"]
  /\ UNCHANGED <<queue, ref, loop, running, hand, tson, disk, history, across, stops>>

ReadNow(i) ==
  /\ push[i] = "ready"
  /\ push' = [push EXCEPT ![i] = "read"]
  /\ ref' = [ref EXCEPT ![i] = index]
  /\ UNCHANGED <<queue, loop, running, hand, tson, disk, history, across, stops>>

Add(i) ==
  /\ push[i] = "read"
  /\ push' = [push EXCEPT ![i] = "done"]
  /\ lines' = [l \in Line |-> IF l = ref[i] THEN lines[l] \cup {i} ELSE lines[l]]
  /\ UNCHANGED <<index, inSwitch, ref, loop, running, hand, tson, disk, history,
                 across, stops>>

-----------------------------------------------------------------------------
(* Switch, by the station's thread.                                         *)

BeginSwitch ==
  /\ loop = "idle" /\ running
  /\ inSwitch' = TRUE /\ loop' = "began"
  /\ UNCHANGED <<lines, index, producers, running, hand, tson, disk, history, across,
                 stops>>

Lock ==
  /\ loop = "began" /\ loop' = "locked"
  /\ UNCHANGED <<queue, producers, running, hand, tson, disk, history, across, stops>>

MutantTurn ==             \* index runs on
  /\ loop = "locked" /\ loop' = "turned"
  /\ index' = index + 1
  /\ across' = across \cup {i \in Item : push[i] = "read"}
  /\ UNCHANGED <<lines, inSwitch, producers, running, hand, tson, disk, history, stops>>

Turn ==
  /\ loop = "locked" /\ loop' = "turned"
  /\ index' = Other(index)
  /\ across' = across \cup {i \in Item : push[i] = "read"}
  /\ UNCHANGED <<lines, inSwitch, producers, running, hand, tson, disk, history, stops>>

MutantEndSwitch ==        \* looks whether the new line is empty
  /\ loop = "turned"
  /\ inSwitch' = FALSE
  /\ loop' = IF lines[index] = {} THEN "idle" ELSE "list"
  /\ UNCHANGED <<lines, index, producers, running, hand, tson, disk, history, across,
                 stops>>

EndSwitch ==
  /\ loop = "turned"
  /\ inSwitch' = FALSE
  /\ loop' = IF lines[Other(index)] = {} THEN "idle" ELSE "list"
  /\ UNCHANGED <<lines, index, producers, running, hand, tson, disk, history, across,
                 stops>>

MutantToList ==           \* copies now, not old
  /\ loop = "list" /\ loop' = "listed"
  /\ hand' = lines[index]
  /\ taken' = taken \cup hand'
  /\ UNCHANGED <<queue, producers, running, tson, disk, dropped, skipped, across, stops>>

ToList ==
  /\ loop = "list" /\ loop' = "listed"
  /\ hand' = lines[Other(index)]
  /\ taken' = taken \cup hand'
  /\ UNCHANGED <<queue, producers, running, tson, disk, dropped, skipped, across, stops>>

MutantReplace ==          \* leaves the old bag where it is
  /\ loop = "listed" /\ loop' = "batch"
  /\ UNCHANGED <<queue, producers, running, hand, tson, disk, history, across, stops>>

Replace ==
  /\ loop = "listed" /\ loop' = "batch"
  /\ lines' = [lines EXCEPT ![Other(index)] = {}]
  /\ ref' = [i \in Item |-> IF ref[i] = Other(index) THEN Gone ELSE ref[i]]
  /\ UNCHANGED <<index, inSwitch, push, running, hand, tson, disk, history, across,
                 stops>>

-----------------------------------------------------------------------------
(* The loop of RunInner over a batch.  A portion is sent again until the    *)
(* center confirms it or the loop may not go on; without a TsonOperator the *)
(* loop ends when no more than Limit items are left.                        *)

MutantSize ==             \* the limit itself is too big as well
  IF tson THEN IF Cardinality(hand) > Portion THEN Portion ELSE Cardinality(hand)
  ELSE IF Cardinality(hand) >= Limit THEN Portion ELSE Cardinality(hand)

Size ==
  IF tson THEN IF Cardinality(hand) > Portion THEN Portion ELSE Cardinality(hand)
  ELSE IF Cardinality(hand) > Limit THEN Portion ELSE Cardinality(hand)

Another(rest) == IF tson THEN rest # {} ELSE Cardinality(rest) > Limit

SendPortion(p) ==
  /\ loop = "batch" /\ p \subseteq hand /\ Cardinality(p) = Size
  /\ \/ UNCHANGED dropped
     \/ ~running /\ dropped' = dropped \cup p
  /\ LET rest == hand \ p
     IN IF Another(rest)
        THEN hand' = rest /\ UNCHANGED <<loop, skipped>>
        ELSE hand' = {} /\ loop' = "idle" /\ skipped' = skipped \cup rest
  /\ UNCHANGED <<queue, producers, running, tson, disk, taken, across, stops>>

(* RunInner throws: Run ends the station and starts it again.               *)
Throw ==
  /\ loop = "batch" /\ stops < MaxStops
  /\ loop' = "stopped" /\ running' = FALSE /\ stops' = stops + 1
  /\ hand' = {} /\ dropped' = dropped \cup hand
  /\ UNCHANGED <<queue, producers, tson, disk, taken, skipped, across>>

-----------------------------------------------------------------------------
(* The station starts and closes, the process ends and begins anew.         *)

Load ==
  /\ loop = "down" /\ loop' = "stopped"
  /\ lines' = [l \in Line |-> IF l = 1 THEN file ELSE {}]
  /\ index' = IF hasFile THEN 2 ELSE 1
  /\ file' = {} /\ hasFile' = FALSE
  /\ UNCHANGED <<inSwitch, producers, running, hand, tson, history, across, stops>>

Start ==
  /\ loop = "stopped" /\ loop' = "idle" /\ running' = TRUE
  /\ UNCHANGED <<queue, producers, hand, tson, disk, history, across, stops>>

Close ==
  /\ running /\ stops < MaxStops
  /\ running' = FALSE /\ stops' = stops + 1
  /\ UNCHANGED <<queue, producers, loop, hand, tson, disk, history, across>>

Leave ==
  /\ loop = "idle" /\ ~running /\ loop' = "stopped"
  /\ UNCHANGED <<queue, producers, running, hand, tson, disk, history, across, stops>>

MutantSave ==             \* saves the line in use only
  /\ loop = "stopped" /\ stops < MaxStops
  /\ loop' = "down" /\ stops' = stops + 1
  /\ file' = lines[index] /\ hasFile' = TRUE
  /\ lines' = [l \in Line |-> {}]
  /\ push' = [i \in Item |-> IF push[i] \in {"wait", "ready", "read"} THEN "cut"
                             ELSE push[i]]
  /\ UNCHANGED <<index, inSwitch, ref, running, hand, tson, history, across>>

(* DoDispose saves both lines, and the process ends.  A push that is not    *)
(* done then never is.                                                      *)
Save ==
  /\ loop = "stopped" /\ stops < MaxStops
  /\ loop' = "down" /\ stops' = stops + 1
  /\ file' = Queued /\ hasFile' = TRUE
  /\ lines' = [l \in Line |-> {}]
  /\ push' = [i \in Item |-> IF push[i] \in {"wait", "ready", "read"} THEN "cut"
                             ELSE push[i]]
  /\ UNCHANGED <<index, inSwitch, ref, running, hand, tson, history, across>>

-----------------------------------------------------------------------------
Pushing   == \E i \in Item : EnterPush(i) \/ PassLock(i) \/ ReadNow(i) \/ Add(i)
Switching == BeginSwitch \/ Lock \/ Turn \/ EndSwitch \/ ToList \/ Replace
Sending   == \E p \in SUBSET Item : SendPortion(p)

Next == \/ Pushing \/ Switching \/ Sending
        \/ Throw \/ Load \/ Start \/ Close \/ Leave \/ Save

Spec == Init /\ [][Next]_vars

(* The station's thread runs, and the center confirms a portion in the end. *)
FairSpec == Spec /\ WF_vars(Switching) /\ WF_vars(Sending)

-----------------------------------------------------------------------------
(* Properties.                                                              *)

TypeOK == /\ lines \in [Line -> SUBSET Item] /\ index \in Line
          /\ inSwitch \in BOOLEAN
          /\ push \in [Item -> Push] /\ ref \in [Item -> Line \cup {Gone}]
          /\ loop \in Loop /\ running \in BOOLEAN /\ tson \in BOOLEAN
          /\ hand \in SUBSET Item /\ file \in SUBSET Item /\ hasFile \in BOOLEAN
          /\ taken \in SUBSET Item /\ dropped \in SUBSET Item
          /\ skipped \in SUBSET Item /\ across \in SUBSET Item
          /\ stops \in Nat

(* An item is still queued, saved or taken, unless the lines were turned    *)
(* between its push reading now and adding to it: no other order of pushes, *)
(* switches, closes and restarts loses it in the queue.                     *)
KeptUnlessAcross ==
  \A i \in Item : push[i] = "done" /\ i \notin across =>
                    i \in Queued \cup file \cup taken

(* What Switch returns it has never returned before.                        *)
HandedOnce == [][hand' \subseteq hand \/ hand' \cap taken = {}]_vars

(* Only a batch of more than Limit items that is not Tson is sent in part.  *)
SkipsBigOnly == skipped # {} => ~tson /\ Cardinality(taken) > Limit

(* Where an item is, for its producer and its consumer.  What ToList has    *)
(* copied is handed out although it is still in the old bag.                *)
Waiting == IF loop = "listed" THEN lines[index] \cup file \cup (lines[Other(index)] \ taken)
           ELSE Queued \cup file

Place(i) == CASE i \in Waiting -> "queued"
              [] i \notin Waiting /\ i \in taken -> "handed"
              [] i \notin Waiting \cup taken /\ push[i] = "done" -> "lost"
              [] OTHER -> "new"

place == [i \in Item |-> Place(i)]

Promise == INSTANCE Handover WITH where <- place, crossed <- across

(* HandsOver: the two lines, the bags that are replaced and the cache file  *)
(* implement one queue, which keeps an item until it hands it out, once,    *)
(* whatever the order of pushes and switches, closes, exceptions and        *)
(* restarts, but for pushes that a turn has crossed.                        *)
HandsOver == Promise!Spec

(* While the station is open, everything in either line is sent, also what  *)
(* Load put into the line that is not in use.                               *)
Drained ==
  \A i \in Item : running /\ i \in Queued \ across ~> i \in Sent \cup skipped \/ ~running

(* A "thread-safe" list for several producers and one consumer              *)
(* (SyncBatchQueue.cs:12) keeps what is pushed into it.                     *)
PushKept == \A i \in Item : push[i] = "done" => i \in Queued \cup file \cup taken
=============================================================================
