------------------------- MODULE BatchQueue_proof -------------------------
(***************************************************************************)
(* Proofs about the queue of a batch publisher, for any number of pushes,   *)
(* any sizes of portion and limit, and any closes and restarts:             *)
(*                                                                          *)
(*   QueueKeeps      Spec => []KeptUnlessAcross                             *)
(*   QueueHandsOnce  Spec => HandedOnce                                     *)
(*   QueueTyped      Spec => []TypeOK                                       *)
(*   QueueSkipsBig   Spec => []SkipsBigOnly                                 *)
(*   HandsOverProved Spec => HandsOver, the queue implements Handover       *)
(*                                                                          *)
(* The inductive invariant says where an item can be.  Before its push is   *)
(* done it is nowhere (Fresh).  A push that no turn of the lines crossed    *)
(* holds the bag in use (HoldsNow), so between ToList and Replace the old   *)
(* line has only what was copied and what was crossed (Copied).  Nothing    *)
(* queued is in both lines, or was taken, except just then (Apart).         *)
(***************************************************************************)
EXTENDS BatchQueue, FiniteSetTheorems, TLAPS

HoldsNow == \A i \in Item : push[i] = "read" /\ i \notin across => ref[i] = index
Fresh    == \A i \in Item : push[i] # "done" => i \notin Queued \cup file \cup taken
Copied   == loop = "listed" => lines[Other(index)] \subseteq taken \cup across
Apart    == /\ lines[1] \cap lines[2] = {}
            /\ lines[index] \cap taken = {}
            /\ loop # "listed" => lines[Other(index)] \cap taken = {}
            /\ file \cap taken = {}
AtRest   == IF loop = "down"
            THEN Queued = {} /\ \A i \in Item : push[i] \in {"new", "done", "cut"}
            ELSE file = {}

Places == HoldsNow /\ Fresh /\ Copied /\ Apart /\ AtRest /\ KeptUnlessAcross
Inv    == TypeOK /\ Places

-----------------------------------------------------------------------------
LEMMA Lines ==
  ASSUME TypeOK
  PROVE  /\ index \in Line /\ Other(index) \in Line /\ Other(index) # index
         /\ Other(Other(index)) = index
         /\ Queued = lines[index] \cup lines[Other(index)]
BY DEF TypeOK, Line, Other, Queued

LEMMA InitInv == Init => Inv
<1> SUFFICES ASSUME Init PROVE Inv
  OBVIOUS
<1>1. TypeOK
  BY DEF Init, TypeOK, Line, Push, Loop
<1>2. lines[1] = {} /\ lines[2] = {} /\ Queued = {} /\ lines[index] = {}
  BY DEF Init, Line, Queued
<1>3. Places
  BY <1>2 DEF Init, Places, HoldsNow, Fresh, Copied, Apart, AtRest, KeptUnlessAcross
<1> QED BY <1>1, <1>3 DEF Inv

(* The actions of the station's thread that touch neither queue nor pushes. *)
LEMMA Quiet ==
  ASSUME Inv, UNCHANGED <<lines, index, producers, file, taken, across>>,
         loop' = "listed" <=> loop = "listed",
         loop' = "down" <=> loop = "down"
  PROVE  Places'
<1>1. HoldsNow'
  BY DEF Inv, Places, HoldsNow, producers
<1>2. Queued' = Queued
  BY DEF Queued
<1>3. Fresh' /\ KeptUnlessAcross'
  BY <1>2 DEF Inv, Places, Fresh, KeptUnlessAcross, producers
<1>4. Copied'
  BY DEF Inv, Places, Copied, Other
<1>5. Apart'
  BY DEF Inv, Places, Apart, Other
<1>6. AtRest'
  BY <1>2 DEF Inv, Places, AtRest, producers
<1> QED BY <1>1, <1>3, <1>4, <1>5, <1>6 DEF Places

(* A step of one push.                                                      *)
LEMMA EnterInv ==
  ASSUME Inv, NEW i \in Item, EnterPush(i) \/ PassLock(i) \/ ReadNow(i)
  PROVE  Inv'
<1>1. PICK p \in {"wait", "ready", "read"} : push' = [push EXCEPT ![i] = p]
  BY DEF EnterPush, PassLock, ReadNow
<1>2. push[i] \in {"new", "wait", "ready"}
  BY DEF EnterPush, PassLock, ReadNow
<1>3. UNCHANGED <<lines, index, inSwitch, loop, file, hasFile, taken, across>>
  BY DEF EnterPush, PassLock, ReadNow, queue, disk, history
<1>4. TypeOK'
  <2>1. push' \in [Item -> Push]
    BY <1>1 DEF Inv, TypeOK, Push
  <2>2. ref' \in [Item -> Line \cup {Gone}]
    BY DEF EnterPush, PassLock, ReadNow, Inv, TypeOK
  <2> QED BY <1>3, <2>1, <2>2
          DEF EnterPush, PassLock, ReadNow, Inv, TypeOK, queue, disk, history
<1>5. \A j \in Item : push'[j] = IF j = i THEN p ELSE push[j]
  BY <1>1 DEF Inv, TypeOK
<1>6. HoldsNow'
  <2>1. \A j \in Item : push'[j] = "read" => \/ push[j] = "read" /\ ref'[j] = ref[j]
                                            \/ ref'[j] = index
    BY <1>2, <1>5 DEF EnterPush, PassLock, ReadNow, Inv, TypeOK
  <2> QED BY <1>3, <2>1 DEF Inv, Places, HoldsNow
<1>7. Queued' = Queued
  BY <1>3 DEF Queued
<1>8. Fresh' /\ KeptUnlessAcross'
  BY <1>2, <1>3, <1>5, <1>7 DEF Inv, Places, Fresh, KeptUnlessAcross
<1>9. Copied' /\ Apart'
  BY <1>3 DEF Inv, Places, Copied, Apart, Other
<1>10. AtRest'
  <2>1. loop # "down"
    BY <1>2 DEF EnterPush, PassLock, ReadNow, Inv, Places, AtRest
  <2> QED BY <1>3, <2>1 DEF Inv, Places, AtRest
<1> QED BY <1>4, <1>6, <1>8, <1>9, <1>10 DEF Inv, Places

LEMMA AddInv ==
  ASSUME Inv, NEW i \in Item, Add(i)
  PROVE  Inv'
<1>1. UNCHANGED <<index, inSwitch, ref, loop, file, hasFile, taken, across>>
  BY DEF Add, disk, history
<1>2. \A j \in Item : push'[j] = IF j = i THEN "done" ELSE push[j]
  BY DEF Add, Inv, TypeOK
<1>3. push[i] = "read" /\ ref[i] \in Line \cup {Gone}
  BY DEF Add, Inv, TypeOK
<1>4. i \notin Queued \cup file \cup taken
  BY <1>3 DEF Inv, Places, Fresh
<1>5. \A l \in Line : lines'[l] = IF l = ref[i] THEN lines[l] \cup {i} ELSE lines[l]
  BY DEF Add
<1>6. TypeOK'
  BY DEF Add, Inv, TypeOK, Push, disk, history
<1>7. i \notin across => i \in lines'[index]
  BY <1>3, <1>5, Lines DEF Inv, Places, HoldsNow
<1>8. Queued \subseteq Queued' /\ Queued' \subseteq Queued \cup {i}
  BY <1>5 DEF Queued, Line
<1>9. HoldsNow'
  BY <1>1, <1>2 DEF Inv, Places, HoldsNow
<1>10. Fresh'
  BY <1>1, <1>2, <1>8 DEF Inv, Places, Fresh
<1>11. Copied'
  <2>1. CASE i \in across
    BY <1>1, <1>5, <2>1, Lines DEF Inv, Places, Copied, Other
  <2>2. CASE i \notin across
    <3>1. lines'[Other(index)] = lines[Other(index)]
      BY <1>3, <1>5, <2>2, Lines DEF Inv, Places, HoldsNow
    <3> QED BY <1>1, <3>1 DEF Inv, Places, Copied, Other
  <2> QED BY <2>1, <2>2
<1>12. Apart'
  <2>1. lines'[1] \cap lines'[2] = {}
    BY <1>4, <1>5 DEF Inv, Places, Apart, Queued, Line
  <2>2. \A l \in Line : lines[l] \cap taken = {} => lines'[l] \cap taken = {}
    BY <1>4, <1>5
  <2> QED BY <1>1, <2>1, <2>2, Lines DEF Inv, Places, Apart, Other
<1>13. AtRest'
  BY <1>1, <1>3 DEF Inv, Places, AtRest
<1>14. KeptUnlessAcross'
  <2>1. i \notin across => i \in Queued'
    BY <1>1, <1>7, <1>8, Lines DEF Inv, Queued, Line
  <2> QED BY <1>1, <1>2, <1>8, <2>1 DEF Inv, Places, KeptUnlessAcross
<1> QED BY <1>6, <1>9, <1>10, <1>11, <1>12, <1>13, <1>14 DEF Inv, Places

(* The steps of Switch.                                                     *)
LEMMA TurnInv ==
  ASSUME Inv, Turn
  PROVE  Inv'
<1>1. /\ index' = Other(index) /\ index' \in Line /\ Other(index') = index
      /\ loop = "locked" /\ loop' = "turned"
      /\ across' = across \cup {i \in Item : push[i] = "read"}
      /\ UNCHANGED <<lines, inSwitch, push, ref, file, hasFile, taken>>
  BY Lines DEF Turn, Inv, producers, disk, history
<1>2. TypeOK'
  BY <1>1 DEF Turn, Inv, TypeOK, Loop, history
<1>3. HoldsNow'
  BY <1>1 DEF HoldsNow
<1>4. Queued' = Queued
  BY <1>1 DEF Queued
<1>5. Fresh' /\ KeptUnlessAcross'
  BY <1>1, <1>4 DEF Inv, Places, Fresh, KeptUnlessAcross
<1>6. Copied'
  BY <1>1 DEF Copied
<1>7. Apart'
  <2>1. Other(index)' = index
    BY <1>1 DEF Other
  <2> QED BY <1>1, <2>1 DEF Inv, Places, Apart
<1>8. AtRest'
  BY <1>1 DEF Inv, Places, AtRest
<1> QED BY <1>2, <1>3, <1>5, <1>6, <1>7, <1>8 DEF Inv, Places

LEMMA ToListInv ==
  ASSUME Inv, ToList
  PROVE  Inv' /\ hand' \cap taken = {}
<1>1. /\ loop = "list" /\ loop' = "listed"
      /\ hand' = lines[Other(index)] /\ taken' = taken \cup hand'
      /\ UNCHANGED <<lines, index, inSwitch, push, ref, file, hasFile, across>>
  BY DEF ToList, queue, producers, disk
<1>2. hand' \in SUBSET Item /\ Queued = lines[index] \cup hand'
  BY <1>1, Lines DEF Inv, TypeOK
<1>3. TypeOK'
  BY <1>1, <1>2 DEF ToList, Inv, TypeOK, Loop
<1>4. hand' \cap taken = {}
  BY <1>1 DEF Inv, Places, Apart
<1>5. HoldsNow' /\ Copied'
  BY <1>1 DEF Inv, Places, HoldsNow, Copied, Other
<1>6. Queued' = Queued
  BY <1>1 DEF Queued
<1>7. Fresh' /\ KeptUnlessAcross'
  BY <1>1, <1>2, <1>6 DEF Inv, Places, Fresh, KeptUnlessAcross
<1>8. Apart'
  <2>1. lines[index] \cap hand' = {}
    BY <1>1 DEF Inv, Places, Apart, TypeOK, Line, Other
  <2>2. file = {}
    BY <1>1 DEF Inv, Places, AtRest
  <2> QED BY <1>1, <2>1, <2>2 DEF Inv, Places, Apart
<1>9. AtRest'
  BY <1>1 DEF Inv, Places, AtRest
<1> QED BY <1>3, <1>4, <1>5, <1>7, <1>8, <1>9 DEF Inv, Places

LEMMA ReplaceInv ==
  ASSUME Inv, Replace
  PROVE  Inv'
<1>1. /\ loop = "listed" /\ loop' = "batch"
      /\ UNCHANGED <<index, inSwitch, push, file, hasFile, taken, across>>
  BY DEF Replace, disk, history
<1>2. lines'[Other(index)] = {} /\ lines'[index] = lines[index]
  BY Lines DEF Replace, Inv, TypeOK
<1>3. TypeOK'
  BY DEF Replace, Inv, TypeOK, Loop, Line, Other, disk, history
<1>4. Queued' = lines[index]
  <2>1. Queued' = lines'[index] \cup lines'[Other(index)]
    BY <1>1, Lines DEF Inv, Queued, Line
  <2> QED BY <1>2, <2>1
<1>5. HoldsNow'
  <2>1. \A i \in Item : ref[i] = index => ref'[i] = index
    BY Lines DEF Replace, Inv
  <2> QED BY <1>1, <2>1 DEF Inv, Places, HoldsNow
<1>6. Queued' \subseteq Queued
  BY <1>4, Lines DEF Inv
<1>7. Fresh'
  BY <1>1, <1>6 DEF Inv, Places, Fresh
<1>8. KeptUnlessAcross'
  BY <1>1, <1>4, Lines DEF Inv, Places, KeptUnlessAcross, Copied
<1>9. Apart'
  <2>1. lines'[1] \subseteq lines[1] /\ lines'[2] \subseteq lines[2]
    BY DEF Replace, Inv, TypeOK, Line
  <2> QED BY <1>1, <1>2, <2>1 DEF Inv, Places, Apart, Other
<1>10. Copied' /\ AtRest'
  BY <1>1 DEF Inv, Places, Copied, AtRest
<1> QED BY <1>3, <1>5, <1>7, <1>8, <1>9, <1>10 DEF Inv, Places

LEMMA ThreadInv ==
  ASSUME Inv, \/ BeginSwitch \/ Lock \/ EndSwitch \/ Start \/ Close \/ Leave \/ Throw
  PROVE  Inv'
<1>1. Places'
  <2>1. CASE BeginSwitch \/ Lock \/ EndSwitch
    BY <2>1, Quiet DEF BeginSwitch, Lock, EndSwitch, queue, producers, disk, history
  <2>2. CASE Start \/ Close \/ Leave \/ Throw
    BY <2>2, Quiet DEF Start, Close, Leave, Throw, queue, producers, disk, history
  <2> QED BY <2>1, <2>2
<1>2. TypeOK'
  <2>1. CASE BeginSwitch \/ Lock \/ EndSwitch
    BY <2>1 DEF BeginSwitch, Lock, EndSwitch, Inv, TypeOK, Loop, queue, producers,
                disk, history
  <2>2. CASE Start \/ Leave
    BY <2>2 DEF Start, Leave, Inv, TypeOK, Loop, queue, producers, disk, history
  <2>3. CASE Close \/ Throw
    <3>1. stops' \in Nat
      BY <2>3 DEF Close, Throw, Inv, TypeOK
    <3>2. running' = FALSE /\ hand' \in SUBSET Item /\ dropped' \in SUBSET Item
          /\ loop' \in Loop
      BY <2>3 DEF Close, Throw, Inv, TypeOK, Loop, history
    <3>3. UNCHANGED <<queue, producers, tson, disk, taken, skipped, across>>
      BY <2>3 DEF Close, Throw, history
    <3> QED BY <3>1, <3>2, <3>3 DEF Inv, TypeOK, queue, producers, disk
  <2> QED BY <2>1, <2>2, <2>3
<1> QED BY <1>1, <1>2 DEF Inv

LEMMA SendInv ==
  ASSUME Inv, NEW p \in SUBSET Item, SendPortion(p)
  PROVE  Inv' /\ hand' \subseteq hand
<1> DEFINE rest == hand \ p
<1>1. \/ hand' = rest /\ UNCHANGED <<loop, skipped>>
      \/ hand' = {} /\ loop' = "idle" /\ skipped' = skipped \cup rest
  BY DEF SendPortion
<1>2. loop = "batch" /\ UNCHANGED <<queue, producers, running, tson, disk, taken, across, stops>>
  BY DEF SendPortion
<1>3. dropped' \in SUBSET Item
  BY DEF SendPortion, Inv, TypeOK
<1>4. TypeOK'
  BY <1>1, <1>2, <1>3 DEF Inv, TypeOK, Loop, queue, producers, disk
<1>5. Places'
  BY <1>1, <1>2, Quiet DEF queue, producers, disk
<1> QED BY <1>1, <1>4, <1>5 DEF Inv

(* The process ends and begins anew.                                        *)
LEMMA LoadInv ==
  ASSUME Inv, Load
  PROVE  Inv'
<1>1. /\ loop = "down" /\ loop' = "stopped"
      /\ lines'[1] = file /\ lines'[2] = {} /\ file' = {}
      /\ UNCHANGED <<push, ref, taken, across>>
  BY DEF Load, Line, producers, history
<1>2. Queued = {} /\ \A i \in Item : push[i] \in {"new", "done", "cut"}
  BY <1>1 DEF Inv, Places, AtRest
<1>3. index' \in {1, 2} /\ Other(index)' \in {1, 2}
  BY DEF Load, Other
<1>4. TypeOK'
  BY DEF Load, Inv, TypeOK, Loop, Line, producers, history
<1>5. Queued' = file
  BY <1>1 DEF Queued
<1>6. HoldsNow'
  BY <1>1, <1>2 DEF HoldsNow
<1>7. Fresh' /\ KeptUnlessAcross'
  BY <1>1, <1>2, <1>5 DEF Inv, Places, Fresh, KeptUnlessAcross
<1>8. Apart'
  BY <1>1, <1>3 DEF Inv, Places, Apart
<1>9. Copied' /\ AtRest'
  BY <1>1 DEF Copied, AtRest
<1> QED BY <1>4, <1>6, <1>7, <1>8, <1>9 DEF Inv, Places

LEMMA SaveInv ==
  ASSUME Inv, Save
  PROVE  Inv'
<1>1. /\ loop = "stopped" /\ loop' = "down"
      /\ file' = Queued /\ lines'[1] = {} /\ lines'[2] = {}
      /\ UNCHANGED <<index, ref, taken, across>>
  BY DEF Save, Line, history
<1>2. file = {}
  BY <1>1 DEF Inv, Places, AtRest
<1>3. \A i \in Item : push'[i] \in {"new", "done", "cut"}
  BY DEF Save, Inv, TypeOK, Push
<1>10. \A i \in Item : push'[i] = "done" <=> push[i] = "done"
  BY DEF Save, Inv, TypeOK
<1>4. TypeOK'
  <2>1. push' \in [Item -> Push]
    BY DEF Save, Inv, TypeOK, Push
  <2>2. file' \in SUBSET Item
    BY <1>1 DEF Inv, TypeOK, Queued, Line
  <2> QED BY <1>1, <2>1, <2>2 DEF Save, Inv, TypeOK, Loop, Line, history
<1>5. Queued' = {}
  BY <1>1 DEF Queued
<1>6. HoldsNow'
  BY <1>3 DEF HoldsNow
<1>7. Fresh' /\ KeptUnlessAcross'
  BY <1>10, <1>1, <1>2, <1>5 DEF Inv, Places, Fresh, KeptUnlessAcross
<1>8. Apart'
  <2>1. file' \cap taken = {}
    BY <1>1, Lines DEF Inv, Places, Apart
  <2>2. index \in {1, 2} /\ Other(index) \in {1, 2}
    BY Lines DEF Inv, Line
  <2> QED BY <1>1, <2>1, <2>2 DEF Apart, Other
<1>9. Copied' /\ AtRest'
  BY <1>1, <1>3, <1>5 DEF Copied, AtRest
<1> QED BY <1>4, <1>6, <1>7, <1>8, <1>9 DEF Inv, Places

LEMMA NextInv == Inv /\ [Next]_vars => Inv'
<1> SUFFICES ASSUME Inv, [Next]_vars PROVE Inv'
  OBVIOUS
<1>1. CASE UNCHANGED vars
  <2>1. Places'
    BY <1>1, Quiet DEF vars, queue, disk, history
  <2>2. TypeOK'
    BY <1>1 DEF vars, queue, producers, disk, history, Inv, TypeOK
  <2> QED BY <2>1, <2>2 DEF Inv
<1>2. CASE Pushing
  BY <1>2, EnterInv, AddInv DEF Pushing
<1>3. CASE Switching
  BY <1>3, ThreadInv, TurnInv, ToListInv, ReplaceInv DEF Switching
<1>4. CASE Sending
  BY <1>4, SendInv DEF Sending
<1> QED BY <1>1, <1>2, <1>3, <1>4, ThreadInv, LoadInv, SaveInv DEF Next

LEMMA NextHandsOnce ==
  Inv /\ [Next]_vars => [hand' \subseteq hand \/ hand' \cap taken = {}]_vars
<1> SUFFICES ASSUME Inv, Next PROVE hand' \subseteq hand \/ hand' \cap taken = {}
  BY DEF vars
<1>1. CASE Pushing
  BY <1>1 DEF Pushing, EnterPush, PassLock, ReadNow, Add
<1>2. CASE Switching
  BY <1>2, ToListInv DEF Switching, BeginSwitch, Lock, Turn, EndSwitch, Replace
<1>3. CASE Sending
  BY <1>3, SendInv DEF Sending
<1>4. CASE Throw \/ Load \/ Start \/ Close \/ Leave \/ Save
  BY <1>4 DEF Throw, Load, Start, Close, Leave, Save
<1> QED BY <1>1, <1>2, <1>3, <1>4 DEF Next

-----------------------------------------------------------------------------
(* No order of pushes, switches, closes and restarts loses an item in the   *)
(* queue (SyncBatchQueue.cs) whose push was not crossed by a turn.          *)
THEOREM QueueKeeps == Spec => []KeptUnlessAcross
<1>1. Inv => KeptUnlessAcross
  BY DEF Inv, Places
<1> QED BY <1>1, InitInv, NextInv, PTL DEF Spec

(* Switch never returns an item twice (SyncBatchQueue.cs:63-94).            *)
THEOREM QueueHandsOnce == Spec => HandedOnce
<1> QED BY InitInv, NextInv, NextHandsOnce, PTL DEF Spec, HandedOnce

(* Every item, line and bag reference is of its kind in every behaviour.    *)
THEOREM QueueTyped == Spec => []TypeOK
<1>1. Inv => TypeOK
  BY DEF Inv
<1> QED BY <1>1, InitInv, NextInv, PTL DEF Spec

-----------------------------------------------------------------------------
(* SkipsBigOnly rests on the batch in hand being part of what was taken.    *)
HandTaken == hand \subseteq taken
SkipInv == HandTaken /\ SkipsBigOnly

LEMMA Sizes ==
  ASSUME NEW S \in SUBSET Item, NEW T, T \subseteq S
  PROVE  /\ Cardinality(S) \in Nat /\ Cardinality(T) \in Nat
         /\ Cardinality(T) <= Cardinality(S)
         /\ Cardinality(T) = Cardinality(S) => T = S
<1>1. IsFiniteSet(S)
  BY BatchAssumption, FS_Subset
<1>2. T \in SUBSET S /\ IsFiniteSet(T)
  BY <1>1, FS_Subset
<1> QED BY <1>1, <1>2, FS_Subset, FS_CardinalityType

(* A step that takes more, if anything, and skips nothing.                  *)
LEMMA NoSkip ==
  ASSUME Inv, SkipInv, UNCHANGED <<tson, skipped>>, taken \subseteq taken', taken' \in SUBSET Item,
         hand' \subseteq taken'
  PROVE  SkipInv'
<1>1. Cardinality(taken) \in Nat /\ Cardinality(taken') \in Nat
      /\ Cardinality(taken) <= Cardinality(taken')
  BY Sizes DEF Inv, TypeOK
<1>2. SkipsBigOnly'
  <2>1. CASE skipped = {}
    BY <2>1 DEF SkipsBigOnly
  <2>2. CASE skipped # {}
    <3>1. ~tson /\ Cardinality(taken) > Limit
      BY <2>2 DEF SkipInv, SkipsBigOnly
    <3>2. Cardinality(taken') > Limit
      BY <1>1, <3>1, BatchAssumption
    <3> QED BY <3>1, <3>2 DEF SkipsBigOnly
  <2> QED BY <2>1, <2>2
<1> QED BY <1>2 DEF SkipInv, HandTaken

LEMMA SendSkip ==
  ASSUME Inv, SkipInv, NEW p \in SUBSET Item, SendPortion(p)
  PROVE  SkipInv'
<1> DEFINE rest == hand \ p
<1>1. /\ p \subseteq hand /\ Cardinality(p) = Size
      /\ UNCHANGED <<tson, taken>>
      /\ IF Another(rest) THEN hand' = rest /\ UNCHANGED skipped
         ELSE hand' = {} /\ skipped' = skipped \cup rest
  BY DEF SendPortion
<1>2. HandTaken'
  BY <1>1 DEF SkipInv, HandTaken
<1>3. CASE skipped' = skipped
  BY <1>1, <1>2, <1>3 DEF SkipInv, SkipsBigOnly
<1>4. CASE ~Another(rest) /\ rest # {}
  <2>1. ~tson
    BY <1>4 DEF Another
  <2>2. Cardinality(hand) > Limit
    <3>1. Cardinality(hand) \in Nat /\ (Cardinality(p) = Cardinality(hand) => p = hand)
      BY <1>1, Sizes DEF Inv, TypeOK
    <3>2. CASE ~(Cardinality(hand) > Limit)
      <4>1. Size = Cardinality(hand)
        BY <2>1, <3>2 DEF Size
      <4> QED BY <1>1, <1>4, <3>1, <4>1
    <3> QED BY <3>2
  <2>3. Cardinality(taken) > Limit
    <3>1. /\ Cardinality(hand) \in Nat /\ Cardinality(taken) \in Nat
          /\ Cardinality(hand) <= Cardinality(taken)
      BY Sizes DEF Inv, TypeOK, SkipInv, HandTaken
    <3> QED BY <2>2, <3>1, BatchAssumption
  <2> QED BY <1>1, <1>2, <2>1, <2>3 DEF SkipInv, SkipsBigOnly
<1>5. CASE ~Another(rest) /\ rest = {}
  BY <1>1, <1>3, <1>5
<1> QED BY <1>1, <1>3, <1>4, <1>5

LEMMA NextSkip == Inv /\ SkipInv /\ [Next]_vars => SkipInv'
<1> SUFFICES ASSUME Inv, SkipInv, [Next]_vars PROVE SkipInv'
  OBVIOUS
<1>1. CASE ToList
  <2>1. hand' \in SUBSET Item
    BY <1>1, ToListInv DEF Inv, TypeOK
  <2> QED BY <1>1, <2>1, NoSkip DEF ToList, Inv, TypeOK
<1>2. CASE Sending
  BY <1>2, SendSkip DEF Sending
<1>3. CASE \/ Pushing \/ BeginSwitch \/ Lock \/ Turn \/ EndSwitch \/ Replace
           \/ Throw \/ Load \/ Start \/ Close \/ Leave \/ Save \/ UNCHANGED vars
  <2>1. UNCHANGED <<tson, skipped, taken>> /\ hand' \subseteq hand
    BY <1>3 DEF Pushing, EnterPush, PassLock, ReadNow, Add, BeginSwitch, Lock, Turn, EndSwitch,
                Replace, Throw, Load, Start, Close, Leave, Save, vars, history
  <2> QED BY <2>1, NoSkip DEF Inv, TypeOK, SkipInv, HandTaken
<1> QED BY <1>1, <1>2, <1>3 DEF Next, Switching

(* BatchPublisher (BatchPublisher.cs:110-133) passes items over only of a   *)
(* batch above the limit of a publisher without a TsonOperator, for every   *)
(* size of portion and limit.                                               *)
THEOREM QueueSkipsBig == Spec => []SkipsBigOnly
<1>1. Init => SkipInv
  BY DEF Init, SkipInv, HandTaken, SkipsBigOnly
<1>2. SkipInv => SkipsBigOnly
  BY DEF SkipInv
<1> QED BY <1>1, <1>2, InitInv, NextInv, NextSkip, PTL DEF Spec

-----------------------------------------------------------------------------
(* The refinement: each step is one of Handover or leaves place and across. *)
LEMMA InitPromise == Init => Promise!Init
<1> SUFFICES ASSUME Init PROVE Promise!Init
  OBVIOUS
<1>1. Waiting = {} /\ taken = {}
  BY DEF Init, Waiting, Queued, Line
<1>2. \A i \in Item : Place(i) = "new"
  BY <1>1 DEF Init, Place
<1>3. place = [i \in Item |-> "new"]
  BY <1>2 DEF place
<1> QED BY <1>3 DEF Init, Promise!Init

LEMMA SamePlace ==
  ASSUME Waiting' = Waiting, taken' = taken, across' = across,
         \A i \in Item : push'[i] = "done" <=> push[i] = "done"
  PROVE  UNCHANGED Promise!vars
<1>1. \A i \in Item : Place(i)' = Place(i)
  BY DEF Place
<1> QED BY <1>1 DEF place, Promise!vars

(* What moves the items of S, and no others, is a Move of Handover.         *)
LEMMA MovesPlace ==
  ASSUME NEW S \in SUBSET Item, NEW there,
         \A i \in Item : Place(i)' = IF i \in S THEN there ELSE Place(i)
  PROVE  Promise!Move(S, there)
BY DEF Promise!Move, place

LEMMA InPlace ==
  ASSUME NEW i \in Item, NEW here, Place(i) = here
  PROVE  i \in Promise!In(here)
BY DEF Promise!In, place

(* Until its push is done, an item is new.                                  *)
LEMMA NotDoneNew ==
  ASSUME Inv, NEW i \in Item, push[i] # "done"
  PROVE  Place(i) = "new" /\ i \notin Waiting \cup taken
<1>1. i \notin Queued \cup file \cup taken
  BY DEF Inv, Places, Fresh
<1>2. Waiting \subseteq Queued \cup file
  BY Lines DEF Inv, Waiting
<1> QED BY <1>1, <1>2 DEF Place

LEMMA AddPromise ==
  ASSUME Inv, NEW i \in Item, Add(i)
  PROVE  Promise!Next
<1>1. push[i] = "read" /\ ref[i] \in {0, 1, 2}
  BY DEF Add, Inv, TypeOK, Line, Gone
<1>2. Place(i) = "new" /\ i \notin Waiting \cup taken
  BY <1>1, NotDoneNew
<1>3. UNCHANGED <<index, loop, file, taken, across>>
  BY DEF Add, disk, history
<1>4. \A j \in Item : push'[j] = IF j = i THEN "done" ELSE push[j]
  BY DEF Add, Inv, TypeOK
<1>5. \A l \in Line : lines'[l] = IF l = ref[i] THEN lines[l] \cup {i} ELSE lines[l]
  BY DEF Add
<1>6. CASE ref[i] = Gone
  <2>1. lines'[1] = lines[1] /\ lines'[2] = lines[2]
    BY <1>5, <1>6 DEF Line, Gone
  <2>2. Waiting' = Waiting
    <3>1. Queued' = Queued /\ Other(index)' = Other(index)
      BY <1>3, <2>1 DEF Queued, Other
    <3>2. lines'[index] = lines[index] /\ lines'[Other(index)] = lines[Other(index)]
      BY <2>1, Lines DEF Inv, Line
    <3> QED BY <1>3, <3>1, <3>2 DEF Waiting
  <2>3. \A j \in Item : Place(j)' = IF j \in {i} THEN "lost" ELSE Place(j)
    BY <1>2, <1>3, <1>4, <2>2 DEF Place
  <2>4. i \in across
    BY <1>1, <1>6 DEF Inv, Places, HoldsNow, TypeOK, Line, Gone
  <2>5. Promise!Lose({i})
    BY <1>2, <1>3, <2>3, <2>4, MovesPlace, InPlace DEF Promise!Lose
  <2> QED BY <2>5 DEF Promise!Next
<1>7. CASE ref[i] \in Line
  <2>1. Waiting' = Waiting \cup {i}
    <3>1. /\ index \in {1, 2} /\ Other(index) \in {1, 2} /\ Other(index)' = Other(index)
          /\ ref[i] = index \/ ref[i] = Other(index)
      BY <1>3, <1>7 DEF Inv, TypeOK, Line, Other
    <3>2. Queued' = Queued \cup {i}
      BY <1>5, <1>7 DEF Queued, Line
    <3>3. \A l \in {1, 2} : lines'[l] = IF l = ref[i] THEN lines[l] \cup {i} ELSE lines[l]
      BY <1>5 DEF Line
    <3> QED BY <1>2, <1>3, <3>1, <3>2, <3>3 DEF Waiting
  <2>2. \A j \in Item : Place(j)' = IF j \in {i} THEN "queued" ELSE Place(j)
    BY <1>2, <1>3, <1>4, <2>1 DEF Place
  <2>3. Promise!Accept(i)
    BY <1>2, <1>3, <2>2, MovesPlace, InPlace DEF Promise!Accept
  <2> QED BY <2>3 DEF Promise!Next
<1> QED BY <1>1, <1>6, <1>7 DEF Line, Gone

LEMMA TurnPromise ==
  ASSUME Inv, Turn
  PROVE  Promise!Next
<1> DEFINE S == {i \in Item : push[i] = "read"}
<1>1. /\ loop = "locked" /\ loop' = "turned" /\ across' = across \cup S
      /\ UNCHANGED <<lines, push, file, taken>>
  BY DEF Turn, producers, disk, history
<1>2. Waiting' = Waiting
  BY <1>1 DEF Waiting, Queued
<1>3. \A i \in Item : Place(i)' = Place(i)
  BY <1>1, <1>2 DEF Place
<1>4. S \subseteq Promise!In("new")
  BY NotDoneNew, InPlace
<1>5. Promise!Cross(S)
  BY <1>1, <1>3, <1>4 DEF Promise!Cross, place
<1> QED BY <1>5 DEF Promise!Next

LEMMA ToListPromise ==
  ASSUME Inv, ToList
  PROVE  Promise!Next
<1>1. /\ loop = "list" /\ loop' = "listed"
      /\ hand' = lines[Other(index)] /\ taken' = taken \cup hand'
      /\ UNCHANGED <<lines, index, push, file, across>>
  BY DEF ToList, queue, producers, disk
<1>2. hand' \in SUBSET Item /\ Queued = lines[index] \cup hand' /\ file = {}
  BY <1>1, Lines DEF Inv, TypeOK, Places, AtRest
<1>3. hand' \cap lines[index] = {} /\ hand' \cap taken = {}
  BY <1>1, Lines DEF Inv, Places, Apart, Line
<1>4. Waiting = lines[index] \cup hand'
  BY <1>1, <1>2 DEF Waiting
<1>5. Waiting' = lines[index]
  BY <1>1, <1>2 DEF Waiting, Other
<1>6. \A i \in Item : Place(i)' = IF i \in hand' THEN "handed" ELSE Place(i)
  BY <1>1, <1>3, <1>4, <1>5 DEF Place
<1>7. hand' \subseteq Promise!In("queued")
  <2>1. \A i \in Item : i \in hand' => Place(i) = "queued"
    BY <1>4 DEF Place
  <2> QED BY <1>2, <2>1, InPlace
<1>8. Promise!Hand(hand')
  BY <1>1, <1>2, <1>6, <1>7, MovesPlace DEF Promise!Hand
<1> QED BY <1>2, <1>8 DEF Promise!Next

LEMMA ReplacePromise ==
  ASSUME Inv, Replace
  PROVE  Promise!Next
<1> DEFINE S == lines[Other(index)] \ taken
<1>1. /\ loop = "listed" /\ loop' = "batch"
      /\ UNCHANGED <<index, push, file, taken, across>>
  BY DEF Replace, disk, history
<1>2. file = {} /\ S \in SUBSET Item /\ S \subseteq across
  BY <1>1, Lines DEF Inv, TypeOK, Places, AtRest, Copied
<1>3. lines'[Other(index)] = {} /\ lines'[index] = lines[index]
  BY Lines DEF Replace, Inv, TypeOK
<1>4. Waiting = lines[index] \cup S /\ S \cap lines[index] = {}
  BY <1>1, <1>2, Lines DEF Waiting, Inv, Places, Apart, Line
<1>5. Waiting' = lines[index]
  <2>1. Queued' = lines'[index] \cup lines'[Other(index)]
    BY Lines DEF Inv, Queued, Line
  <2> QED BY <1>1, <1>2, <1>3, <2>1 DEF Waiting
<1>6. \A i \in Item : i \in S => push[i] = "done"
  BY Lines DEF Inv, Places, Fresh
<1>7. \A i \in Item : Place(i)' = IF i \in S THEN "lost" ELSE Place(i)
  BY <1>1, <1>4, <1>5, <1>6 DEF Place
<1>8. S \subseteq Promise!In("queued")
  <2>1. \A i \in Item : i \in S => Place(i) = "queued"
    BY <1>4 DEF Place
  <2> QED BY <1>2, <2>1, InPlace
<1>9. Promise!Lose(S)
  BY <1>1, <1>2, <1>7, <1>8, MovesPlace DEF Promise!Lose
<1> QED BY <1>2, <1>9 DEF Promise!Next

(* The steps that move no item.                                             *)
LEMMA RestPromise ==
  ASSUME Inv,
         \/ \E i \in Item : EnterPush(i) \/ PassLock(i) \/ ReadNow(i)
         \/ BeginSwitch \/ Lock \/ EndSwitch \/ Sending
         \/ Throw \/ Load \/ Start \/ Close \/ Leave \/ Save
  PROVE  UNCHANGED Promise!vars
<1>1. CASE \E i \in Item : EnterPush(i) \/ PassLock(i) \/ ReadNow(i)
  <2>1. UNCHANGED <<queue, loop, disk, history, across>>
    BY <1>1 DEF EnterPush, PassLock, ReadNow
  <2>2. \A i \in Item : push'[i] = "done" <=> push[i] = "done"
    BY <1>1 DEF EnterPush, PassLock, ReadNow, Inv, TypeOK
  <2>3. Waiting' = Waiting
    BY <2>1 DEF queue, disk, Waiting, Queued, Other, history
  <2> QED BY <2>1, <2>2, <2>3, SamePlace DEF history
<1>2. CASE Load
  <2>1. /\ loop = "down" /\ loop' = "stopped" /\ lines'[1] = file /\ lines'[2] = {} /\ file' = {}
        /\ UNCHANGED <<push, taken, across>>
    BY <1>2 DEF Load, Line, producers, history
  <2>2. Queued = {}
    BY <2>1 DEF Inv, Places, AtRest
  <2>3. Waiting' = Waiting
    BY <2>1, <2>2 DEF Waiting, Queued
  <2> QED BY <2>1, <2>3, SamePlace
<1>3. CASE Save
  <2>1. /\ loop = "stopped" /\ loop' = "down" /\ file' = Queued /\ lines'[1] = {} /\ lines'[2] = {}
        /\ UNCHANGED <<taken, across>>
    BY <1>3 DEF Save, Line, history
  <2>2. file = {}
    BY <2>1 DEF Inv, Places, AtRest
  <2>3. Waiting' = Waiting
    BY <2>1, <2>2 DEF Waiting, Queued
  <2>4. \A i \in Item : push'[i] = "done" <=> push[i] = "done"
    BY <1>3 DEF Save, Inv, TypeOK
  <2> QED BY <2>1, <2>3, <2>4, SamePlace
<1>4. CASE BeginSwitch \/ Lock \/ EndSwitch \/ Sending \/ Throw \/ Start \/ Close \/ Leave
  <2>1. UNCHANGED <<lines, index, push, file, taken, across>>
    BY <1>4 DEF BeginSwitch, Lock, EndSwitch, Sending, SendPortion, Throw, Start, Close, Leave,
                queue, producers, disk, history
  <2>2. (loop # "listed" /\ loop' # "listed") \/ loop' = loop
    BY <1>4 DEF BeginSwitch, Lock, EndSwitch, Sending, SendPortion, Throw, Start, Close, Leave
  <2>3. Waiting' = Waiting
    BY <2>1, <2>2 DEF Waiting, Queued, Other
  <2> QED BY <2>1, <2>3, SamePlace
<1> QED BY <1>1, <1>2, <1>3, <1>4

LEMMA NextPromise == Inv /\ [Next]_vars => [Promise!Next]_(Promise!vars)
<1> SUFFICES ASSUME Inv, [Next]_vars PROVE Promise!Next \/ UNCHANGED Promise!vars
  OBVIOUS
<1>1. CASE UNCHANGED vars
  <2>1. Waiting' = Waiting
    BY <1>1 DEF vars, queue, disk, Waiting, Queued, Other, history
  <2> QED BY <1>1, <2>1, SamePlace DEF vars, producers, history
<1>2. CASE Pushing
  BY <1>2, RestPromise, AddPromise DEF Pushing
<1>3. CASE Switching
  BY <1>3, RestPromise, TurnPromise, ToListPromise, ReplacePromise DEF Switching
<1> QED BY <1>1, <1>2, <1>3, RestPromise DEF Next

(* The lines, bags and the cache file of SyncBatchQueue.cs implement the    *)
(* queue of Handover, for any number of pushes and any closes and restarts. *)
THEOREM HandsOverProved == Spec => HandsOver
<1> QED BY InitInv, NextInv, InitPromise, NextPromise, PTL DEF Spec, HandsOver, Promise!Spec
=============================================================================
