----------------------------- MODULE Handover -----------------------------
(***************************************************************************)
(* What a queue between producers and one consumer promises                 *)
(* (Queue/SyncBatchQueue.cs: "a thread-safe synchronised list", Push and    *)
(* Switch), without lines, bags and files: an item that is pushed is queued *)
(* until it is handed out, with any others, and is never queued again.      *)
(* This queue promises that only to a push which no turn of its lines       *)
(* crosses.                                                                 *)
(***************************************************************************)
CONSTANT Item

VARIABLES
  where,        \* where each item is
  crossed       \* the items that may be lost

vars == <<where, crossed>>

Init == where = [i \in Item |-> "new"] /\ crossed = {}

Move(S, there) == where' = [i \in Item |-> IF i \in S THEN there ELSE where[i]]

In(here) == {i \in Item : where[i] = here}

Accept(i) ==
  /\ i \in In("new") /\ Move({i}, "queued")
  /\ UNCHANGED crossed

Hand(S) ==
  /\ S \subseteq In("queued") /\ Move(S, "handed")
  /\ UNCHANGED crossed

(* A turn of the lines crosses the pushes that are under way.               *)
Cross(S) ==
  /\ S \subseteq In("new") /\ crossed' = crossed \cup S
  /\ UNCHANGED where

Lose(S) ==
  /\ S \subseteq crossed \cap (In("new") \cup In("queued")) /\ Move(S, "lost")
  /\ UNCHANGED crossed

Next == \/ \E i \in Item : Accept(i)
        \/ \E S \in SUBSET Item : Hand(S) \/ Cross(S) \/ Lose(S)

Spec == Init /\ [][Next]_vars
=============================================================================
