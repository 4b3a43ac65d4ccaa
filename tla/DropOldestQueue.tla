--------------------------- MODULE DropOldestQueue ---------------------------
(***************************************************************************)
(* What a receive buffer promises: a queue of at most Capacity items that  *)
(* always keeps the newest ones.  Items are numbered in the order they     *)
(* arrive, so that losing, repeating or swapping one can be seen.          *)
(***************************************************************************)
EXTENDS Naturals, Sequences

CONSTANTS Capacity, Batch   \* items kept; items one put adds at most

VARIABLES items, next   \* the items kept, and the number of the next to come

vars == <<items, next>>

Newest(s) == SubSeq(s, IF Len(s) > Capacity THEN Len(s) - Capacity + 1 ELSE 1, Len(s))

Init == items = <<>> /\ next = 1

Put(k) ==
    /\ items' = Newest(items \o [i \in 1..k |-> next + i - 1])
    /\ next' = next + k

Take(k) ==
    /\ items' = SubSeq(items, k + 1, Len(items))
    /\ next' = next

Next == (\E k \in 1..Batch : Put(k)) \/ (\E k \in 1..Len(items) : Take(k))

Spec == Init /\ [][Next]_vars
==============================================================================
