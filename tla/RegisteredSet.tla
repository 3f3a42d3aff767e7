--------------------------- MODULE RegisteredSet ---------------------------
(***************************************************************************)
(* What gc/pointer_set.h promises: a set, of which one traversal at a time *)
(* hands every member, once, to a callback that may insert.                *)
(***************************************************************************)
CONSTANT Ptr

VARIABLES
  members,     \* the set, without what a traversal has still to pass on
  pending,     \* what a traversal has still to pass on
  traversal    \* "none", "RetainIf" or "Drain"

vars == <<members, pending, traversal>>

Init == members = {} /\ pending = {} /\ traversal = "none"

Insert(p) == members' = members \cup {p} /\ UNCHANGED <<pending, traversal>>

Erase(p) == traversal = "none" /\ members' = members \ {p} /\ UNCHANGED <<pending, traversal>>

Clear == traversal = "none" /\ members' = {} /\ UNCHANGED <<pending, traversal>>

Begin(kind) ==
  /\ traversal = "none" /\ members # {}
  /\ members' = {} /\ pending' = members /\ traversal' = kind

\* RetainIf keeps what the callback accepts and what it inserts, Drain nothing.
PassOn(p) ==
  /\ p \in pending
  /\ pending' = pending \ {p}
  /\ traversal' = IF pending' = {} THEN "none" ELSE traversal
  /\ \/ traversal = "RetainIf" /\ members' \in {members, members \cup {p}}
     \/ traversal = "Drain" /\ members' = IF pending' = {} THEN {} ELSE members

Next ==
  \/ \E p \in Ptr : Insert(p) \/ Erase(p) \/ PassOn(p)
  \/ Clear \/ Begin("RetainIf") \/ Begin("Drain")

Spec == Init /\ [][Next]_vars
=============================================================================
