---------------------------- MODULE ObjectStore ----------------------------
(***************************************************************************)
(* What the allocator and its sweep promise: an object is a set of cells;  *)
(* objects in use share none; a collection dooms some of them, those and   *)
(* no others are reclaimed, and all of them before the next collection.    *)
(***************************************************************************)
CONSTANT Object   \* every set of cells that an object can occupy

VARIABLES
  objects,  \* the objects in use
  doomed    \* those that the collection found to be garbage

vars == <<objects, doomed>>

Init == objects = {} /\ doomed = {}

Allocate ==
  \E o \in Object :
    /\ \A other \in objects : other \cap o = {}
    /\ objects' = objects \cup {o}
    /\ UNCHANGED doomed

Collect ==
  /\ doomed = {}
  /\ doomed' \subseteq objects
  /\ UNCHANGED objects

Reclaim ==
  \E some \in SUBSET doomed :
    /\ objects' = objects \ some
    /\ doomed' = doomed \ some

Next == Allocate \/ Collect \/ Reclaim

Spec == Init /\ [][Next]_vars
=============================================================================
