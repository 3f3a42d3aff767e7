------------------------------ MODULE Worklist ------------------------------
(***************************************************************************)
(* What ConMark.tla takes the mark stack to be: a set of marked objects    *)
(* that are still to be visited.  None gets lost, and the work ends only   *)
(* when none is left.  MarkStack.tla is shown to implement it.             *)
(***************************************************************************)
CONSTANT Obj

VARIABLES
  marked,    \* the objects marked since the bitmap was reset
  pending,   \* those of them whose fields were not all visited yet
  ended      \* the workers were waited for, and the nodes are taken back

vars == <<marked, pending, ended>>

TypeOK == marked \subseteq Obj /\ pending \subseteq marked /\ ended \in BOOLEAN

Init == marked = {} /\ pending = {} /\ ended = FALSE

Mark(o) ==
  /\ ~ended /\ o \notin marked
  /\ marked' = marked \cup {o} /\ pending' = pending \cup {o}
  /\ UNCHANGED ended

Visit(o) ==
  /\ o \in pending
  /\ pending' = pending \ {o}
  /\ UNCHANGED <<marked, ended>>

End ==
  /\ ~ended /\ pending = {}
  /\ ended' = TRUE
  /\ UNCHANGED <<marked, pending>>

\* The bitmap is reset: after the sweep, or because the marking is abandoned.
Reset ==
  /\ marked' = {} /\ pending' = {} /\ ended' = FALSE

Next ==
  \/ \E o \in Obj : Mark(o) \/ Visit(o)
  \/ End \/ Reset

Spec == Init /\ [][Next]_vars
=============================================================================
