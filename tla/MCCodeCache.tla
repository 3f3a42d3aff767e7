---------------------------- MODULE MCCodeCache ----------------------------
(***************************************************************************)
(* CodeCache on two names and two lengths: two threads of one process, or  *)
(* of two processes with different capacities.                             *)
(***************************************************************************)
EXTENDS CodeCache, TLC

CONSTANTS proc1, proc2, t1, t2, a, b, small, large

\* Two entries of a length each fit, and a large one only alone.
LengthOf == [d \in Data |-> IF d = large THEN 2 ELSE 1]

\* Both threads in one process, or each in its own.
OneOrTwo ==
  {[t \in Thread |-> proc1], [t \in Thread |-> IF t = t2 THEN proc2 ELSE proc1]}
CapacityOfEach == [r \in Process |-> IF r = proc2 THEN 1 ELSE 2]
OutputOfEach == [r \in Process |-> IF r = proc2 THEN 1 ELSE 2]

\* No file, one that is not a cache file, one that is full.
Broken == [state |-> "broken", content |-> Nothing, version |-> <<>>]
Full == [state |-> "whole", content |-> [n \in Name |-> small], version |-> <<>>]
AnyFile == {Missing, Broken, Full}
=============================================================================
