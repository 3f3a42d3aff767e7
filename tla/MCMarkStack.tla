---------------------------- MODULE MCMarkStack ----------------------------
(***************************************************************************)
(* MarkStack with nodes of one entry.  The objects are alike; the nodes    *)
(* are not, because CHOOSE tells them apart.  HasMemory never fails: there *)
(* are more nodes than one worker and three objects can use.               *)
(***************************************************************************)
EXTENDS MarkStack, TLC

CONSTANT LastNode

MCNode == 1..LastNode
MCInitialNodes == 1..(2 * Cardinality(Thread) + 1)
Symmetry == Permutations(Obj)
=============================================================================
