---------------------------- MODULE MCReferences ----------------------------
(***************************************************************************)
(* References on blocks of one node, so that every deletion and creation   *)
(* changes the list that a collection walks over.                          *)
(***************************************************************************)
EXTENDS References, TLC

Symmetry == Permutations(Obj) \cup Permutations(Ref)
=============================================================================
