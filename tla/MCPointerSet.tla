---------------------------- MODULE MCPointerSet ----------------------------
(***************************************************************************)
(* PointerSet with four pointers, which fill a table of eight slots as far *)
(* as one is ever filled, under every hash function modulo eight.          *)
(***************************************************************************)
EXTENDS PointerSet, TLC

CONSTANTS p1, p2, p3, p4

HashModulo == 0..7

\* The pointers differ in their hash only.
Symmetry == Permutations(Ptr)
=============================================================================
