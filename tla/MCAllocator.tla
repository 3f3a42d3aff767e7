---------------------------- MODULE MCAllocator ----------------------------
(***************************************************************************)
(* Allocator on pages of two cells, with a class of runs of two slots and  *)
(* one of runs of a single slot.  The cells of a page and the workers are  *)
(* interchangeable; the pages are not, since large objects need            *)
(* neighbours.                                                             *)
(***************************************************************************)
EXTENDS Allocator, TLC

CONSTANTS c1, c2

MCPage == 1..LastPage
MCSlotsIn == [small |-> {{c1}, {c2}}, big |-> {{c1, c2}}]
MCSymmetry == Permutations(Workers) \cup Permutations(Cell)
=============================================================================
