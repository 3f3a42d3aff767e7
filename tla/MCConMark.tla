----------------------------- MODULE MCConMark -----------------------------
(***************************************************************************)
(* ConMark on two or three objects and one or two workers.  The objects    *)
(* play different parts (Frame, Host, ...); the workers are alike, which   *)
(* the runs without liveness properties use.                               *)
(***************************************************************************)
EXTENDS ConMark, TLC

Symmetry == Permutations(Workers)
=============================================================================
