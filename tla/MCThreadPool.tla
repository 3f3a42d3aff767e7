---------------------------- MODULE MCThreadPool ----------------------------
(***************************************************************************)
(* Three workers, one more than kThreadNumber (src/src/gc/alloc_config.h)  *)
(* gives the pool, and three tasks.                                        *)
(***************************************************************************)
EXTENDS ThreadPool
=============================================================================
