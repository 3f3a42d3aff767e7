--------------------------- MODULE MCNapiRuntime ---------------------------
(***************************************************************************)
(* NapiRuntime on two works, and one function with a native thread.        *)
(***************************************************************************)
EXTENDS NapiRuntime
=============================================================================
