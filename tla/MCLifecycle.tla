----------------------------- MODULE MCLifecycle -----------------------------
(* Model-checking instance of Lifecycle.                                   *)
EXTENDS Lifecycle
=============================================================================
