----------------------------- MODULE MCLifecycle -----------------------------
(* Two cursors above zero tell a periodic save's, the final save's and the *)
(* previous run's apart.                                                   *)
EXTENDS Lifecycle
=============================================================================
