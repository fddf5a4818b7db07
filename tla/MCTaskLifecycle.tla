--------------------------- MODULE MCTaskLifecycle ---------------------------
(* TLC instances of TaskLifecycle. *)
EXTENDS TaskLifecycle
=============================================================================
