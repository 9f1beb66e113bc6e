---------------------------- MODULE MCLifecycle ----------------------------
(***************************************************************************)
(* Small instances of Lifecycle: the main thread and two request threads.  *)
(***************************************************************************)
EXTENDS Lifecycle

CONSTANTS m, c1, c2
=============================================================================
