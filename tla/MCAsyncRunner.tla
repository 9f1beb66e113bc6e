--------------------------- MODULE MCAsyncRunner ---------------------------
(***************************************************************************)
(* Small instances of AsyncRunner: two threads that call run.              *)
(***************************************************************************)
EXTENDS AsyncRunner

CONSTANTS c1, c2
=============================================================================
