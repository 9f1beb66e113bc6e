---------------------------- MODULE MCRequestPath ----------------------------
(***************************************************************************)
(* Small instances of RequestPath.  The two prompts are near duplicates of *)
(* each other; the buckets last one and two ticks.                       *)
(***************************************************************************)
EXTENDS RequestPath, TLC

CONSTANTS f1, f2, h1, h2

MCFp == {f1, f2}
MCScore == [f \in MCFp |-> [g \in MCFp |-> IF f = g THEN 2 ELSE 1]]
MCTTL == (0 :> 1) @@ (1 :> 2)
Symmetric == Permutations({f1, f2}) \cup Permutations({h1, h2})
=============================================================================
