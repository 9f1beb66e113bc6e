--------------------------- MODULE MCCacheSystem ---------------------------
(***************************************************************************)
(* Small instances of CacheSystem: three buckets of one, two and four      *)
(* ticks, so that an entry can be moved twice.                             *)
(***************************************************************************)
EXTENDS CacheSystem, TLC

CONSTANTS f1, f2, h1, h2, w1, w2

MCOneFp == {f1}
MCTwoFp == {f1, f2}
MCScoreOne == [f \in MCOneFp |-> [g \in MCOneFp |-> 2]]
MCScoreTwo == [f \in MCTwoFp |-> [g \in MCTwoFp |-> IF f = g THEN 2 ELSE 1]]
MCTTL == (0 :> 1) @@ (1 :> 2) @@ (2 :> 4)
Symmetric == Permutations({w1, w2})
=============================================================================
