--------------------------- MODULE MCPolicyManager ---------------------------
(***************************************************************************)
(* Small instances of PolicyManager: three features for two positions, and *)
(* deployments that change the number of buckets, the dimension, the       *)
(* growth and the type, two of which no fresh policy can be built from.    *)
(***************************************************************************)
EXTENDS PolicyManager, TLC

CONSTANTS a, b, c

MCFeature == {a, b, c}
MCDeployments ==
  {[type |-> "linucb", actions |-> 2, dimension |-> 2, growth |-> TRUE],
   [type |-> "linucb", actions |-> 3, dimension |-> 1, growth |-> FALSE],
   [type |-> "thompson", actions |-> 2, dimension |-> 1, growth |-> TRUE],
   [type |-> "linucb", actions |-> 2, dimension |-> 0, growth |-> TRUE],
   [type |-> "ucb", actions |-> 2, dimension |-> 2, growth |-> TRUE]}
Symmetric == Permutations(MCFeature)
=============================================================================
