-------------------------- MODULE MCParsePipeline --------------------------
(* Constant values for model checking ParsePipeline.                       *)
EXTENDS ParsePipeline, TLC

CONSTANTS w1, w2, u1, u2, f1, j1, j2, j3

\* Workers, requests and row ids are interchangeable.
Symmetric ==
    Permutations({w1, w2}) \cup Permutations({u1, u2}) \cup Permutations({j1, j2, j3})
=============================================================================
