----------------------------- MODULE MCPipeline -----------------------------
(* Instances of Pipeline for TLC. *)
EXTENDS Pipeline, TLC

CONSTANTS orders, users, w1, w2

\* Topics and workers are interchangeable; used by the safety run only.
Symmetry == Permutations(Topics) \union Permutations(Workers)
=============================================================================
