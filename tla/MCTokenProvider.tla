-------------------------- MODULE MCTokenProvider --------------------------
(* TokenProvider for TLC: three callers, two of gRPC and the readiness probe. *)
EXTENDS TokenProvider, TLC

CONSTANTS stream, schema, probe

Symmetry == Permutations(Callers)
=============================================================================
