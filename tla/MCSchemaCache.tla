--------------------------- MODULE MCSchemaCache ---------------------------
(* SchemaCache for TLC: three workers, one schema of two that does not parse. *)
EXTENDS SchemaCache

CONSTANTS w1, w2, w3, order, user
=============================================================================
