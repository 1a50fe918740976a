--------------------------- MODULE MCSchemaRegistry ---------------------------
(* The schema registry on a small instance, with what SchemaRegistryProofs   *)
(* proves.                                                                   *)
EXTENDS SchemaRegistryProofs, TLC

\* Goroutines are interchangeable (safety runs only).
Symmetry == Permutations(Client)

=============================================================================
