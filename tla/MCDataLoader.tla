---------------------------- MODULE MCDataLoader ----------------------------
(* Fields that share a loader, on a small instance; with the inductive      *)
(* invariant that DataLoaderProofs proves.                                  *)
EXTENDS DataLoaderProofs, TLC

Symmetry == Permutations(Author) \cup Permutations(Field)

=============================================================================
