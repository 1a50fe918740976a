--------------------------- MODULE MCGraphQLSocket ---------------------------
(* A connection and the requests that publish, on a small instance; with the *)
(* inductive invariants that GraphQLSocketProofs proves.                     *)
EXTENDS GraphQLSocketProofs, TLC

\* TheLockComesBack as a property for TLC.
LocksComeBack == [][WayGetsShorter]_wvars

Symmetry == Permutations(Op) \cup Permutations(Id) \cup Permutations(Mutator)

=============================================================================
