---------------------------- MODULE MCSchemaRefresh ----------------------------
(* Registry and refresher together on a small instance, with what            *)
(* SchemaRefreshProofs proves.                                               *)
EXTENDS SchemaRefreshProofs, TLC

CONSTANT author

Alone == [r \in Resource |-> {r}]

\* Every other resource relates to the author.
WithAuthor == [r \in Resource |-> {r, author}]

Schemas == <<"schema.graphql", "resolver_custom.go", "resolver_gen.go">>
SchemaOnly == <<"schema.graphql">>
Stubs == {"resolver_custom.go"}

Symmetry == Permutations(Publisher) \cup Permutations(Goroutine)

=============================================================================
