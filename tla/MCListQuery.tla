----------------------------- MODULE MCListQuery -----------------------------
(* List requests on a small instance: three records that anyone may see and  *)
(* one that the guard hides, three fields and two other names.               *)
EXTENDS ListQueryProofs

Ids == 1 .. 4
Fields == {"name", "email", "apiKey"}

\* "EMAIL" and "apikey" are spellings; T has no field "age".
Spellings == Fields \cup {"EMAIL", "apikey", "age"}
LowerCase == [n \in Spellings |->
                CASE n = "EMAIL" -> "email" [] n = "apiKey" -> "apikey" [] OTHER -> n]

Met == [f \in Fields |-> CASE f = "name" -> {1, 2, 4} [] f = "email" -> {2, 3} [] OTHER -> {1, 3}]
GuardLets == {1, 2, 3}

P(allow, deny, mask, ids) == [allow |-> allow, deny |-> deny, mask |-> mask, rows |-> ids]

\* Lists that do not overlap, masks in lower case.
PlainPolicies ==
    {P({}, {}, {}, Ids), P({}, {"EMAIL"}, {"name"}, Ids),
     P({"age"}, {"apikey"}, {"EMAIL"}, {1, 2, 4}), P({"name", "apiKey"}, {"EMAIL"}, {"name"}, Ids),
     P({}, Fields, {}, {1, 2})}

\* A field on both lists; a mask on a field whose name is not in lower case.
OddPolicies == {P({"name", "email"}, {"email"}, {}, Ids), P({}, {}, {"apiKey"}, Ids)}

SomeFilters == {{}, {"name"}, {"email"}, {"EMAIL", "age"}, {"name", "apiKey"}, {"email", "apiKey"}}
SomeLimits == {0, 1, 2}
SomeOffsets == {-1, 0, 1, 2, 5}

=============================================================================
