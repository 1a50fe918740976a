----------------------------- MODULE MCController -----------------------------
(* The controller on a small instance: two records of different owners, with *)
(* an email and two virtual fields: a nickname in a map that merges shallow,  *)
(* and tags in one that merges deep; with the inductive invariant that        *)
(* ControllerProofs proves.                                                   *)
EXTENDS ControllerProofs, TLC

CONSTANTS o1, o2, e1, e2, n1, n2,
          l1, l2,      \* tags that are lists
          t1           \* a tag that is a string

Fields == {"owner", "email", "nick", "labels.nick", "tags", "metadata.tags"}
Virtuals == [v \in {"nick", "tags"} |-> IF v = "nick" THEN "labels.nick" ELSE "metadata.tags"]
DeepOnes == {"tags"}
Values == {o1, o2, e1, e2, n1, n2, l1, l2, t1}
Lists == {l1, l2}

\* A body names a virtual field by its own name; a row has it in its map.
Rec(owner, email, nick, tags) ==
    [owner |-> owner, email |-> email, nick |-> nick, tags |-> tags]
        @@ [f \in {"labels.nick", "metadata.tags"} |-> Zero]
InRow(owner, email, nick, tags) ==
    [owner |-> owner, email |-> email, nick |-> Zero, tags |-> Zero]
        @@ [f \in {"labels.nick", "metadata.tags"} |-> IF f = "labels.nick" THEN nick ELSE tags]

\* A partial body, one that moves the record to the other owner, and a full one
\* whose tag no later update can merge.
Bodies == {Rec(Zero, e1, Zero, Zero), Rec(o2, Zero, n1, l1), Rec(o1, e2, n2, t1)}

\* The same, and one that names the key of a virtual field in its map.
KeyBodies == Bodies \cup {InRow(Zero, e2, n2, Zero)}

\* One record of each owner, or none, or two of one owner.
Seeds == {[id \in Id |-> IF id = mine THEN InRow(o1, e1, n1, l2) ELSE InRow(o2, Zero, Zero, t1)] :
             mine \in Id}
           \cup {[id \in Id |-> NoRecord], [id \in Id |-> InRow(o1, e2, n2, l2)]}

\* Requests see the first owner's records; a reader sees all.
Scopes == [op \in Op |-> IF op = "read" THEN {o1, o2} ELSE {o1}]

Nothing == [op \in Op |-> {}]

\* Policies on responses of writes only, and a policy on reads.
MaskWrites == [op \in Op |-> IF op \in Reads THEN {} ELSE {"email"}]
DenyWrites == [op \in Op |-> IF op = "create" THEN {"owner"} ELSE {}]
MaskReads == [op \in Op |-> IF op \in Reads THEN {"email"} ELSE {}]

Symmetry == Permutations(Id)

=============================================================================
