\* A WebSocket connection: what its loader still promises, and the inductive
\* invariant that it rests on.
CONSTANTS
    Author = {a1}
    Tag = {t1}
    House = {h1}
    Field = {f1, f2}
    Operation = {q1, q2}
    NoKey = NoKey
    MaxVersion = 2

SPECIFICATION DSpec
CHECK_DEADLOCK FALSE

INVARIANTS
    DInv
    AnswersOfTheLoader
