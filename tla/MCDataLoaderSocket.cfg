\* A WebSocket connection: two operations with one loader.
CONSTANTS
    Author = {a1, a2}
    Tag = {t1}
    House = {h1}
    Field = {f1, f2}
    Operation = {q1, q2}
    NoKey = NoKey
    MaxVersion = 2

SPECIFICATION DSpec
SYMMETRY Symmetry
CHECK_DEADLOCK FALSE

INVARIANTS
    AnswersOfTheirOperation
