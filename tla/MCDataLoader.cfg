\* One request: its loader lives as long as it does.
CONSTANTS
    Author = {a1, a2}
    Tag = {t1}
    House = {h1}
    Field = {f1, f2}
    Operation = {q1}
    NoKey = NoKey
    MaxVersion = 2

SPECIFICATION DSpec
SYMMETRY Symmetry
CHECK_DEADLOCK FALSE

INVARIANTS
    DTypeOK
    AnswersOfTheirOperation
