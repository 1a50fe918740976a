\* Two tags of one list.
CONSTANTS
    Author = {a1, a2}
    Tag = {t1, t2}
    House = {h1}
    Field = {f1, f2}
    Operation = {q1}
    NoKey = NoKey
    MaxVersion = 2

SPECIFICATION DSpec
SYMMETRY Symmetry
CHECK_DEADLOCK FALSE

INVARIANTS
    LookupsAreBatched
